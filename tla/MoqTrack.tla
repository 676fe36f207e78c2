------------------------------ MODULE MoqTrack ------------------------------
(***************************************************************************)
(* The data plane of one accepted subscription: a publisher's OutTrack and *)
(* OutStreams, the unidirectional QUIC streams between, and the            *)
(* subscriber's InTrack and InStreams (quiche_moq/src).                    *)
(*                                                                         *)
(* Each subgroup has a stream of its own.  QUIC keeps the order within a   *)
(* stream but not between streams, nor between a stream and the control    *)
(* stream, on which SUBSCRIBE_OK and PUBLISH_DONE travel.                  *)
(*                                                                         *)
(* The unit of data is one header or one chunk of payload; a subgroup      *)
(* header may be several units, so that a packet boundary can split it.    *)
(* A group stands for a (group, subgroup) pair.  Streams are numbered in   *)
(* the order in which they are opened, which is the order of their ids.    *)
(***************************************************************************)
EXTENDS Integers, Sequences, FiniteSetsExt

CONSTANTS
    MaxStream,      \* bound of the model: streams the publisher opens
    MaxGroup,       \* bound of the model: greatest group
    MaxObjectId,    \* bound of the model: greatest object id in a subgroup
    Size,           \* units of payload of the objects that are written
    HeaderLen,      \* units of a subgroup header
    BufLen          \* units that InStream::buf holds

ASSUME BoundsAssumption ==
    /\ MaxStream \in Nat
    /\ MaxGroup \in Nat
    /\ MaxObjectId \in Nat
    /\ Size \subseteq Nat \ {0}

ASSUME LengthsAssumption ==
    /\ HeaderLen \in Nat \ {0}
    /\ BufLen \in Nat /\ BufLen >= HeaderLen

Stream == 1..MaxStream
Group == 0..MaxGroup

\* HashMap::insert and remove.
Put(f, k, v) == [x \in DOMAIN f \cup {k} |-> IF x = k THEN v ELSE f[x]]
Without(f, S) == [x \in DOMAIN f \ S |-> f[x]]

\* An Option that is None.
None == -1

\* The object being read when there is none.
NoObject == [stream |-> None, id |-> None, size |-> 0, payload |-> << >>]

VARIABLES
    current_stream_id,  \* OutTrack: the stream being written, or None
    out_streams,        \* publisher's OutStreams
    opened,             \* how many streams the publisher has opened
    published,          \* whether PUBLISH_DONE has been sent
    written,            \* history: objects completely written, by stream
    wire,               \* units sent and on their way
    ending,             \* how the publisher ended each stream: "open", "fin", "reset"
    control,            \* control messages on their way to the subscriber
    inbound,            \* units the subscriber's QUIC has, unread
    ended,              \* whether the end of the stream has reached the subscriber
    wt_streams,         \* streams WebTransport keeps state for, all marked readable
    wt_finished,        \* those it will garbage collect at its next poll
    in_streams,         \* subscriber's InStreams
    in_track,           \* whether the InTrack exists
    readable_streams,   \* InTrack
    finned_streams,     \* InTrack
    expected_streams,   \* InTrack
    pending_stream,     \* pending_streams[alias]: what arrived before SUBSCRIBE_OK
    obj_hdr,            \* application: the object being read, or NoObject
    received,           \* application: objects completely read, by stream
    track_fin,          \* application: told that the track is finished
    panicked            \* "no", or the assertion that ended the subscriber

outVars == <<current_stream_id, out_streams, opened, published, written>>
wtVars == <<inbound, wt_finished>>
trackVars == <<in_track, readable_streams, finned_streams, expected_streams,
               pending_stream>>
appVars == <<obj_hdr, received, track_fin>>

vars == <<outVars, wire, ending, control, ended, wt_streams, wtVars, in_streams,
          trackVars, appVars, panicked>>

publisherOnly == <<control, ended, wt_streams, wtVars, in_streams, trackVars,
                   appVars, panicked>>

-----------------------------------------------------------------------------
SubgroupHeader == [i \in 1..HeaderLen |-> [kind |-> "subgroup"]]
ObjectHeader(id, size) == [kind |-> "object", id |-> id, size |-> size]
Payload(s, id, i) == [kind |-> "payload", stream |-> s, id |-> id, position |-> i]

\* An object as the application hands it in, and as the other one gets it.
WholeObject(s, id, size) ==
    [id |-> id, payload |-> [i \in 1..size |-> Payload(s, id, i)]]

NewOutStream(group) ==
    [state |-> "SubgroupHeader", group_id |-> group, next_object_id |-> 0,
     size |-> 0, remaining |-> 0]

NewInStream == [subgroup_header |-> FALSE, remaining |-> 0, buf |-> << >>]

\* accept_subscription() has created the OutTrack and sent SUBSCRIBE_OK.
Init ==
    /\ current_stream_id = None
    /\ out_streams = << >>
    /\ opened = 0
    /\ published = FALSE
    /\ written = [s \in Stream |-> << >>]
    /\ wire = [s \in Stream |-> << >>]
    /\ ending = [s \in Stream |-> "open"]
    /\ control = << "SubscribeOk" >>
    /\ inbound = [s \in Stream |-> << >>]
    /\ ended = [s \in Stream |-> FALSE]
    /\ wt_streams = {}
    /\ wt_finished = {}
    /\ in_streams = << >>
    /\ in_track = FALSE
    /\ readable_streams = {}
    /\ finned_streams = 0
    /\ expected_streams = None
    /\ pending_stream = None
    /\ obj_hdr = NoObject
    /\ received = [s \in Stream |-> << >>]
    /\ track_fin = FALSE
    /\ panicked = "no"

-----------------------------------------------------------------------------
(* Publisher.                                                              *)

\* How much of the headers QUIC takes: each is written whole or not at all.
Capacity == {"none", "subgroup header", "both"}

\* OutStream::send_obj_hdr on an OutStream `st' of stream s.
WriteHeaders(s, st, id, size, capacity) ==
    LET subgroup == st.state = "SubgroupHeader" /\ capacity # "none"
        object == capacity = "both" IN
    /\ wire' = [wire EXCEPT ![s] =
                  @ \o (IF subgroup THEN SubgroupHeader ELSE << >>)
                    \o (IF object THEN << ObjectHeader(id, size) >> ELSE << >>)]
    /\ out_streams' = Put(out_streams, s,
           IF object
           THEN [st EXCEPT !.state = "ObjectPayload", !.next_object_id = id + 1,
                           !.size = size, !.remaining = size]
           ELSE [st EXCEPT !.state = IF subgroup THEN "ObjectHeader" ELSE st.state])

\* The group of the next subgroup: as given, or that of the current stream, or 0.
EffectiveGroup(group) ==
    IF group # None THEN group
    ELSE IF current_stream_id # None THEN out_streams[current_stream_id].group_id
    ELSE 0

NeedNewStream(group) ==
    current_stream_id # None =>
        EffectiveGroup(group) # out_streams[current_stream_id].group_id

\* The application keeps to the documented use: groups it names do not decrease,
\* ids increase, a size is positive, nothing is sent after PUBLISH_DONE and no
\* header before the end of the payload.
MaySend(group, st, id) ==
    /\ ~published
    /\ current_stream_id # None =>
           /\ out_streams[current_stream_id].state # "ObjectPayload"
           /\ group # None => group >= out_streams[current_stream_id].group_id
    /\ id >= st.next_object_id

SendOnCurrent(group, id, size, capacity) ==
    /\ ~NeedNewStream(group)
    /\ MaySend(group, out_streams[current_stream_id], id)
    /\ WriteHeaders(current_stream_id, out_streams[current_stream_id], id, size, capacity)
    /\ UNCHANGED <<current_stream_id, opened, published, written, ending, publisherOnly>>

\* fin() of the current stream, if there is one.  When its session id has not
\* been sent and does not fit, the FIN is lost without notice.
FinCurrent ==
    IF current_stream_id = None
    THEN UNCHANGED ending
    ELSE \/ ending' = [ending EXCEPT ![current_stream_id] = "fin"]
         \/ /\ out_streams[current_stream_id].state = "SubgroupHeader"
            /\ UNCHANGED ending

SendOnNew(group, id, size, capacity) ==
    LET s == opened + 1
        st == NewOutStream(IF group = None THEN 0 ELSE group) IN
    /\ NeedNewStream(group)
    /\ opened < MaxStream
    /\ MaySend(group, st, id)
    /\ FinCurrent
    /\ current_stream_id' = s
    /\ opened' = s
    /\ WriteHeaders(s, st, id, size, capacity)
    /\ UNCHANGED <<published, written, publisherOnly>>

\* QUIC has no stream to give: the old one is finished all the same.
OpenBlocked(group) ==
    /\ NeedNewStream(group)
    /\ MaySend(group, NewOutStream(0), 0)
    /\ FinCurrent
    /\ current_stream_id' = None
    /\ UNCHANGED <<out_streams, opened, published, written, wire, publisherOnly>>

\* send_obj_pld(): QUIC takes n units, up to the end of the object.
SendObjPld(n) ==
    LET s == current_stream_id
        st == out_streams[s]
        first == st.size - st.remaining
        id == st.next_object_id - 1 IN
    /\ ~published
    /\ s # None
    /\ st.state = "ObjectPayload"
    /\ n <= st.remaining
    /\ wire' = [wire EXCEPT ![s] = @ \o [i \in 1..n |-> Payload(s, id, first + i)]]
    /\ IF n = st.remaining
       THEN /\ out_streams' =
                   Put(out_streams, s, [st EXCEPT !.remaining = 0, !.state = "ObjectHeader"])
            /\ written' = [written EXCEPT ![s] = Append(@, WholeObject(s, id, st.size))]
       ELSE /\ out_streams' =
                   Put(out_streams, s, [st EXCEPT !.remaining = st.remaining - n])
            /\ UNCHANGED written
    /\ UNCHANGED <<current_stream_id, opened, published, ending, publisherOnly>>

\* reset_current_track_stream(), and timeout_stream() when there is a stream.
ResetCurrentTrackStream ==
    /\ ~published
    /\ current_stream_id # None
    /\ ending' = [ending EXCEPT ![current_stream_id] = "reset"]
    /\ out_streams' = Without(out_streams, {current_stream_id})
    /\ current_stream_id' = None
    /\ UNCHANGED <<opened, published, written, wire, publisherOnly>>

\* publish_done() leaves the current stream as it is.
PublishDoneCall ==
    /\ ~published
    /\ published' = TRUE
    /\ control' = Append(control, "PublishDone")
    /\ UNCHANGED <<current_stream_id, out_streams, opened, written, wire, ending, ended,
                   wt_streams, wtVars, in_streams, trackVars, appVars, panicked>>

-----------------------------------------------------------------------------
(* QUIC and WebTransport on the subscriber's side.                         *)

\* The next unit arrives.  WebTransport marks the stream readable, and never
\* unmarks it while it keeps the stream.
Arrive(s) ==
    /\ wire[s] # << >>
    /\ inbound' = [inbound EXCEPT ![s] = Append(@, Head(wire[s]))]
    /\ wire' = [wire EXCEPT ![s] = Tail(@)]
    /\ wt_streams' = wt_streams \cup {s}
    /\ UNCHANGED <<outVars, ending, control, ended, wt_finished, in_streams, trackVars,
                   appVars, panicked>>

ArriveFin(s) ==
    /\ ending[s] = "fin"
    /\ wire[s] = << >>
    /\ ~ended[s]
    /\ ended' = [ended EXCEPT ![s] = TRUE]
    /\ wt_streams' = wt_streams \cup {s}
    /\ UNCHANGED <<outVars, wire, ending, control, wtVars, in_streams, trackVars,
                   appVars, panicked>>

\* A RESET_STREAM overtakes the data of its stream, and discards what is unread.
ArriveReset(s) ==
    /\ ending[s] = "reset"
    /\ ~ended[s]
    /\ ended' = [ended EXCEPT ![s] = TRUE]
    /\ wire' = [wire EXCEPT ![s] = << >>]
    /\ inbound' = [inbound EXCEPT ![s] = << >>]
    /\ UNCHANGED <<outVars, ending, control, wt_streams, wt_finished, in_streams,
                   trackVars, appVars, panicked>>

\* wt::Connection::poll drops the streams on which it has reported Fin.
CollectStreams ==
    /\ wt_finished # {}
    /\ wt_streams' = wt_streams \ wt_finished
    /\ wt_finished' = {}
    /\ UNCHANGED <<outVars, wire, ending, control, ended, inbound, in_streams, trackVars,
                   appVars, panicked>>

-----------------------------------------------------------------------------
(* The subscriber's session.                                               *)

Running == panicked = "no"

Panic(why) ==
    /\ panicked' = why
    /\ UNCHANGED <<outVars, wire, ending, control, ended, wt_streams, wtVars, in_streams,
                   trackVars, appVars>>

\* Variant: the stream that waits for the track is not handed over to it.
StillPending == readable_streams

\* The streams of the track when SUBSCRIBE_OK creates it.
TakenOver == IF pending_stream = None THEN {} ELSE {pending_stream}

RecvSubscribeOk ==
    /\ Running
    /\ control # << >> /\ Head(control) = "SubscribeOk"
    /\ control' = Tail(control)
    /\ in_track' = TRUE
    /\ readable_streams' = TakenOver
    /\ pending_stream' = None
    /\ UNCHANGED <<outVars, wire, ending, ended, wt_streams, wtVars, in_streams,
                   finned_streams, expected_streams, appVars, panicked>>

\* mark_done() with the stream count of PUBLISH_DONE, which is always 0.
RecvPublishDone ==
    /\ Running
    /\ control # << >> /\ Head(control) = "PublishDone"
    /\ control' = Tail(control)
    /\ expected_streams' = 0
    /\ UNCHANGED <<outVars, wire, ending, ended, wt_streams, wtVars, in_streams, in_track,
                   readable_streams, finned_streams, pending_stream, appVars, panicked>>

\* Variant: a buffer takes what QUIC has even if it is not empty.
FilledAnyway(st, s) == st.buf \o SubSeq(inbound[s], 1, Min({BufLen, Len(inbound[s])}))

\* ShortBuf: an empty buffer takes what QUIC has, as far as it fits.
Filled(st, s) ==
    IF st.buf = << >>
    THEN SubSeq(inbound[s], 1, Min({BufLen, Len(inbound[s])}))
    ELSE st.buf
Unfilled(st, s) ==
    IF st.buf = << >>
    THEN SubSeq(inbound[s], Len(Filled(st, s)) + 1, Len(inbound[s]))
    ELSE inbound[s]

\* QUIC has reported the end of the stream to WebTransport: by FIN, which
\* finishes it, or by a reset, which does not.
Drained(s) == inbound[s] = << >> /\ ended[s]
FinishedBy(S) == wt_finished \cup {s \in S : ending[s] = "fin"}

\* The state of a stream, which the first poll of it creates.
InStream(s) == IF s \in DOMAIN in_streams THEN in_streams[s] ELSE NewInStream

\* The subgroup header is parsed from what the buffer has then.
KnowsSubgroup(s) == InStream(s).subgroup_header \/ Filled(InStream(s), s) # << >>
SplitHeader(s) ==
    /\ ~InStream(s).subgroup_header
    /\ Len(Filled(InStream(s), s)) \in 1..HeaderLen - 1

\* Session poll of a readable data stream: InStream::read, then the stream is
\* filed with its track, or kept until SUBSCRIBE_OK creates the track.
PollStream(s) ==
    LET st == InStream(s)
        data == Filled(st, s) IN
    /\ Running
    /\ s \in wt_streams \ wt_finished
    /\ ~SplitHeader(s)
    /\ KnowsSubgroup(s) => in_track \/ pending_stream = None
    /\ in_streams' = Put(in_streams, s,
           [st EXCEPT !.subgroup_header = KnowsSubgroup(s),
                      !.buf = IF st.subgroup_header \/ data = << >> THEN data
                              ELSE SubSeq(data, HeaderLen + 1, Len(data))])
    /\ inbound' = [inbound EXCEPT ![s] = Unfilled(st, s)]
    /\ wt_finished' = IF st.buf = << >> /\ Drained(s) THEN FinishedBy({s}) ELSE wt_finished
    /\ readable_streams' =
           IF KnowsSubgroup(s) /\ in_track THEN readable_streams \cup {s} ELSE readable_streams
    /\ pending_stream' = IF KnowsSubgroup(s) /\ ~in_track THEN s ELSE pending_stream
    /\ UNCHANGED <<outVars, wire, ending, control, ended, wt_streams, in_track,
                   finned_streams, expected_streams, appVars, panicked>>

PollFault(s) ==
    /\ Running
    /\ s \in wt_streams \ wt_finished
    /\ \/ /\ SplitHeader(s)
          /\ Panic("subgroup header cut in two")
       \/ /\ ~KnowsSubgroup(s) /\ ended[s] /\ ending[s] = "fin"
          /\ Panic("subgroup stream without header")
       \/ /\ ~SplitHeader(s)
          /\ KnowsSubgroup(s) /\ ~in_track /\ pending_stream # None
          /\ Panic("stream already pending")

-----------------------------------------------------------------------------
(* The subscriber's application: read_obj_hdr() for the next object, then   *)
(* read_obj_pld() until the payload is complete.                            *)

\* Variant: the stream served is the one opened last.
LastStream(S) == Max(S)

\* InTrack::current_stream: readable_streams is sorted, its first is served.
CurrentStream(S) == Min(S)

\* Variant: a stream with nothing to read at the moment is taken for ended.
OverForNow(s) ==
    /\ in_streams[s].remaining = 0
    /\ in_streams[s].buf = << >>
    /\ s \in wt_streams
    /\ inbound[s] = << >>

\* A call of read_obj_hdr() removes every stream up to the first one that has
\* not been read to its end.
Over(s) ==
    /\ in_streams[s].remaining = 0
    /\ in_streams[s].buf = << >>
    /\ s \in wt_streams
    /\ Drained(s)
ReadUp == {s \in readable_streams :
              \A t \in readable_streams : t <= s => Over(t)}

DropStreams(S) ==
    /\ readable_streams' = readable_streams \ S
    /\ finned_streams' = finned_streams + Cardinality(S)
    /\ wt_finished' = FinishedBy(S)

FullyDone(finned) == expected_streams # None /\ finned >= expected_streams

\* The streams that are left, and the one whose header is wanted.
LeftToRead == readable_streams \ ReadUp
NextStream == CurrentStream(LeftToRead)

\* in_streams without those read up, which are gone from the track too.
DropReadUp ==
    /\ DropStreams(ReadUp)
    /\ in_streams' = Without(in_streams, ReadUp)

NoStreamLeft ==
    /\ LeftToRead = {}
    /\ DropReadUp
    /\ track_fin' = (track_fin \/ FullyDone(finned_streams + Cardinality(ReadUp)))
    /\ UNCHANGED <<inbound, obj_hdr, panicked>>

NoHeaderYet ==
    LET s == NextStream IN
    /\ LeftToRead # {}
    /\ in_streams[s].remaining = 0
    /\ Filled(in_streams[s], s) = << >>
    /\ s \in wt_streams
    /\ DropReadUp
    /\ UNCHANGED <<inbound, obj_hdr, track_fin, panicked>>

ReadHeader ==
    LET s == NextStream
        st == in_streams[s]
        data == Filled(st, s)
        header == Head(data) IN
    /\ LeftToRead # {}
    /\ st.remaining = 0
    /\ data # << >>
    /\ s \in wt_streams \/ st.buf # << >>
    /\ DropStreams(ReadUp)
    /\ in_streams' = Put(Without(in_streams, ReadUp), s,
                         [st EXCEPT !.remaining = header.size, !.buf = Tail(data)])
    /\ inbound' = [inbound EXCEPT ![s] = Unfilled(st, s)]
    /\ obj_hdr' = [stream |-> s, id |-> header.id, size |-> header.size, payload |-> << >>]
    /\ UNCHANGED <<track_fin, panicked>>

ReadHeaderFault ==
    LET s == NextStream IN
    /\ LeftToRead # {}
    /\ \/ /\ in_streams[s].remaining # 0
          /\ panicked' = "header read inside a payload"
       \/ /\ in_streams[s].remaining = 0
          /\ in_streams[s].buf = << >>
          /\ s \notin wt_streams
          /\ panicked' = "no stream state"
    /\ UNCHANGED <<wtVars, in_streams, readable_streams, finned_streams, obj_hdr, track_fin>>

ReadObjHdr ==
    /\ Running
    /\ in_track /\ obj_hdr = NoObject
    /\ NoStreamLeft \/ NoHeaderYet \/ ReadHeader \/ ReadHeaderFault
    /\ UNCHANGED <<outVars, wire, ending, control, ended, wt_streams, in_track,
                   expected_streams, pending_stream, received>>

\* Variant: what is read is not limited to the object.
WholeChunk(st, s) == IF st.buf # << >> THEN st.buf ELSE inbound[s]

\* What chain_read2 returns: buffered units, or else units from QUIC.
Chunk(st, s) ==
    LET from == IF st.buf # << >> THEN st.buf ELSE inbound[s] IN
    SubSeq(from, 1, Min({st.remaining, Len(from)}))

AfterChunk(queue, n) == SubSeq(queue, n + 1, Len(queue))

\* Variant: the length asked for is subtracted, not the length read.
LeftAsAsked(remaining, chunk) == 0

Left(remaining, chunk) == remaining - Len(chunk)

\* Variant: an object is taken for complete after one read.
OneRead(obj, payload) == TRUE

Complete(obj, payload) == Len(payload) >= obj.size

\* The stream from which read_obj_pld() reads, and what the application has then.
PayloadStream == CurrentStream(readable_streams)
PayloadSoFar == obj_hdr.payload \o Chunk(in_streams[PayloadStream], PayloadStream)

ReadPayload ==
    LET s == PayloadStream
        st == in_streams[s]
        chunk == Chunk(st, s) IN
    /\ st.remaining # 0
    /\ chunk # << >>
    /\ in_streams' = Put(in_streams, s,
           [st EXCEPT !.remaining = Left(st.remaining, chunk),
                      !.buf = IF st.buf = << >> THEN << >> ELSE AfterChunk(st.buf, Len(chunk))])
    /\ inbound' = IF st.buf = << >>
                  THEN [inbound EXCEPT ![s] = AfterChunk(inbound[s], Len(chunk))] ELSE inbound
    /\ IF Complete(obj_hdr, PayloadSoFar)
       THEN /\ obj_hdr' = NoObject
            /\ received' = [received EXCEPT ![obj_hdr.stream] =
                   Append(@, [id |-> obj_hdr.id, payload |-> PayloadSoFar])]
       ELSE /\ obj_hdr' = [obj_hdr EXCEPT !.payload = PayloadSoFar]
            /\ UNCHANGED received
    /\ UNCHANGED <<wt_finished, readable_streams, finned_streams, panicked>>

\* The stream ends before the object: the object is given up.
StreamCutOff ==
    LET s == PayloadStream IN
    /\ in_streams[s].remaining # 0
    /\ in_streams[s].buf = << >>
    /\ s \in wt_streams /\ Drained(s)
    /\ DropStreams({s})
    /\ in_streams' = Without(in_streams, {s})
    /\ obj_hdr' = NoObject
    /\ UNCHANGED <<inbound, received, panicked>>

ReadPayloadFault ==
    LET s == PayloadStream IN
    /\ \/ /\ in_streams[s].remaining = 0
          /\ panicked' = "payload read outside an object"
       \/ /\ in_streams[s].remaining # 0
          /\ in_streams[s].buf = << >>
          /\ s \notin wt_streams
          /\ panicked' = "no stream state"
    /\ UNCHANGED <<wtVars, in_streams, readable_streams, finned_streams, obj_hdr, received>>

ReadObjPld ==
    /\ Running
    /\ obj_hdr # NoObject
    /\ ReadPayload \/ StreamCutOff \/ ReadPayloadFault
    /\ UNCHANGED <<outVars, wire, ending, control, ended, wt_streams, in_track,
                   expected_streams, pending_stream, track_fin>>

-----------------------------------------------------------------------------
Publish ==
    \/ \E group \in Group \cup {None}, id \in 0..MaxObjectId, size \in Size,
          capacity \in Capacity :
          SendOnCurrent(group, id, size, capacity) \/ SendOnNew(group, id, size, capacity)
    \/ \E group \in Group \cup {None} : OpenBlocked(group)
    \/ \E size \in Size : \E n \in 1..size : SendObjPld(n)
    \/ ResetCurrentTrackStream
    \/ PublishDoneCall

PollControl == RecvSubscribeOk \/ RecvPublishDone

Read == ReadObjHdr \/ ReadObjPld

Next ==
    \/ Publish
    \/ \E s \in Stream : Arrive(s) \/ ArriveFin(s) \/ ArriveReset(s)
    \/ \E s \in Stream : PollStream(s) \/ PollFault(s)
    \/ CollectStreams
    \/ PollControl
    \/ Read

Spec == Init /\ [][Next]_vars

\* QUIC delivers what was sent, and the subscriber's event loop keeps polling
\* the session and reading objects.  Nothing is assumed of the publisher.
FairSpec ==
    /\ Spec
    /\ \A s \in Stream :
          /\ WF_vars(Arrive(s)) /\ WF_vars(ArriveFin(s)) /\ WF_vars(ArriveReset(s))
          /\ WF_vars(PollStream(s) \/ PollFault(s))
    /\ WF_vars(CollectStreams)
    /\ WF_vars(PollControl)
    /\ WF_vars(Read)

-----------------------------------------------------------------------------
(* Properties.                                                             *)

Id == 0..MaxObjectId
PayloadUnit == [kind : {"payload"}, stream : Stream, id : Id, position : Nat \ {0}]
Unit == [kind : {"subgroup"}] \cup [kind : {"object"}, id : Id, size : Size] \cup PayloadUnit
Object == {WholeObject(s, id, size) : s \in Stream, id \in Id, size \in Size}

PanicReason ==
    {"no", "subgroup header cut in two", "subgroup stream without header",
     "stream already pending", "header read inside a payload",
     "payload read outside an object", "no stream state"}

\* Every variable has its type, and the streams used are among those opened.
TypeOK ==
    /\ opened \in 0..MaxStream
    /\ current_stream_id \in (1..opened) \cup {None}
    /\ DOMAIN out_streams \subseteq 1..opened
    /\ \A s \in DOMAIN out_streams :
          out_streams[s] \in
              [state : {"SubgroupHeader", "ObjectHeader", "ObjectPayload"}, group_id : Group,
               next_object_id : 0..MaxObjectId + 1, size : Size \cup {0}, remaining : Nat]
    /\ published \in BOOLEAN
    /\ written \in [Stream -> Seq(Object)]
    /\ received \in [Stream -> Seq(Object)]
    /\ wire \in [Stream -> Seq(Unit)]
    /\ inbound \in [Stream -> Seq(Unit)]
    /\ ending \in [Stream -> {"open", "fin", "reset"}]
    /\ ended \in [Stream -> BOOLEAN]
    /\ control \in Seq({"SubscribeOk", "PublishDone"})
    /\ wt_finished \subseteq wt_streams
    /\ wt_streams \subseteq 1..opened
    /\ DOMAIN in_streams \subseteq 1..opened
    /\ \A s \in DOMAIN in_streams :
          /\ in_streams[s].subgroup_header \in BOOLEAN
          /\ in_streams[s].remaining \in Nat
          /\ in_streams[s].buf \in Seq(Unit) /\ Len(in_streams[s].buf) <= BufLen
    /\ in_track \in BOOLEAN
    /\ track_fin \in BOOLEAN
    /\ finned_streams \in 0..opened
    /\ expected_streams \in {None, 0}
    /\ panicked \in PanicReason

\* What the track promises: on each stream the objects come whole and in order.
Delivery ==
    INSTANCE SubgroupDelivery
        WITH Stream <- Stream, Object <- Object, written <- written, received <- received
DeliversInOrder == Delivery!Spec

\* Every stream whose subgroup is known is filed once, with the track or to wait
\* for it, and every filed stream has its state.  So the unwraps of the read
\* calls hold, and no stream with objects to read is left aside.
StreamsFiled ==
    /\ readable_streams \cup ({pending_stream} \ {None})
           = {s \in DOMAIN in_streams : in_streams[s].subgroup_header}
    /\ in_track <=> control = << >> \/ Head(control) = "PublishDone"
    /\ in_track => pending_stream = None
    /\ ~in_track => readable_streams = {}

\* Every stream counts as finished once, and only when the publisher has ended
\* it: finned_streams can be compared with a count of streams.
FinnedOnce ==
    /\ finned_streams + Cardinality(readable_streams) <= Cardinality(wt_streams \cup
           {s \in Stream : ended[s]})
    /\ finned_streams <= Cardinality({s \in Stream : ended[s]})

\* An object being read is on a stream that still exists, and its payload so far
\* is the beginning of what was sent.
PayloadContinues ==
    obj_hdr # NoObject =>
        /\ obj_hdr.stream \in readable_streams
        /\ in_streams[obj_hdr.stream].remaining = obj_hdr.size - Len(obj_hdr.payload)
        /\ \A i \in DOMAIN obj_hdr.payload :
               obj_hdr.payload[i] = Payload(obj_hdr.stream, obj_hdr.id, i)

\* An object completely written to a stream that is not reset is received in the
\* end, whatever happens on other streams, unless the subscriber's process ends.
ObjectReceived ==
    \A s \in Stream : \A k \in 1..MaxObjectId + 1 :
        Len(written[s]) >= k
            ~> Len(received[s]) >= k \/ ending[s] = "reset" \/ ~Running

\* "Returns the subgroup header of the current incoming stream ... Valid after a
\* successful read_obj_hdr call": it is the header of the object being read.
SubgroupHeaderOfObject ==
    obj_hdr # NoObject => CurrentStream(readable_streams) = obj_hdr.stream

\* "True when all expected streams have been fully consumed": the application is
\* not told that the track is finished while it has streams to come.
FinAfterAllStreams ==
    track_fin => \A s \in Stream : ending[s] # "reset" => received[s] = written[s]
=============================================================================
