------------------------------- MODULE FanOut -------------------------------
(***************************************************************************)
(* What the relay promises to those it joins: each track has one source at *)
(* a time, a subscriber is joined to its track only when the source has    *)
(* accepted it, and it stays joined to that source.  When the source ends, *)
(* all that wait for it or are joined to it are told so before they can be *)
(* served by another; one that is still to be told is never joined.        *)
(***************************************************************************)
CONSTANTS
    Track,
    Publisher,
    Subscriber,
    TrackOf,    \* the track of each subscriber
    None        \* no source

VARIABLES
    source,     \* source[t]: where the relay gets t from, or None
    live,       \* the tracks whose source has accepted
    queued,     \* subscribers that wait for their track
    joined,     \* subscribers that are served by the source of their track
    leaving,    \* subscribers that are to be told that their source has ended
    gone        \* subscribers that are no longer connected

Init ==
    /\ source = [t \in Track |-> None]
    /\ live = {}
    /\ queued = {}
    /\ joined = {}
    /\ leaving = {}
    /\ gone = {}

\* A track without a source gets one; it is not live yet.
Chosen(t) == {p \in Publisher : source[t] = None}

Choose(t) ==
    /\ \E p \in Chosen(t) : source' = [source EXCEPT ![t] = p]
    /\ UNCHANGED <<live, queued, joined, leaving, gone>>

\* A subscriber comes, alone or as the one for which a source is chosen.
Queue(s) ==
    /\ s \notin queued \cup joined \cup leaving
    /\ queued' = queued \cup {s}
    /\ \/ UNCHANGED source
       \/ \E p \in Chosen(TrackOf[s]) : source' = [source EXCEPT ![TrackOf[s]] = p]
    /\ UNCHANGED <<live, joined, leaving, gone>>

\* The sources of the tracks T accept.
Answer(T) ==
    /\ \A t \in T : source[t] # None
    /\ live' = live \cup T
    /\ UNCHANGED <<source, queued, joined, leaving, gone>>

Join(S) ==
    /\ S \subseteq {s \in queued : TrackOf[s] \in live}
    /\ queued' = queued \ S
    /\ joined' = joined \cup S
    /\ UNCHANGED <<source, live, leaving, gone>>

\* The sources of the tracks T end, and the relay sees that the subscribers D have gone.
End(T, D) ==
    LET orphans == {s \in queued \cup joined : TrackOf[s] \in T} IN
    /\ \A t \in T : source[t] # None
    /\ D \subseteq gone
    /\ source' = [t \in Track |-> IF t \in T THEN None ELSE source[t]]
    /\ live' = live \ T
    /\ queued' = (queued \ orphans) \ D
    /\ joined' = (joined \ orphans) \ D
    /\ leaving' = (leaving \cup orphans) \ D
    /\ UNCHANGED gone

\* Those that are leaving are told.
Release ==
    /\ leaving' = {}
    /\ UNCHANGED <<source, live, queued, joined, gone>>

Depart(s) ==
    /\ gone' = gone \cup {s}
    /\ UNCHANGED <<source, live, queued, joined, leaving>>

Next ==
    \/ \E t \in Track : Choose(t)
    \/ \E s \in Subscriber : Queue(s)
    \/ \E T \in SUBSET Track : Answer(T)
    \/ \E S \in SUBSET Subscriber : Join(S)
    \/ \E T \in SUBSET Track, D \in SUBSET Subscriber : End(T, D)
    \/ Release
    \/ \E s \in Subscriber : Depart(s)

Spec == Init /\ [][Next]_<<source, live, queued, joined, leaving, gone>>
=============================================================================
