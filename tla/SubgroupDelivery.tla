-------------------------- MODULE SubgroupDelivery --------------------------
(***************************************************************************)
(* What one track promises its subscriber: on each subgroup stream the     *)
(* objects come whole, in the order they were written, none twice and none *)
(* left out.  Nothing is promised between streams, and a stream may be cut *)
(* off at any object.                                                      *)
(***************************************************************************)
EXTENDS Naturals, Sequences

CONSTANTS
    Stream,     \* the subgroup streams of the track
    Object      \* what can be written: an id with its payload

VARIABLES
    written,    \* written[s]: the objects completely written to s
    received    \* received[s]: the objects completely read from s

Init ==
    /\ written = [s \in Stream |-> << >>]
    /\ received = [s \in Stream |-> << >>]

Write(s, o) ==
    /\ written' = [written EXCEPT ![s] = Append(@, o)]
    /\ UNCHANGED received

Read(s) ==
    /\ Len(received[s]) < Len(written[s])
    /\ received' = [received EXCEPT ![s] = Append(@, written[s][Len(received[s]) + 1])]
    /\ UNCHANGED written

Next == \E s \in Stream : Read(s) \/ \E o \in Object : Write(s, o)

Spec == Init /\ [][Next]_<<written, received>>
=============================================================================
