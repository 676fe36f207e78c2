------------------------------- MODULE MCRelay -------------------------------
(***************************************************************************)
(* Two publishers of one track; a subscriber of it and one of a track of   *)
(* the same namespace that neither of them has.  Or one publisher and two  *)
(* subscribers of its track.                                               *)
(***************************************************************************)
EXTENDS Relay, TLC

CONSTANTS p1, p2, s1, s2, t1, t2, n1

OnePublisher == {p1}
TwoPublishers == {p1, p2}
Subscribers == {s1, s2}
OneNamespace == [t \in {t1, t2} |-> n1]
SameTrack == [c \in {p1, s1, s2} |-> t1]
OtherTrack == [c \in {p1, p2, s1, s2} |-> IF c = s2 THEN t2 ELSE t1]

PublishersAlike == Permutations(TwoPublishers)
=============================================================================
