---------------------------- MODULE MCMoqControl ----------------------------
(* Instances of MoqControl for TLC.                                        *)
EXTENDS MoqControl

\* As in the code, but for the client's 100 brought down to the bound.
MCOutMaxRequestId == [e \in Endpoint |-> IF e = "client" THEN 5 ELSE 0]

\* Grants that can be used up: two requests of the client and one of the server.
MCOutMaxTight == [e \in Endpoint |-> IF e = "client" THEN 1 ELSE 2]

MCObeyQuota == [e \in Endpoint |-> FALSE]
MCIgnoreQuota == [e \in Endpoint |-> TRUE]
=============================================================================
