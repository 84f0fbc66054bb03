--------------------------- MODULE MCRDMAConnection ---------------------------
(* Instances of RDMAConnection: an initiator and a target. *)
EXTENDS RDMAConnection, TLC

CONSTANTS A, B, r1, r2, k1

MCEndpoint == {A, B}
MCPeer == A :> B @@ B :> A
MCPort1 == A :> 1 @@ B :> 1
MCKey1 == {k1}

MCNoRead == {}
MCNone == [r \in {} |-> r]

(* One read at either end. *)
MCRead2 == {r1, r2}
MCAt2 == r1 :> A @@ r2 :> B
MCName2 == r1 :> k1 @@ r2 :> k1
=============================================================================
