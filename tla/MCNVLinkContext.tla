---------------------------- MODULE MCNVLinkContext ----------------------------
(* An instance of NVLinkContext: one region by the start of its allocation,    *)
(* one the way a view of a tensor is registered, by its own address.           *)
EXTENDS NVLinkContext, TLC

CONSTANTS A, B, m1, m2, m3

MCPeer == A :> B @@ B :> A

Mr(a, p, o) == [alloc |-> a, pos |-> p, offset |-> o]

MCRegion == A :> {Mr(m1, 0, 1)} @@ B :> {Mr(m2, 0, 0), Mr(m3, 1, 1)}
=============================================================================
