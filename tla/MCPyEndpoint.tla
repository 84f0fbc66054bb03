----------------------------- MODULE MCPyEndpoint -----------------------------
(* Instances of PyEndpoint: who reads what, and which batches share a callback. *)
EXTENDS PyEndpoint, TLC

CONSTANTS t1, t2, b1, b2, b3, b4, c1, c2

MCBatch2 == {b1, b2}
MCBatch4 == {b1, b2, b3, b4}

MCReads2 == t1 :> MCBatch2 @@ t2 :> MCBatch2
MCReads4 == t1 :> {b1, b2} @@ t2 :> {b3, b4}

MCOwn == b1 :> c1 @@ b2 :> c2

(* b1 has a callback of its own, b2 and b3 share one, b4 is a read_batch. *)
MCCallbackOf == b1 :> c1 @@ b2 :> c2 @@ b3 :> c2 @@ b4 :> NULL
=============================================================================
