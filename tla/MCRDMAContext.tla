---------------------------- MODULE MCRDMAContext ----------------------------
(***************************************************************************)
(* Instances of RDMAContext for TLC: which requests are submitted, how      *)
(* large they are and what their callers do with the handle.                *)
(***************************************************************************)
EXTENDS RDMAContext, TLC

CONSTANTS r1, r2, r3

MCRequest2 == {r1, r2}
MCRequest3 == {r1, r2, r3}

(* r1 needs two pieces, and only one of them fits beside r2.                 *)
MCSize2 == r1 :> 3 @@ r2 :> 2
MCSize3 == r1 :> 3 @@ r2 :> 2 @@ r3 :> 1
MCSizeSmall == r1 :> 3 @@ r2 :> 1
MCSizeLong == r1 :> 4 @@ r2 :> 2

MCReads2 == r1 :> "READ" @@ r2 :> "READ"
MCMixed3 == r1 :> "SEND" @@ r2 :> "RECV" @@ r3 :> "READ"
MCReadSend == r1 :> "READ" @@ r2 :> "SEND"

MCUsage2 == r1 :> "wait" @@ r2 :> "release"
MCWaits2 == r1 :> "wait" @@ r2 :> "wait"
MCStop == r1 :> "wait" @@ r2 :> "callback"
MCForget == r1 :> "callback" @@ r2 :> "wait" @@ r3 :> "forget"
=============================================================================
