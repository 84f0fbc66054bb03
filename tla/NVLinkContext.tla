---------------------------- MODULE NVLinkContext ----------------------------
(***************************************************************************)
(* NVLinkContext and NVLinkMemoryPool (csrc/engine/nvlink) at two processes *)
(* that register device memory, describe it to each other, connect and read *)
(* each other's memory with copies on a stream, as example/p2p_nvlink.py    *)
(* does.                                                                    *)
(*                                                                         *)
(* An address is an allocation and a position in it.  A CUDA IPC handle is  *)
(* the handle of an allocation, and opening it gives its start, whatever    *)
(* address the handle was made from.  Lengths are left out: of a copy, this *)
(* is where it starts.                                                      *)
(***************************************************************************)
EXTENDS Naturals, Sequences

CONSTANTS
  Endpoint, Peer,  \* two processes
  Key,             \* names of memory regions
  Alloc,           \* device allocations
  None, Wild,      \* no allocation, and whatever an uninitialised pointer is in
  Region,          \* Endpoint -> the regions it may register, once per key
  Offset,          \* offsets an Assignment may have
  MaxReads,        \* bound: reads per endpoint
  NULL

nvlink_mr == [alloc : Alloc \union {None, Wild}, pos : Nat, offset : Nat]

ASSUME NVLinkAssumption ==
  /\ Peer \in [Endpoint -> Endpoint]
  /\ \A e \in Endpoint : Peer[e] # e /\ Peer[Peer[e]] = e
  /\ None \notin Alloc /\ Wild \notin Alloc /\ None # Wild
  /\ Region \in [Endpoint -> SUBSET [alloc : Alloc, pos : Nat, offset : Nat]]
  /\ Offset \subseteq Nat
  /\ MaxReads \in Nat
  /\ NULL \notin nvlink_mr

VARIABLES
  mrs_,         \* Endpoint -> Key -> nvlink_mr_t, NULL if there is none
  remote_mrs_,  \* Endpoint -> Key -> nvlink_mr_t, NULL if there is none
  offers,       \* Endpoint -> every endpoint_info it has given away
  stream,       \* Endpoint -> copies on its stream, oldest first
  phase,        \* Endpoint -> "open"; "finished" reading; "left"
  registered,   \* history: Endpoint -> Key -> what was registered
  missed,       \* history: Endpoint -> keys read while not registered there
  reads         \* history: Endpoint -> number of reads

poolVars == <<mrs_, remote_mrs_, offers>>
histVars == <<registered, missed, reads>>
vars     == <<poolVars, stream, phase, histVars>>

(* What operator[] inserts for a key it does not find.                      *)
Zero == [alloc |-> None, pos |-> 0, offset |-> 0]

Init ==
  /\ mrs_ = [e \in Endpoint |-> [k \in Key |-> NULL]]
  /\ remote_mrs_ = [e \in Endpoint |-> [k \in Key |-> NULL]]
  /\ offers = [e \in Endpoint |-> {}]
  /\ stream = [e \in Endpoint |-> <<>>]
  /\ phase = [e \in Endpoint |-> "open"]
  /\ registered = [e \in Endpoint |-> [k \in Key |-> {}]]
  /\ missed = [e \in Endpoint |-> {}]
  /\ reads = [e \in Endpoint |-> 0]

-----------------------------------------------------------------------------
(* Registration and connection.                                             *)

(* Mutant of RegisterMr: the offset is added to the address and kept.       *)
RegisterMrSummed(e, k) ==
  /\ phase[e] = "open"
  /\ \E r \in Region[e] \ registered[e][k] :
       /\ mrs_' = [mrs_ EXCEPT ![e][k] = [r EXCEPT !.pos = @ + r.offset]]
       /\ registered' = [registered EXCEPT ![e][k] = @ \union {r}]
  /\ UNCHANGED <<remote_mrs_, offers, stream, phase, missed, reads>>

(* A key registered again names the new region.                             *)
RegisterMr(e, k) ==
  /\ phase[e] = "open"
  /\ \E r \in Region[e] \ registered[e][k] :
       /\ mrs_' = [mrs_ EXCEPT ![e][k] = r]
       /\ registered' = [registered EXCEPT ![e][k] = @ \union {r}]
  /\ UNCHANGED <<remote_mrs_, offers, stream, phase, missed, reads>>

(* mr_info(): every entry of the map, those that operator[] made included.  *)
EndpointInfo(e) ==
  /\ phase[e] = "open"
  /\ offers' = [offers EXCEPT ![e] = @ \union {mrs_[e]}]
  /\ UNCHANGED <<mrs_, remote_mrs_, stream, phase, histVars>>

(* Mutant of Opened: without the offset of the region.                      *)
OpenedNoOffset(mr) ==
  [mr EXCEPT !.alloc = IF @ = None THEN Wild ELSE @, !.pos = 0, !.offset = 0]

(* cudaIpcOpenMemHandle.  A zero handle names nothing; that it then fails    *)
(* is ignored, and remote_ptr is uninitialised.  Assumed: the handle of an  *)
(* allocation can be opened, as often as it is described.                   *)
Opened(mr) ==
  [mr EXCEPT !.alloc = IF @ = None THEN Wild ELSE @, !.pos = 0]

(* Mutant of Connect: keys that are not described are opened as well.       *)
ConnectEveryKey(e) ==
  /\ phase[e] = "open"
  /\ \E o \in offers[Peer[e]] :
       remote_mrs_' = [remote_mrs_ EXCEPT ![e] =
         [k \in Key |-> Opened(IF o[k] = NULL THEN Zero ELSE o[k])]]
  /\ UNCHANGED <<mrs_, offers, stream, phase, histVars>>

(* connect() to a description, new or old.                                  *)
Connect(e) ==
  /\ phase[e] = "open"
  /\ \E o \in offers[Peer[e]] :
       remote_mrs_' = [remote_mrs_ EXCEPT ![e] =
         [k \in Key |-> IF o[k] = NULL THEN @[k] ELSE Opened(o[k])]]
  /\ UNCHANGED <<mrs_, offers, stream, phase, histVars>>

-----------------------------------------------------------------------------
(* read_batch().                                                            *)

Found(mr) == IF mr = NULL THEN Zero ELSE mr

At(mr, off) == [alloc |-> mr.alloc, pos |-> mr.pos + mr.offset + off]

(* get_mr and get_remote_mr insert what they do not find.  Errors of        *)
(* cudaMemcpyAsync are ignored: a copy from or to no allocation is none,    *)
(* one from a wild address may be.                                          *)
Read(e, k, source_offset, target_offset) ==
  LET source == Found(mrs_[e][k])
      target == Found(remote_mrs_[e][k])
      copy   == [key |-> k, dst |-> At(source, source_offset), src |-> At(target, target_offset),
                 source_offset |-> source_offset, target_offset |-> target_offset]
  IN
  /\ phase[e] = "open"
  /\ reads[e] < MaxReads
  /\ reads' = [reads EXCEPT ![e] = @ + 1]
  /\ mrs_' = [mrs_ EXCEPT ![e][k] = source]
  /\ remote_mrs_' = [remote_mrs_ EXCEPT ![e][k] = target]
  /\ missed' = IF mrs_[e][k] = NULL THEN [missed EXCEPT ![e] = @ \union {k}] ELSE missed
  /\ \/ /\ None \notin {source.alloc, target.alloc}
        /\ stream' = [stream EXCEPT ![e] = Append(@, copy)]
     \/ /\ {source.alloc, target.alloc} \intersect {None, Wild} # {}
        /\ UNCHANGED stream
  /\ UNCHANGED <<offers, phase, registered>>

(* The stream does one copy after the other.                                *)
Copy(e) ==
  /\ stream[e] # <<>>
  /\ stream' = [stream EXCEPT ![e] = Tail(@)]
  /\ UNCHANGED <<poolVars, phase, histVars>>

-----------------------------------------------------------------------------
(* How the processes end.                                                   *)

(* Mutant of Finish: the stream is not waited for.                          *)
FinishAtOnce(e) ==
  /\ phase[e] = "open"
  /\ phase' = [phase EXCEPT ![e] = "finished"]
  /\ UNCHANGED <<poolVars, stream, histVars>>

(* The data is looked at, which waits for the stream, and "terminate" sent; *)
(* an end that only serves reads is finished from the start.                *)
Finish(e) ==
  /\ phase[e] = "open"
  /\ stream[e] = <<>>
  /\ phase' = [phase EXCEPT ![e] = "finished"]
  /\ UNCHANGED <<poolVars, stream, histVars>>

(* Its memory goes with a process that has been told "terminate".           *)
Leave(e) ==
  /\ phase[e] = "finished" /\ phase[Peer[e]] # "open"
  /\ phase' = [phase EXCEPT ![e] = "left"]
  /\ UNCHANGED <<poolVars, stream, histVars>>

Next ==
  \E e \in Endpoint :
    \/ \E k \in Key : RegisterMr(e, k) \/ \E so, to \in Offset : Read(e, k, so, to)
    \/ EndpointInfo(e) \/ Connect(e) \/ Copy(e) \/ Finish(e) \/ Leave(e)

Spec == Init /\ [][Next]_vars

-----------------------------------------------------------------------------
(* A copy on a stream.                                                      *)
Transfer == [key : Key, dst : [alloc : Alloc, pos : Nat],
             src : [alloc : Alloc \union {Wild}, pos : Nat],
             source_offset : Offset, target_offset : Offset]

(* Every variable has its type, and a key names a region that was           *)
(* registered under it, or nothing, or the zero region after a miss.        *)
TypeOK ==
  /\ {mrs_, remote_mrs_} \subseteq [Endpoint -> [Key -> nvlink_mr \union {NULL}]]
  /\ \A e \in Endpoint, k \in Key :
       mrs_[e][k] \in registered[e][k] \union {NULL}
                     \union (IF k \in missed[e] THEN {Zero} ELSE {})
  /\ \A e \in Endpoint : offers[e] \subseteq [Key -> nvlink_mr \union {NULL}]
  /\ stream \in [Endpoint -> Seq(Transfer)]
  /\ phase \in [Endpoint -> {"open", "finished", "left"}]
  /\ registered \in [Endpoint -> [Key -> SUBSET UNION {Region[e] : e \in Endpoint}]]
  /\ \A e \in Endpoint, k \in Key : registered[e][k] \subseteq Region[e]
  /\ missed \in [Endpoint -> SUBSET Key]
  /\ reads \in [Endpoint -> 0 .. MaxReads]

(* Registered by the start of its allocation and the offset in it.          *)
ByStart(e, k) == \A r \in registered[e][k] : r.pos = 0

(* A copy starts, where it reads and where it writes, in regions that the   *)
(* two ends registered under its key, at the offsets asked for, provided    *)
(* that the one it reads from was registered by the start of its allocation *)
(* and that its owner never read the key before (memory_pool.cpp:22-32,     *)
(* nvlink_transport.h:14-38).                                               *)
CopiesWithinRegions ==
  \A e \in Endpoint : \A i \in DOMAIN stream[e] :
    LET c == stream[e][i] IN
    /\ \E r \in registered[e][c.key] : c.dst = At(r, c.source_offset)
    /\ c.key \notin missed[Peer[e]] /\ ByStart(Peer[e], c.key) =>
         \E r \in registered[Peer[e]][c.key] : c.src = At(r, c.target_offset)

(* An end comes to hold a wild remote region only from a peer that read the *)
(* key when it had not registered it, however often both describe           *)
(* themselves and connect (memory_pool.h:38-46, memory_pool.cpp:28).        *)
WildOnlyAfterMiss ==
  \A e \in Endpoint : \A k \in Key :
    remote_mrs_[e][k] # NULL /\ remote_mrs_[e][k].alloc = Wild => k \in missed[Peer[e]]

(* A process does not take its memory away while its peer copies from it.   *)
SourceOutlivesCopies ==
  \A e \in Endpoint : phase[e] = "left" => stream[Peer[e]] = <<>>
=============================================================================
