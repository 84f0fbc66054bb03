------------------------------ MODULE NVLinkProofs ------------------------------
(***************************************************************************)
(* Proofs about NVLinkContext: where copies go, for any regions, keys,      *)
(* offsets and any number of descriptions, connections and reads.           *)
(***************************************************************************)
EXTENDS NVLinkContext, TLAPS

(* What a description and what a pool may hold under a key: a region its    *)
(* owner registered, or the zero region after a miss.                       *)
Described(e, k) == registered[e][k] \union (IF k \in missed[e] THEN {Zero} ELSE {})

OffersTrue ==
  \A e \in Endpoint : \A o \in offers[e] : \A k \in Key :
    o[k] # NULL => o[k] \in Described(e, k)

(* A remote region was opened from such a description, or a miss left it.   *)
RemoteTrue ==
  \A e \in Endpoint : \A k \in Key :
    remote_mrs_[e][k] # NULL =>
      remote_mrs_[e][k] \in {Opened(mr) : mr \in Described(Peer[e], k)} \union {Zero}

PoolInv == TypeOK /\ OffersTrue /\ RemoteTrue

(* Who has finished has nothing on its stream, and nobody leaves before.    *)
EndInv ==
  \A e \in Endpoint :
    /\ phase[e] # "open" => stream[e] = <<>>
    /\ phase[e] = "left" => phase[Peer[e]] # "open"

AnyRegion == [alloc : Alloc, pos : Nat, offset : Nat]

LEMMA RegionFacts ==
  ASSUME TypeOK, NEW e \in Endpoint, NEW k \in Key
  PROVE  /\ registered[e][k] \subseteq AnyRegion
         /\ Described(e, k) \subseteq nvlink_mr
         /\ \A mr \in Described(e, k) : mr.alloc \in {None, Wild} => k \in missed[e]
         /\ \A mr \in Described(e, k) : Opened(mr) \in nvlink_mr
         /\ Zero \in nvlink_mr /\ Zero # NULL /\ NULL \notin Described(e, k)
  <1>1. registered[e][k] \subseteq AnyRegion
    BY NVLinkAssumption DEF TypeOK, AnyRegion
  <1>2. AnyRegion \subseteq nvlink_mr /\ Zero \in nvlink_mr
    BY DEF AnyRegion, nvlink_mr, Zero
  <1>3. \A mr \in AnyRegion : mr.alloc \notin {None, Wild}
    BY NVLinkAssumption DEF AnyRegion
  <1>4. \A mr \in nvlink_mr : Opened(mr) \in nvlink_mr
    BY DEF nvlink_mr, Opened
  <1> QED
    BY <1>1, <1>2, <1>3, <1>4, NVLinkAssumption DEF Described

-----------------------------------------------------------------------------
(* Types.                                                                   *)

LEMMA TypeInit == Init => TypeOK
  BY NVLinkAssumption DEF Init, TypeOK

LEMMA PoolInit == Init => PoolInv
  BY TypeInit DEF Init, PoolInv, OffersTrue, RemoteTrue

LEMMA RegisterMrPool ==
  ASSUME PoolInv, NEW d \in Endpoint, NEW k \in Key, RegisterMr(d, k)
  PROVE  PoolInv'
  <1> PICK r \in Region[d] \ registered[d][k] :
        /\ mrs_' = [mrs_ EXCEPT ![d][k] = r]
        /\ registered' = [registered EXCEPT ![d][k] = @ \union {r}]
    BY DEF RegisterMr
  <1> USE DEF PoolInv
  <1>0. r \in nvlink_mr /\ r \in Region[d] /\ r \in UNION {Region[e] : e \in Endpoint}
    BY NVLinkAssumption DEF nvlink_mr
  <1>1. TypeOK'
    <2>1. {mrs_, remote_mrs_}' \subseteq [Endpoint -> [Key -> nvlink_mr \union {NULL}]]
      BY <1>0 DEF RegisterMr, TypeOK
    <2>2. registered' \in [Endpoint -> [Key -> SUBSET UNION {Region[e] : e \in Endpoint}]]
      BY <1>0 DEF TypeOK
    <2>3. \A e \in Endpoint, j \in Key :
            /\ registered'[e][j] \subseteq Region[e]
            /\ mrs_'[e][j] \in registered'[e][j] \union {NULL}
                                \union (IF j \in missed[e] THEN {Zero} ELSE {})
      BY <1>0 DEF TypeOK
    <2> QED
      BY <2>1, <2>2, <2>3 DEF RegisterMr, TypeOK
  <1>2. \A e \in Endpoint, j \in Key : Described(e, j) \subseteq Described(e, j)'
    BY DEF RegisterMr, Described, TypeOK
  <1>3. OffersTrue'
    BY <1>2 DEF RegisterMr, OffersTrue
  <1>4. RemoteTrue'
    BY <1>2, NVLinkAssumption DEF RegisterMr, RemoteTrue
  <1> QED
    BY <1>1, <1>3, <1>4

LEMMA EndpointInfoPool ==
  ASSUME PoolInv, NEW d \in Endpoint, EndpointInfo(d)
  PROVE  PoolInv'
  <1> USE DEF PoolInv
  <1>1. mrs_[d] \in [Key -> nvlink_mr \union {NULL}]
    <2>1. \A k \in Key : mrs_[d][k] \in Described(d, k) \union {NULL}
      BY DEF TypeOK, Described
    <2> QED
      BY <2>1, RegionFacts DEF TypeOK
  <1>2. TypeOK'
    BY <1>1 DEF EndpointInfo, TypeOK, histVars
  <1>3. \A e \in Endpoint, j \in Key : Described(e, j)' = Described(e, j)
    BY DEF EndpointInfo, Described, histVars
  <1>4. OffersTrue'
    BY <1>3 DEF EndpointInfo, OffersTrue, TypeOK, Described
  <1>5. RemoteTrue'
    BY <1>3, NVLinkAssumption DEF EndpointInfo, RemoteTrue
  <1> QED
    BY <1>2, <1>4, <1>5

LEMMA ConnectPool ==
  ASSUME PoolInv, NEW d \in Endpoint, Connect(d)
  PROVE  PoolInv'
  <1> USE DEF PoolInv
  <1> PICK o \in offers[Peer[d]] :
        remote_mrs_' = [remote_mrs_ EXCEPT ![d] =
          [k \in Key |-> IF o[k] = NULL THEN @[k] ELSE Opened(o[k])]]
    BY DEF Connect
  <1>0. Peer[d] \in Endpoint
    BY NVLinkAssumption
  <1>1. \A k \in Key : o[k] # NULL =>
          o[k] \in Described(Peer[d], k) /\ Opened(o[k]) \in nvlink_mr
    BY <1>0, RegionFacts DEF OffersTrue
  <1>2. TypeOK'
    <2>1. remote_mrs_' \in [Endpoint -> [Key -> nvlink_mr \union {NULL}]]
      BY <1>1 DEF TypeOK
    <2> QED
      BY <2>1 DEF Connect, TypeOK, histVars
  <1>3. \A e \in Endpoint, j \in Key : Described(e, j)' = Described(e, j)
    BY DEF Connect, Described, histVars
  <1>4. OffersTrue'
    BY <1>3 DEF Connect, OffersTrue
  <1>5. RemoteTrue'
    <2> SUFFICES ASSUME NEW e \in Endpoint, NEW k \in Key, remote_mrs_'[e][k] # NULL
                 PROVE  remote_mrs_'[e][k] \in {Opened(mr) : mr \in Described(Peer[e], k)} \union {Zero}
      BY <1>3, NVLinkAssumption DEF RemoteTrue
    <2>1. CASE e = d /\ o[k] # NULL
      BY <1>1, <2>1 DEF TypeOK
    <2>2. CASE ~(e = d /\ o[k] # NULL)
      BY <2>2 DEF TypeOK, RemoteTrue
    <2> QED
      BY <2>1, <2>2
  <1> QED
    BY <1>2, <1>4, <1>5

(* What a read copies, if it copies.                                        *)
LEMMA ReadCopies ==
  ASSUME PoolInv, NEW d \in Endpoint, NEW k \in Key,
         NEW so \in Offset, NEW to \in Offset
  PROVE  LET source == Found(mrs_[d][k])
             target == Found(remote_mrs_[d][k])
         IN /\ source \in nvlink_mr /\ target \in nvlink_mr
            /\ At(source, so) \in [alloc : Alloc \union {None}, pos : Nat]
            /\ At(target, to) \in [alloc : Alloc \union {None, Wild}, pos : Nat]
            /\ source.alloc # None => source \in registered[d][k]
            /\ target.alloc # None =>
                 target \in {Opened(mr) : mr \in Described(Peer[d], k)}
  <1> DEFINE source == Found(mrs_[d][k])
             target == Found(remote_mrs_[d][k])
  <1>0. Offset \subseteq Nat /\ Peer[d] \in Endpoint
    BY NVLinkAssumption
  <1>1. source \in registered[d][k] \union {Zero}
    BY DEF PoolInv, TypeOK, Found
  <1>2. source \in AnyRegion \union {Zero} /\ source \in nvlink_mr
    BY <1>1, RegionFacts DEF PoolInv, AnyRegion, nvlink_mr
  <1>3. target \in {Opened(mr) : mr \in Described(Peer[d], k)} \union {Zero}
    BY DEF PoolInv, RemoteTrue, Found
  <1>4. target \in nvlink_mr
    BY <1>0, <1>3, RegionFacts DEF PoolInv
  <1>5. At(source, so) \in [alloc : Alloc \union {None}, pos : Nat]
    BY <1>0, <1>2 DEF At, AnyRegion, Zero
  <1>6. At(target, to) \in [alloc : Alloc \union {None, Wild}, pos : Nat]
    BY <1>0, <1>4 DEF At, nvlink_mr
  <1>7. Zero.alloc = None
    BY DEF Zero
  <1> QED
    BY <1>1, <1>2, <1>3, <1>4, <1>5, <1>6, <1>7

LEMMA ReadPool ==
  ASSUME PoolInv, NEW d \in Endpoint, NEW k \in Key,
         NEW so \in Offset, NEW to \in Offset, Read(d, k, so, to)
  PROVE  PoolInv'
  <1> USE DEF PoolInv
  <1> DEFINE source == Found(mrs_[d][k])
             target == Found(remote_mrs_[d][k])
             copy   == [key |-> k, dst |-> At(source, so), src |-> At(target, to),
                        source_offset |-> so, target_offset |-> to]
  <1>1. /\ mrs_' = [mrs_ EXCEPT ![d][k] = source]
        /\ remote_mrs_' = [remote_mrs_ EXCEPT ![d][k] = target]
        /\ missed' = IF mrs_[d][k] = NULL THEN [missed EXCEPT ![d] = @ \union {k}] ELSE missed
        /\ reads[d] < MaxReads /\ reads' = [reads EXCEPT ![d] = @ + 1]
        /\ UNCHANGED <<offers, phase, registered>>
    BY DEF Read
  <1>2. /\ source \in nvlink_mr /\ target \in nvlink_mr
        /\ At(source, so) \in [alloc : Alloc \union {None}, pos : Nat]
        /\ At(target, to) \in [alloc : Alloc \union {None, Wild}, pos : Nat]
        /\ At(source, so).alloc = source.alloc /\ At(target, to).alloc = target.alloc
    BY ReadCopies DEF At
  <1>3. \/ UNCHANGED stream
        \/ /\ None \notin {source.alloc, target.alloc}
           /\ stream' = [stream EXCEPT ![d] = Append(@, copy)]
    BY DEF Read
  <1>4. \A e \in Endpoint : missed[e] \subseteq missed'[e] /\ missed'[e] \subseteq Key
    BY <1>1 DEF TypeOK
  <1>5. \A e \in Endpoint, j \in Key : Described(e, j) \subseteq Described(e, j)'
    BY <1>1, <1>4 DEF Described
  <1>6. TypeOK'
    <2>1. {mrs_, remote_mrs_}' \subseteq [Endpoint -> [Key -> nvlink_mr \union {NULL}]]
      BY <1>1, <1>2 DEF TypeOK
    <2>2. \A e \in Endpoint, j \in Key :
            mrs_'[e][j] \in registered'[e][j] \union {NULL}
                               \union (IF j \in missed'[e] THEN {Zero} ELSE {})
      <3> SUFFICES ASSUME NEW e \in Endpoint, NEW j \in Key
                   PROVE  mrs_'[e][j] \in registered[e][j] \union {NULL}
                               \union (IF j \in missed'[e] THEN {Zero} ELSE {})
        BY <1>1
      <3>1. CASE e = d /\ j = k /\ mrs_[d][k] = NULL
        BY <1>1, <3>1 DEF TypeOK, Found
      <3>2. CASE e = d /\ j = k /\ mrs_[d][k] # NULL
        BY <1>1, <3>2 DEF TypeOK, Found
      <3>3. CASE ~(e = d /\ j = k)
        BY <1>1, <1>4, <3>3 DEF TypeOK
      <3> QED
        BY <3>1, <3>2, <3>3
    <2>3. stream' \in [Endpoint -> Seq(Transfer)]
      <3>1. CASE UNCHANGED stream
        BY <3>1 DEF TypeOK
      <3>2. CASE /\ None \notin {source.alloc, target.alloc}
                 /\ stream' = [stream EXCEPT ![d] = Append(@, copy)]
        <4>1. /\ At(source, so) \in [alloc : Alloc, pos : Nat]
              /\ At(target, to) \in [alloc : Alloc \union {Wild}, pos : Nat]
          BY <1>2, <3>2
        <4> HIDE DEF source, target
        <4>2. copy \in Transfer
          BY <4>1 DEF Transfer
        <4> HIDE DEF copy
        <4> QED
          BY <4>2, <3>2 DEF TypeOK
      <3> QED
        BY <1>3, <3>1, <3>2
    <2>4. reads' \in [Endpoint -> 0 .. MaxReads]
      BY <1>1, NVLinkAssumption DEF TypeOK
    <2>5. missed' \in [Endpoint -> SUBSET Key]
      BY <1>1 DEF TypeOK
    <2> QED
      BY <1>1, <2>1, <2>2, <2>3, <2>4, <2>5 DEF TypeOK
  <1>7. OffersTrue'
    BY <1>1, <1>5 DEF OffersTrue
  <1>8. RemoteTrue'
    <2> SUFFICES ASSUME NEW e \in Endpoint, NEW j \in Key, remote_mrs_'[e][j] # NULL
                 PROVE  remote_mrs_'[e][j] \in {Opened(mr) : mr \in Described(Peer[e], j)} \union {Zero}
      BY <1>5, NVLinkAssumption DEF RemoteTrue
    <2>1. CASE e = d /\ j = k
      BY <1>1, <2>1 DEF TypeOK, RemoteTrue, Found
    <2>2. CASE ~(e = d /\ j = k)
      BY <1>1, <2>2 DEF TypeOK, RemoteTrue
    <2> QED
      BY <2>1, <2>2
  <1> QED
    BY <1>6, <1>7, <1>8

LEMMA OtherPool ==
  ASSUME PoolInv, NEW d \in Endpoint, Copy(d) \/ Finish(d) \/ Leave(d)
  PROVE  PoolInv'
  <1> USE DEF PoolInv
  <1>1. UNCHANGED <<poolVars, histVars>>
    BY DEF Copy, Finish, Leave
  <1>2. OffersTrue' /\ RemoteTrue'
    BY <1>1, NVLinkAssumption DEF OffersTrue, RemoteTrue, Described, poolVars, histVars
  <1>3. phase' \in [Endpoint -> {"open", "finished", "left"}]
    BY DEF Copy, Finish, Leave, TypeOK
  <1>4. stream' \in [Endpoint -> Seq(Transfer)]
    <2>1. CASE Copy(d)
      <3>1. stream[d] \in Seq(Transfer) /\ stream[d] # <<>>
        BY <2>1 DEF Copy, TypeOK
      <3>2. Tail(stream[d]) \in Seq(Transfer)
        BY <3>1
      <3> QED
        BY <2>1, <3>2 DEF Copy, TypeOK
    <2>2. CASE Finish(d) \/ Leave(d)
      BY <2>2 DEF Finish, Leave, TypeOK
    <2> QED
      BY <2>1, <2>2
  <1>5. TypeOK'
    BY <1>1, <1>3, <1>4 DEF TypeOK, poolVars, histVars
  <1> QED
    BY <1>2, <1>5

LEMMA PoolStep == PoolInv /\ [Next]_vars => PoolInv'
  <1> SUFFICES ASSUME PoolInv, [Next]_vars PROVE PoolInv'
    OBVIOUS
  <1>1. CASE UNCHANGED vars
    BY <1>1, NVLinkAssumption
    DEF PoolInv, TypeOK, OffersTrue, RemoteTrue, Described, vars, poolVars, histVars
  <1>2. CASE Next
    BY <1>2, RegisterMrPool, ReadPool, EndpointInfoPool, ConnectPool, OtherPool DEF Next
  <1> QED
    BY <1>1, <1>2

LEMMA PoolInvariance == Spec => []PoolInv
  BY PoolInit, PoolStep, PTL DEF Spec

(* Types, for any keys, regions and bounds; registered regions are where    *)
(* the entries of a pool come from, except for the zero region that a read  *)
(* of an unknown key leaves (nvlink/memory_pool.h:31-46).                   *)
THEOREM NVLinkTypes == Spec => []TypeOK
  BY PoolInvariance, PTL DEF PoolInv

(* However often both ends register, describe and connect, with old         *)
(* descriptions or new ones: a wild remote region comes from a peer that    *)
(* read the key before it had registered it.                                *)
THEOREM WildRegionsComeFromMisses == Spec => []WildOnlyAfterMiss
  <1>1. PoolInv => WildOnlyAfterMiss
    <2> SUFFICES ASSUME PoolInv, NEW e \in Endpoint, NEW k \in Key,
                        remote_mrs_[e][k] # NULL, remote_mrs_[e][k].alloc = Wild
                 PROVE  k \in missed[Peer[e]]
      BY DEF WildOnlyAfterMiss
    <2>0. Peer[e] \in Endpoint /\ None # Wild
      BY NVLinkAssumption
    <2>1. remote_mrs_[e][k] # Zero
      BY <2>0 DEF Zero
    <2>2. PICK mr \in Described(Peer[e], k) : remote_mrs_[e][k] = Opened(mr)
      BY <2>1 DEF PoolInv, RemoteTrue
    <2>3. mr \in nvlink_mr
      BY <2>0, RegionFacts DEF PoolInv
    <2>4. mr.alloc \in {None, Wild}
      BY <2>2, <2>3 DEF Opened, nvlink_mr
    <2> QED
      BY <2>0, <2>4, RegionFacts DEF PoolInv
  <1> QED
    BY <1>1, PoolInvariance, PTL

-----------------------------------------------------------------------------
(* Where copies go.                                                         *)

LEMMA OpenedAtStart ==
  ASSUME NEW mr \in AnyRegion, mr.pos = 0
  PROVE  Opened(mr) = mr
  BY NVLinkAssumption DEF Opened, AnyRegion

(* What the property asks of a copy of e, given what was registered and     *)
(* missed.                                                                  *)
Right(reg, miss, e, c) ==
  /\ \E r \in reg[e][c.key] : c.dst = At(r, c.source_offset)
  /\ c.key \notin miss[Peer[e]] /\ (\A r \in reg[Peer[e]][c.key] : r.pos = 0) =>
       \E r \in reg[Peer[e]][c.key] : c.src = At(r, c.target_offset)

CopiesRight ==
  \A e \in Endpoint : \A i \in DOMAIN stream[e] :
    Right(registered, missed, e, stream[e][i])

(* What has been registered or missed stays so.                             *)
LEMMA HistoryGrows ==
  ASSUME PoolInv, Next, NEW e \in Endpoint, NEW k \in Key
  PROVE  /\ registered[e][k] \subseteq registered'[e][k]
         /\ missed[e] \subseteq missed'[e]
  <1> USE DEF PoolInv, TypeOK
  <1>1. ASSUME NEW d \in Endpoint, NEW j \in Key, RegisterMr(d, j)
        PROVE  registered[e][k] \subseteq registered'[e][k] /\ missed[e] \subseteq missed'[e]
    BY <1>1 DEF RegisterMr
  <1>2. ASSUME NEW d \in Endpoint, NEW j \in Key, NEW so \in Offset, NEW to \in Offset,
               Read(d, j, so, to)
        PROVE  registered[e][k] \subseteq registered'[e][k] /\ missed[e] \subseteq missed'[e]
    BY <1>2 DEF Read
  <1>3. ASSUME NEW d \in Endpoint,
               EndpointInfo(d) \/ Connect(d) \/ Copy(d) \/ Finish(d) \/ Leave(d)
        PROVE  registered[e][k] \subseteq registered'[e][k] /\ missed[e] \subseteq missed'[e]
    BY <1>3 DEF EndpointInfo, Connect, Copy, Finish, Leave, histVars
  <1> QED
    BY <1>1, <1>2, <1>3 DEF Next

(* Adding registrations keeps a copy right that was right before.           *)
LEMMA RightKept ==
  ASSUME PoolInv, Next, NEW e \in Endpoint, NEW c \in Transfer, Right(registered, missed, e, c),
         registered' = registered
  PROVE  Right(registered', missed', e, c)
  <1>1. Peer[e] \in Endpoint /\ c.key \in Key
    BY NVLinkAssumption DEF Transfer
  <1>2. missed[Peer[e]] \subseteq missed'[Peer[e]]
    BY <1>1, HistoryGrows
  <1> QED
    BY <1>2 DEF Right, ByStart

LEMMA NewCopyRight ==
  ASSUME PoolInv, NEW d \in Endpoint, NEW k \in Key, NEW so \in Offset, NEW to \in Offset,
         None \notin {Found(mrs_[d][k]).alloc, Found(remote_mrs_[d][k]).alloc}
  PROVE  Right(registered, missed, d, [key |-> k, dst |-> At(Found(mrs_[d][k]), so),
                   src |-> At(Found(remote_mrs_[d][k]), to),
                   source_offset |-> so, target_offset |-> to])
  <1> DEFINE source == Found(mrs_[d][k])
             target == Found(remote_mrs_[d][k])
  <1>0. Peer[d] \in Endpoint
    BY NVLinkAssumption
  <1>1. source \in registered[d][k] /\ target \in {Opened(mr) : mr \in Described(Peer[d], k)}
    BY ReadCopies
  <1>2. ASSUME k \notin missed[Peer[d]], ByStart(Peer[d], k)
        PROVE  target \in registered[Peer[d]][k]
    <2>1. PICK mr \in registered[Peer[d]][k] : target = Opened(mr)
      BY <1>1, <1>2 DEF Described
    <2>2. mr \in AnyRegion /\ mr.pos = 0
      BY <1>0, <1>2, RegionFacts DEF ByStart, PoolInv
    <2> QED
      BY <2>1, <2>2, OpenedAtStart
  <1> DEFINE copy == [key |-> k, dst |-> At(source, so), src |-> At(target, to),
                      source_offset |-> so, target_offset |-> to]
  <1> HIDE DEF source, target
  <1>3. /\ copy.key = k /\ copy.dst = At(source, so) /\ copy.src = At(target, to)
        /\ copy.source_offset = so /\ copy.target_offset = to
    OBVIOUS
  <1> HIDE DEF copy
  <1>4. Right(registered, missed, d, copy)
    BY <1>1, <1>2, <1>3 DEF Right, ByStart
  <1> QED
    BY <1>4 DEF copy, source, target

LEMMA CopiesStep == PoolInv /\ CopiesRight /\ [Next]_vars => CopiesRight'
  <1> SUFFICES ASSUME PoolInv, CopiesRight, [Next]_vars
               PROVE  \A e \in Endpoint : \A i \in DOMAIN stream'[e] :
                        Right(registered', missed', e, stream'[e][i])
    BY DEF CopiesRight
  <1> TAKE e \in Endpoint
  <1> TAKE i \in DOMAIN stream'[e]
  <1>0. stream[e] \in Seq(Transfer) /\ Peer[e] \in Endpoint
    BY NVLinkAssumption DEF PoolInv, TypeOK
  <1>1. \A j \in DOMAIN stream[e] : stream[e][j] \in Transfer /\ Right(registered, missed, e, stream[e][j])
    BY <1>0 DEF CopiesRight
  <1>2. CASE UNCHANGED vars
    BY <1>1, <1>2 DEF vars, histVars, Right, ByStart
  <1>3. ASSUME NEW d \in Endpoint, NEW k \in Key, RegisterMr(d, k)
        PROVE  Right(registered', missed', e, stream'[e][i])
    <2>1. stream' = stream /\ missed' = missed
      BY <1>3 DEF RegisterMr
    <2>2. Next
      BY <1>3 DEF Next
    <2>3. stream[e][i] \in Transfer /\ Right(registered, missed, e, stream[e][i])
      BY <1>1, <2>1
    <2>4. stream[e][i].key \in Key
      BY <2>3 DEF Transfer
    <2>5. /\ registered[e][stream[e][i].key] \subseteq registered'[e][stream[e][i].key]
          /\ registered[Peer[e]][stream[e][i].key] \subseteq registered'[Peer[e]][stream[e][i].key]
      BY <1>0, <2>2, <2>4, HistoryGrows
    <2> QED
      BY <2>1, <2>3, <2>5 DEF Right, ByStart
  <1>4. ASSUME NEW d \in Endpoint, NEW k \in Key, NEW so \in Offset, NEW to \in Offset,
               Read(d, k, so, to)
        PROVE  Right(registered', missed', e, stream'[e][i])
    <2> DEFINE copy == [key |-> k, dst |-> At(Found(mrs_[d][k]), so),
                        src |-> At(Found(remote_mrs_[d][k]), to),
                        source_offset |-> so, target_offset |-> to]
    <2>1. registered' = registered /\ Next
      BY <1>4 DEF Read, Next
    <2>2. \A j \in DOMAIN stream[e] : Right(registered', missed', e, stream[e][j])
      BY <1>1, <2>1, RightKept
    <2>3. CASE UNCHANGED stream
      BY <2>2, <2>3
    <2>4. CASE /\ None \notin {Found(mrs_[d][k]).alloc, Found(remote_mrs_[d][k]).alloc}
               /\ stream' = [stream EXCEPT ![d] = Append(@, copy)]
      <3>1. Right(registered, missed, d, copy)
        BY <2>4, NewCopyRight
      <3>2. copy \in Transfer
        <4>1. stream' \in [Endpoint -> Seq(Transfer)] /\ stream[d] \in Seq(Transfer)
          BY <1>4, ReadPool DEF PoolInv, TypeOK
        <4> HIDE DEF copy
        <4>2. stream'[d] = Append(stream[d], copy)
          BY <2>4 DEF PoolInv, TypeOK
        <4>3. stream'[d][Len(stream[d]) + 1] = copy /\ Len(stream[d]) + 1 \in DOMAIN stream'[d]
          BY <4>1, <4>2
        <4> QED
          BY <4>1, <4>3
      <3>3. Right(registered', missed', d, copy)
        BY <2>1, <3>1, <3>2, RightKept
      <3> HIDE DEF copy
      <3>4. \/ i \in DOMAIN stream[e] /\ stream'[e][i] = stream[e][i]
            \/ e = d /\ stream'[e][i] = copy
        BY <1>0, <2>4 DEF PoolInv, TypeOK
      <3> QED
        BY <2>2, <3>3, <3>4
    <2> QED
      BY <1>4, <2>3, <2>4 DEF Read
  <1>5. ASSUME NEW d \in Endpoint,
               EndpointInfo(d) \/ Connect(d) \/ Copy(d) \/ Finish(d) \/ Leave(d)
        PROVE  Right(registered', missed', e, stream'[e][i])
    <2>1. UNCHANGED <<registered, missed>>
      BY <1>5 DEF EndpointInfo, Connect, Copy, Finish, Leave, histVars
    <2>2. CASE UNCHANGED stream
      BY <1>1, <2>1, <2>2 DEF Right, ByStart
    <2>3. CASE Copy(d)
      <3>1. stream[d] \in Seq(Transfer) /\ stream[d] # <<>>
        BY <2>3 DEF Copy, PoolInv, TypeOK
      <3>2. \E j \in DOMAIN stream[e] : stream'[e][i] = stream[e][j]
        <4>1. CASE e = d
          <5>1. stream'[d] = Tail(stream[d])
            BY <2>3 DEF Copy, PoolInv, TypeOK
          <5>2. i + 1 \in DOMAIN stream[d] /\ stream'[d][i] = stream[d][i + 1]
            BY <3>1, <4>1, <5>1
          <5> QED
            BY <4>1, <5>2
        <4>2. CASE e # d
          BY <2>3, <4>2 DEF Copy, PoolInv, TypeOK
        <4> QED
          BY <4>1, <4>2
      <3> QED
        BY <1>1, <2>1, <3>2 DEF Right, ByStart
    <2> QED
      BY <1>5, <2>2, <2>3 DEF EndpointInfo, Connect, Finish, Leave
  <1> QED
    BY <1>2, <1>3, <1>4, <1>5 DEF Next

(* Every copy runs between the regions its key names at the two ends, at    *)
(* the offsets asked for, under the two conditions the property states.     *)
THEOREM CopiesStayWithinRegions == Spec => []CopiesWithinRegions
  <1>1. Init => CopiesRight
    BY DEF Init, CopiesRight
  <1>2. CopiesRight => CopiesWithinRegions
    BY DEF CopiesRight, CopiesWithinRegions, Right, ByStart
  <1> QED
    BY <1>1, <1>2, CopiesStep, PoolInvariance, PTL DEF Spec

-----------------------------------------------------------------------------
(* How the processes end.                                                   *)

LEMMA EndStep == TypeOK /\ EndInv /\ [Next]_vars => EndInv'
  <1> SUFFICES ASSUME TypeOK, EndInv, [Next]_vars PROVE EndInv'
    OBVIOUS
  <1> USE NVLinkAssumption DEF TypeOK, EndInv
  <1>1. CASE UNCHANGED vars
    BY <1>1 DEF vars
  <1>2. ASSUME NEW d \in Endpoint, NEW k \in Key, RegisterMr(d, k)
        PROVE  EndInv'
    BY <1>2 DEF RegisterMr
  <1>3. ASSUME NEW d \in Endpoint, NEW k \in Key, NEW so \in Offset, NEW to \in Offset,
               Read(d, k, so, to)
        PROVE  EndInv'
    BY <1>3 DEF Read
  <1>4. ASSUME NEW d \in Endpoint, EndpointInfo(d) \/ Connect(d)
        PROVE  EndInv'
    BY <1>4 DEF EndpointInfo, Connect
  <1>5. ASSUME NEW d \in Endpoint, Copy(d)
        PROVE  EndInv'
    BY <1>5 DEF Copy
  <1>6. ASSUME NEW d \in Endpoint, Finish(d) \/ Leave(d)
        PROVE  EndInv'
    BY <1>6 DEF Finish, Leave
  <1> QED
    BY <1>1, <1>2, <1>3, <1>4, <1>5, <1>6 DEF Next

(* No end takes its memory away while the other copies from it.             *)
THEOREM SourcesOutliveCopies == Spec => []SourceOutlivesCopies
  <1>1. Init => EndInv
    BY NVLinkAssumption DEF Init, EndInv
  <1>2. EndInv => SourceOutlivesCopies
    BY NVLinkAssumption DEF EndInv, SourceOutlivesCopies
  <1> QED
    BY <1>1, <1>2, EndStep, NVLinkTypes, PTL DEF Spec
=============================================================================
