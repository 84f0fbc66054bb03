------------------------- MODULE RDMAConnectionProofs -------------------------
(***************************************************************************)
(* Proofs about RDMAConnection: its types and its safety properties, for    *)
(* any number of endpoints, queue pairs, keys and reads and any faults.     *)
(***************************************************************************)
EXTENDS RDMAConnection, TLAPS

Given == {"RTR", "RTS", "ERR"}

(* Descriptions are given away by initialized contexts only, and they stay  *)
(* true; whoever was given one knows the peer's queue pairs for good.       *)
OffersTrue ==
  \A e \in Endpoint : \A o \in offers[e] :
    initialized_[e] /\ o.rdma = local_rdma_info_[e]

GivenTrue ==
  \A e \in Endpoint : conn[e].pc # "idle" =>
    initialized_[e] /\ initialized_[Peer[e]] /\ given[e] = local_rdma_info_[Peer[e]]

BothInitialized ==
  /\ \A e \in Endpoint, q \in QPI :
       qp[e][q] \in Given => initialized_[e] /\ initialized_[Peer[e]]
  /\ \A e \in Endpoint : connected_[e] => initialized_[e]

PairedInv == OffersTrue /\ GivenTrue /\ BothInitialized /\ Paired

(* The types of what the steps of init and connect build.                   *)
LEMMA DescribeType ==
  ASSUME NEW e \in Endpoint, NEW q \in QPI, NEW n \in Nat, NEW psn \in Psn
  PROVE  Describe(e, q, n, psn) \in Info
<1>1. PortAddr(e) \in Addr /\ <<e, 1>> \in Addr
  BY ConnectionAssumption DEF PortAddr, Addr
<1>2. <<e, q, n>> \in Qpn
  BY DEF Qpn
<1> QED
  BY <1>1, <1>2 DEF Describe, Info

LEMMA UnsetType ==
  ASSUME NEW e \in Endpoint
  PROVE  Unset(e) \in [QPI -> Info] /\ NoPath(e) \in [QPI -> Path]
<1>1. AnyPsn \in Psn
  BY ConnectionAssumption DEF AnyPsn
<1>2. \A q \in QPI : Describe(e, q, 0, AnyPsn) \in Info
  BY <1>1, DescribeType
<1>3. \A q \in QPI : <<e, q, 0>> \in Qpn /\ <<e, 1>> \in Addr
  BY DEF Qpn, Addr
<1> QED
  BY <1>1, <1>2, <1>3 DEF Unset, NoPath, Path

LEMMA NewPathType ==
  ASSUME NEW e \in Endpoint, NEW q \in QPI,
         path[e][q] \in Path, given[e][q] \in Info, local_rdma_info_[e][q] \in Info
  PROVE  NewPath(e, q) \in Path
  BY DEF NewPath, Path, Info, Destination

LEMMA QpiFacts == 0 \in QPI /\ QPI \subseteq Nat
  BY ConnectionAssumption DEF QPI

-----------------------------------------------------------------------------
(* Type correctness.                                                        *)

LEMMA TypeInit == Init => TypeOK
  <1> SUFFICES ASSUME Init PROVE TypeOK
    OBVIOUS
  <1>1. \A e \in Endpoint : Unset(e) \in [QPI -> Info] /\ NoPath(e) \in [QPI -> Path]
    BY UnsetType
  <1>2. Peer \in [Endpoint -> Endpoint] /\ MaxInit \in Nat /\ MaxMr \in Nat
    BY ConnectionAssumption
  <1>3. NoMr \in Mrs
    BY <1>2 DEF NoMr, Mrs
  <1>4. ContextTypeOK
    BY <1>1, <1>2, QpiFacts DEF Init, ContextTypeOK
  <1>5. InfoTypeOK
    BY <1>1, <1>2 DEF Init, InfoTypeOK
  <1>6. MemoryTypeOK
    BY <1>3 DEF Init, MemoryTypeOK
  <1>7. TrafficTypeOK
    BY <1>1, <1>2, QpiFacts DEF Init, TrafficTypeOK, ReadState, QpState
  <1> QED
    BY <1>4, <1>5, <1>6, <1>7 DEF TypeOK

LEMMA NewQueuePairsType ==
  ASSUME TypeOK, NEW e \in Endpoint, NEW created \in SUBSET QPI, NewQueuePairs(e, created)
  PROVE  /\ inits' \in [Endpoint -> 0 .. MaxInit]
         /\ local_rdma_info_' \in [Endpoint -> [QPI -> Info]]
         /\ qp' \in [Endpoint -> [QPI -> QpState]]
         /\ mrs_' \in [Endpoint -> Mrs] /\ remote_mrs_' \in [Endpoint -> Mrs]
  <1>1. inits[e] + 1 \in Nat /\ inits' \in [Endpoint -> 0 .. MaxInit]
    BY ConnectionAssumption DEF TypeOK, InfoTypeOK, NewQueuePairs
  <1>2. local_rdma_info_' \in [Endpoint -> [QPI -> Info]]
    <2>1. PICK psn \in [QPI -> Psn] :
            local_rdma_info_' = [local_rdma_info_ EXCEPT ![e] =
              [q \in QPI |-> IF q \in created THEN Describe(e, q, inits[e] + 1, psn[q]) ELSE @[q]]]
      BY DEF NewQueuePairs
    <2>2. \A q \in QPI : Describe(e, q, inits[e] + 1, psn[q]) \in Info
      BY <1>1, DescribeType
    <2> QED
      BY <2>1, <2>2 DEF TypeOK, InfoTypeOK
  <1>3. qp' \in [Endpoint -> [QPI -> QpState]]
    <2>1. PICK state \in [QPI -> IF "modify" \in Faults THEN {"RESET", "INIT"} ELSE {"INIT"}] :
            qp' = [qp EXCEPT ![e] = [q \in QPI |-> IF q \in created THEN state[q] ELSE @[q]]]
      BY DEF NewQueuePairs
    <2>2. \A q \in QPI : state[q] \in QpState
      BY DEF QpState
    <2> QED
      BY <2>1, <2>2 DEF TypeOK, TrafficTypeOK
  <1>4. mrs_' \in [Endpoint -> Mrs] /\ remote_mrs_' \in [Endpoint -> Mrs]
    <2>1. NoMr \in Mrs
      BY ConnectionAssumption DEF NoMr, Mrs
    <2> QED
      BY <2>1 DEF TypeOK, MemoryTypeOK, NewQueuePairs
  <1> QED
    BY <1>1, <1>2, <1>3, <1>4

LEMMA DieType ==
  ASSUME TypeOK, NEW e \in Endpoint, Die(e)
  PROVE  TypeOK'
  <1>1. ContextTypeOK'
    BY QpiFacts DEF TypeOK, ContextTypeOK, Die
  <1>2. InfoTypeOK' /\ MemoryTypeOK'
    BY DEF TypeOK, InfoTypeOK, MemoryTypeOK, Die, infoVars, memoryVars
  <1>3. TrafficTypeOK'
    BY DEF TypeOK, TrafficTypeOK, Die, ReadState, QpState
  <1> QED
    BY <1>1, <1>2, <1>3 DEF TypeOK

LEMMA SetupType ==
  ASSUME TypeOK, NEW e \in Endpoint, Setup(e)
  PROVE  TypeOK'
  <1> USE DEF TypeOK
  <1>1. CASE InitContext(e)
    <2>1. NewQueuePairs(e, QPI)
      BY <1>1 DEF InitContext
    <2>2. ContextTypeOK'
      BY <1>1 DEF InitContext, ContextTypeOK
    <2> QED
      BY <1>1, <2>1, <2>2, NewQueuePairsType
      DEF InitContext, InfoTypeOK, MemoryTypeOK, TrafficTypeOK
  <1>2. CASE InitFails(e)
    <2>1. PICK q \in QPI : NewQueuePairs(e, 0 .. (q - 1))
      BY <1>2 DEF InitFails
    <2>2. 0 .. (q - 1) \subseteq QPI
      BY ConnectionAssumption DEF QPI
    <2> QED
      BY <1>2, <2>1, <2>2, NewQueuePairsType
      DEF InitFails, contextVars, ContextTypeOK, InfoTypeOK, MemoryTypeOK, TrafficTypeOK
  <1>3. CASE EndpointInfo(e)
    <2>1. [rdma |-> local_rdma_info_[e], mrs |-> mrs_[e]] \in Offer
      BY DEF InfoTypeOK, MemoryTypeOK, Offer
    <2> QED
      BY <1>3, <2>1 DEF EndpointInfo, contextVars, memoryVars,
        ContextTypeOK, InfoTypeOK, MemoryTypeOK, TrafficTypeOK
  <1>4. ASSUME NEW k \in Key, RegisterMr(e, k)
        PROVE  TypeOK'
    <2>1. mrs_[e][k] + 1 \in 1 .. MaxMr
      BY <1>4, ConnectionAssumption DEF RegisterMr, MemoryTypeOK, Mrs
    <2>2. MemoryTypeOK'
      <3>1. mrs_' \in [Endpoint -> Mrs]
        BY <1>4, <2>1 DEF RegisterMr, MemoryTypeOK, Mrs
      <3>2. regions' \in [Endpoint -> SUBSET (Key \X (1 .. MaxMr))]
        BY <1>4, <2>1 DEF RegisterMr, MemoryTypeOK
      <3> QED
        BY <1>4, <3>1, <3>2 DEF RegisterMr, MemoryTypeOK
    <2> QED
      BY <1>4, <2>2 DEF RegisterMr, contextVars, infoVars, ContextTypeOK, InfoTypeOK, TrafficTypeOK
  <1>5. ASSUME NEW k \in Key, RegisterRemoteMr(e, k)
        PROVE  TypeOK'
    <2>1. PICK o \in offers[Peer[e]] : remote_mrs_' = [remote_mrs_ EXCEPT ![e][k] = o.mrs[k]]
      BY <1>5 DEF RegisterRemoteMr
    <2>2. o \in Offer
      BY ConnectionAssumption DEF InfoTypeOK
    <2>3. MemoryTypeOK'
      BY <1>5, <2>1, <2>2 DEF RegisterRemoteMr, MemoryTypeOK, Mrs, Offer
    <2> QED
      BY <1>5, <2>3 DEF RegisterRemoteMr, contextVars, infoVars, ContextTypeOK, InfoTypeOK, TrafficTypeOK
  <1>6. CASE ConnectBegin(e)
    <2>1. PICK o \in offers[Peer[e]] :
            /\ remote_mrs_' = [remote_mrs_ EXCEPT ![e] =
                 [k \in Key |-> IF o.mrs[k] # 0 THEN o.mrs[k] ELSE @[k]]]
            /\ given' = [given EXCEPT ![e] = o.rdma]
      BY <1>6 DEF ConnectBegin
    <2>2. o.mrs \in Mrs /\ o.rdma \in [QPI -> Info]
      BY ConnectionAssumption DEF InfoTypeOK, Offer
    <2>3. remote_mrs_' \in [Endpoint -> Mrs]
      BY <2>1, <2>2 DEF MemoryTypeOK, Mrs
    <2>4. ContextTypeOK'
      BY <1>6, <2>1, <2>2, QpiFacts DEF ConnectBegin, ContextTypeOK
    <2> QED
      BY <1>6, <2>3, <2>4 DEF ConnectBegin, infoVars, InfoTypeOK, MemoryTypeOK, TrafficTypeOK
  <1>7. CASE ConnectAgain(e) \/ Crash(e)
    BY <1>7, DieType DEF ConnectAgain, Crash
  <1> QED
    BY <1>1, <1>2, <1>3, <1>4, <1>5, <1>6, <1>7 DEF Setup

LEMMA ReturnType ==
  ASSUME ContextTypeOK, NEW e \in Endpoint, Return(e)
  PROVE  conn' \in [Endpoint -> [pc : {"idle", "rtr", "rts", "returned"}, qpi : QPI]]
  BY DEF ContextTypeOK, Return

LEMMA ConnectStepType ==
  ASSUME TypeOK, NEW e \in Endpoint, ConnectStep(e)
  PROVE  TypeOK'
  <1> USE DEF TypeOK
  <1> DEFINE q == conn[e].qpi
  <1>1. q \in QPI
    BY DEF ContextTypeOK
  <1>2. CASE ConnectRtr(e)
    <2>1. CASE /\ qp' = [qp EXCEPT ![e][q] = "RTR"]
               /\ path' = [path EXCEPT ![e][q] = NewPath(e, q)]
               /\ conn' = [conn EXCEPT ![e].pc = "rts"]
      <3>1. path[e][q] \in Path /\ given[e][q] \in Info /\ local_rdma_info_[e][q] \in Info
        BY <1>1 DEF TrafficTypeOK, ContextTypeOK, InfoTypeOK
      <3>2. NewPath(e, q) \in Path
        BY <1>1, <3>1, NewPathType
      <3>3. path' \in [Endpoint -> [QPI -> Path]]
        BY <2>1, <3>2 DEF TrafficTypeOK
      <3>4. qp' \in [Endpoint -> [QPI -> QpState]]
        BY <2>1 DEF TrafficTypeOK, QpState
      <3>5. ContextTypeOK'
        BY <1>2, <2>1 DEF ConnectRtr, ContextTypeOK
      <3> QED
        BY <1>2, <3>3, <3>4, <3>5 DEF ConnectRtr, infoVars, memoryVars,
          InfoTypeOK, MemoryTypeOK, TrafficTypeOK
    <2>2. CASE Return(e) /\ UNCHANGED <<qp, path>>
      BY <1>2, <2>2, ReturnType DEF ConnectRtr, infoVars, memoryVars,
        ContextTypeOK, InfoTypeOK, MemoryTypeOK, TrafficTypeOK
    <2> QED
      BY <1>2, <2>1, <2>2 DEF ConnectRtr
  <1>3. CASE ConnectRts(e)
    <2>1. CASE /\ qp' = [qp EXCEPT ![e][q] = "RTS"]
               /\ path' = [path EXCEPT ![e][q].sq_psn = local_rdma_info_[e][q].psn]
               /\ connected_' = [connected_ EXCEPT ![e] = TRUE]
               /\ NextQueuePair(e, q) \/ Return(e)
      <3>1. local_rdma_info_[e][q].psn \in Psn
        BY <1>1 DEF InfoTypeOK, Info
      <3>2. path[e][q] \in Path /\ path' = [path EXCEPT ![e][q] = [@ EXCEPT !.sq_psn = local_rdma_info_[e][q].psn]]
        BY <1>1, <2>1 DEF TrafficTypeOK
      <3>3. [path[e][q] EXCEPT !.sq_psn = local_rdma_info_[e][q].psn] \in Path
        BY <3>1, <3>2 DEF Path
      <3>4. path' \in [Endpoint -> [QPI -> Path]]
        BY <1>1, <3>2, <3>3 DEF TrafficTypeOK
      <3>5. qp' \in [Endpoint -> [QPI -> QpState]]
        BY <2>1 DEF TrafficTypeOK, QpState
      <3>6. conn' \in [Endpoint -> [pc : {"idle", "rtr", "rts", "returned"}, qpi : QPI]]
        <4>1. conn \in [Endpoint -> [pc : {"idle", "rtr", "rts", "returned"}, qpi : QPI]]
          BY DEF ContextTypeOK
        <4>2. CASE Return(e)
          BY <4>2, ReturnType
        <4>3. CASE q + 1 \in QPI /\ conn' = [conn EXCEPT ![e] = [pc |-> "rtr", qpi |-> q + 1]]
          BY <4>1, <4>3
        <4> QED
          BY <2>1, <4>2, <4>3 DEF NextQueuePair
      <3>7. ContextTypeOK'
        BY <1>3, <2>1, <3>6 DEF ConnectRts, ContextTypeOK
      <3>8. UNCHANGED <<infoVars, memoryVars, read>>
        BY <1>3 DEF ConnectRts
      <3>9. InfoTypeOK' /\ MemoryTypeOK'
        BY <3>8 DEF infoVars, memoryVars, InfoTypeOK, MemoryTypeOK
      <3>10. TrafficTypeOK'
        BY <3>4, <3>5, <3>8 DEF TrafficTypeOK
      <3> QED
        BY <3>7, <3>9, <3>10
    <2>2. CASE Return(e) /\ UNCHANGED <<qp, path, connected_>>
      BY <1>3, <2>2, ReturnType DEF ConnectRts, infoVars, memoryVars,
        ContextTypeOK, InfoTypeOK, MemoryTypeOK, TrafficTypeOK
    <2> QED
      BY <1>3, <2>1, <2>2 DEF ConnectRts
  <1>4. CASE Launch(e)
    BY <1>4, QpiFacts DEF Launch, infoVars, memoryVars,
      ContextTypeOK, InfoTypeOK, MemoryTypeOK, TrafficTypeOK
  <1> QED
    BY <1>2, <1>3, <1>4 DEF ConnectStep

Reads == [Read -> [st : ReadState, qpi : QPI, region : 0 .. MaxMr]]

LEMMA ReadUpdate ==
  ASSUME NEW f \in Reads, NEW r \in Read, NEW s \in ReadState,
         NEW q \in QPI, NEW m \in 0 .. MaxMr
  PROVE  /\ [f EXCEPT ![r].st = s] \in Reads
         /\ [f EXCEPT ![r].st = s, ![r].qpi = q] \in Reads
         /\ [f EXCEPT ![r].st = s, ![r].region = m] \in Reads
  <1> DEFINE R == [st : ReadState, qpi : QPI, region : 0 .. MaxMr]
  <1>1. f[r] \in R
    BY DEF Reads
  <1>2. /\ [f[r] EXCEPT !.st = s] \in R
        /\ [[f[r] EXCEPT !.st = s] EXCEPT !.qpi = q] \in R
        /\ [[f[r] EXCEPT !.st = s] EXCEPT !.region = m] \in R
    BY <1>1
  <1> QED
    BY <1>2 DEF Reads

LEMMA QpUpdate ==
  ASSUME NEW f \in [Endpoint -> [QPI -> QpState]], NEW e \in Endpoint, NEW q \in QPI
  PROVE  [f EXCEPT ![e][q] = "ERR"] \in [Endpoint -> [QPI -> QpState]]
  BY DEF QpState

LEMMA ReadType ==
  ASSUME TypeOK, NEW r \in Read, Submit(r) \/ Dispatch(r) \/ Device(r)
  PROVE  TypeOK'
  <1> USE DEF TypeOK
  <1>1. At[r] \in Endpoint /\ KeyOf[r] \in Key
    BY ConnectionAssumption
  <1>2. CASE PostUnknown(r)
    BY <1>1, <1>2, DieType DEF PostUnknown
  <1>3. ASSUME TrafficTypeOK', UNCHANGED <<contextVars, infoVars, memoryVars>>
        PROVE  TypeOK'
    BY <1>3 DEF contextVars, infoVars, memoryVars, ContextTypeOK, InfoTypeOK, MemoryTypeOK
  <1> DEFINE e == At[r]
             q == read[r].qpi
             Qps == [Endpoint -> [QPI -> QpState]]
  <1>0. read \in Reads /\ qp \in Qps /\ q \in QPI /\ 0 \in 0 .. MaxMr
    BY ConnectionAssumption DEF TrafficTypeOK, Reads
  <1> HIDE DEF Qps
  <1>3a. ASSUME read' \in Reads, qp' \in Qps, UNCHANGED <<contextVars, infoVars, memoryVars, path>>
         PROVE  TypeOK'
    BY <1>3, <1>3a DEF TrafficTypeOK, Reads, Qps
  <1>4. CASE Submit(r)
    <2>1. PICK i \in QPI : read' = [read EXCEPT ![r].st = "queued", ![r].qpi = i]
      BY <1>4 DEF Submit
    <2>2. read' \in Reads
      BY <1>0, <2>1, ReadUpdate DEF ReadState
    <2> QED
      BY <1>0, <1>3a, <1>4, <2>2 DEF Submit
  <1>5. CASE Post(r)
    <2>1. remote_mrs_[e][KeyOf[r]] \in 0 .. MaxMr
      BY <1>1 DEF MemoryTypeOK, Mrs
    <2>2. PICK s \in {"posted", "lost"} :
            read' = [read EXCEPT ![r].st = s, ![r].region = remote_mrs_[e][KeyOf[r]]]
      BY <1>5 DEF Post
    <2>3. read' \in Reads
      BY <1>0, <2>1, <2>2, ReadUpdate DEF ReadState
    <2> QED
      BY <1>0, <1>3a, <1>5, <2>3 DEF Post
  <1>6. ASSUME NEW s \in {"done", "failed"}, read' = [read EXCEPT ![r].st = s]
        PROVE  read' \in Reads
    BY <1>0, <1>6, ReadUpdate DEF ReadState
  <1>7. CASE Answer(r)
    <2>1. PICK t \in Opposite(e, q) :
            \/ read' = [read EXCEPT ![r].st = "done"] /\ UNCHANGED qp
            \/ /\ read' = [read EXCEPT ![r].st = "failed"]
               /\ qp' = [qp EXCEPT ![t[1]][t[2]] = "ERR", ![e][q] = "ERR"]
      BY <1>7 DEF Answer
    <2>2. read' \in Reads
      BY <1>6, <2>1
    <2>3. t[1] \in Endpoint /\ t[2] \in QPI
      BY DEF Opposite
    <2>4. CASE qp' = [qp EXCEPT ![t[1]][t[2]] = "ERR", ![e][q] = "ERR"]
      <3>1. [qp EXCEPT ![t[1]][t[2]] = "ERR"] \in Qps
        BY <1>0, <2>3, QpUpdate DEF Qps
      <3>2. qp' = [[qp EXCEPT ![t[1]][t[2]] = "ERR"] EXCEPT ![e][q] = "ERR"]
        BY <2>4
      <3>3. qp' \in Qps
        BY <1>0, <1>1, <3>1, <3>2, QpUpdate DEF Qps
      <3> QED
        BY <1>3a, <1>7, <2>2, <3>3 DEF Answer
    <2> QED
      BY <1>0, <1>3a, <1>7, <2>1, <2>2, <2>4 DEF Answer
  <1>8. CASE Timeout(r)
    <2>1. qp' \in Qps
      BY <1>0, <1>1, <1>8, QpUpdate DEF Timeout, Qps
    <2> QED
      BY <1>3a, <1>6, <1>8, <2>1 DEF Timeout
  <1>9. CASE Flush(r)
    BY <1>0, <1>3a, <1>6, <1>9 DEF Flush
  <1> QED
    BY <1>2, <1>4, <1>5, <1>7, <1>8, <1>9 DEF Dispatch, Device

LEMMA TypeStep == TypeOK /\ [Next]_vars => TypeOK'
  <1> SUFFICES ASSUME TypeOK, [Next]_vars PROVE TypeOK'
    OBVIOUS
  <1>1. CASE UNCHANGED vars
    BY <1>1 DEF vars, contextVars, infoVars, memoryVars,
      TypeOK, ContextTypeOK, InfoTypeOK, MemoryTypeOK, TrafficTypeOK
  <1>2. CASE Next
    BY <1>2, SetupType, ConnectStepType, ReadType DEF Next
  <1> QED
    BY <1>1, <1>2

(* Every variable keeps its type.                                           *)
THEOREM ConnectionTypes == Spec => []TypeOK
  BY TypeInit, TypeStep, PTL DEF Spec

-----------------------------------------------------------------------------
(* What the steps of reads and the end of a process leave alone.            *)

Errs(e, q) == qp[e][q] \in {"RTR", "RTS"} /\ qp'[e][q] = "ERR"

LEMMA TrafficFrame ==
  ASSUME TypeOK, NEW r \in Read, Submit(r) \/ Post(r) \/ Device(r)
  PROVE  /\ UNCHANGED <<contextVars, infoVars, memoryVars, path>>
         /\ \A e \in Endpoint, q \in QPI : qp'[e][q] = qp[e][q] \/ Errs(e, q)
  <1> DEFINE d == At[r]
             p == read[r].qpi
  <1>0. d \in Endpoint /\ p \in QPI /\ qp \in [Endpoint -> [QPI -> QpState]]
    BY ConnectionAssumption DEF TypeOK, TrafficTypeOK
  <1>1. CASE Submit(r) \/ Post(r) \/ Flush(r)
    BY <1>1 DEF Submit, Post, Flush
  <1>2. CASE Answer(r)
    <2>1. PICK t \in Opposite(d, p) :
            \/ UNCHANGED qp
            \/ qp' = [qp EXCEPT ![t[1]][t[2]] = "ERR", ![d][p] = "ERR"]
      BY <1>2 DEF Answer
    <2>2. t[1] \in Endpoint /\ t[2] \in QPI /\ qp[t[1]][t[2]] \in {"RTR", "RTS"}
      BY DEF Opposite
    <2>3. qp[d][p] = "RTS"
      BY <1>2 DEF Answer, Posted
    <2>4. CASE qp' = [qp EXCEPT ![t[1]][t[2]] = "ERR", ![d][p] = "ERR"]
      <3>1. ASSUME NEW e \in Endpoint, NEW q \in QPI
            PROVE  qp'[e][q] = IF <<e, q>> \in {<<t[1], t[2]>>, <<d, p>>} THEN "ERR" ELSE qp[e][q]
        BY <1>0, <2>2, <2>4
      <3> QED
        BY <1>2, <2>2, <2>3, <3>1 DEF Answer, Errs
    <2> QED
      BY <1>2, <2>1, <2>4 DEF Answer
  <1>3. CASE Timeout(r)
    <2>1. qp[d][p] = "RTS" /\ qp' = [qp EXCEPT ![d][p] = "ERR"]
      BY <1>3 DEF Timeout, Posted
    <2>2. ASSUME NEW e \in Endpoint, NEW q \in QPI
          PROVE  qp'[e][q] = qp[e][q] \/ Errs(e, q)
      BY <1>0, <2>1 DEF Errs
    <2> QED
      BY <1>3, <2>2 DEF Timeout
  <1> QED
    BY <1>1, <1>2, <1>3 DEF Device

LEMMA DieFrame ==
  ASSUME TypeOK, NEW d \in Endpoint, Die(d)
  PROVE  /\ UNCHANGED <<initialized_, connected_, given, infoVars, memoryVars, path>>
         /\ \A q \in QPI : qp'[d][q] = "NONE"
         /\ \A e \in Endpoint \ {d} :
              qp'[e] = qp[e] /\ conn'[e] = conn[e] /\ running'[e] = running[e] /\ alive'[e] = alive[e]
         /\ conn'[d].pc = "idle" /\ ~alive'[d]
  BY DEF Die, TypeOK, ContextTypeOK, TrafficTypeOK

(* The queue pairs that init makes are not usable, and it makes them only   *)
(* at its own end.                                                          *)
LEMMA InitFrame ==
  ASSUME TypeOK, NEW d \in Endpoint, InitContext(d) \/ InitFails(d)
  PROVE  /\ ~initialized_[d]
         /\ UNCHANGED <<alive, connected_, running, conn, given, offers, regions, path>>
         /\ initialized_' \in {initialized_, [initialized_ EXCEPT ![d] = TRUE]}
         /\ \A e \in Endpoint \ {d} :
              /\ qp'[e] = qp[e] /\ local_rdma_info_'[e] = local_rdma_info_[e]
              /\ mrs_'[e] = mrs_[e] /\ remote_mrs_'[e] = remote_mrs_[e]
         /\ \A q \in QPI : qp'[d][q] \in {"RESET", "INIT", qp[d][q]}
         /\ \A q \in QPI : \/ local_rdma_info_'[d][q] = local_rdma_info_[d][q]
                           \/ /\ local_rdma_info_'[d][q].gid = <<d, 1>>
                              /\ local_rdma_info_'[d][q].qpn[1] = d
                              /\ local_rdma_info_'[d][q].qpn[2] = q
         /\ mrs_'[d] = NoMr /\ remote_mrs_'[d] = NoMr
  <1>1. PICK created \in SUBSET QPI : NewQueuePairs(d, created)
    <2>1. CASE InitContext(d)
      BY <2>1 DEF InitContext
    <2>2. CASE InitFails(d)
      <3>1. PICK q \in QPI : NewQueuePairs(d, 0 .. (q - 1))
        BY <2>2 DEF InitFails
      <3>2. 0 .. (q - 1) \in SUBSET QPI
        BY ConnectionAssumption DEF QPI
      <3> QED
        BY <3>1, <3>2
    <2> QED
      BY <2>1, <2>2
  <1>2. /\ \A e \in Endpoint \ {d} : qp'[e] = qp[e]
        /\ \A q \in QPI : qp'[d][q] \in {"RESET", "INIT", qp[d][q]}
    <2>1. PICK state \in [QPI -> IF "modify" \in Faults THEN {"RESET", "INIT"} ELSE {"INIT"}] :
            qp' = [qp EXCEPT ![d] = [q \in QPI |-> IF q \in created THEN state[q] ELSE @[q]]]
      BY <1>1 DEF NewQueuePairs
    <2>2. \A q \in QPI : state[q] \in {"RESET", "INIT"}
      OBVIOUS
    <2> QED
      BY <2>1, <2>2 DEF TypeOK, TrafficTypeOK
  <1>3. /\ \A e \in Endpoint \ {d} : local_rdma_info_'[e] = local_rdma_info_[e]
        /\ \A q \in QPI : \/ local_rdma_info_'[d][q] = local_rdma_info_[d][q]
                          \/ /\ local_rdma_info_'[d][q].gid = <<d, 1>>
                             /\ local_rdma_info_'[d][q].qpn[1] = d
                             /\ local_rdma_info_'[d][q].qpn[2] = q
    BY <1>1 DEF NewQueuePairs, Describe, TypeOK, InfoTypeOK
  <1>4. /\ \A e \in Endpoint \ {d} : mrs_'[e] = mrs_[e] /\ remote_mrs_'[e] = remote_mrs_[e]
        /\ mrs_'[d] = NoMr /\ remote_mrs_'[d] = NoMr
    BY <1>1 DEF NewQueuePairs, TypeOK, MemoryTypeOK
  <1> QED
    BY <1>2, <1>3, <1>4 DEF InitContext, InitFails, contextVars

-----------------------------------------------------------------------------
(* Paired.                                                                  *)

LEMMA PairedInit == Init => PairedInv
  BY DEF Init, PairedInv, OffersTrue, GivenTrue, BothInitialized, Paired, Given

(* A step that only fails queue pairs, ends processes or goes on with a     *)
(* connection keeps what the ends know of each other.                       *)
LEMMA PairedTraffic ==
  ASSUME TypeOK, PairedInv, NEW r \in Read, Submit(r) \/ Post(r) \/ Device(r)
  PROVE  PairedInv'
  <1>1. /\ UNCHANGED <<contextVars, infoVars, memoryVars, path>>
        /\ \A e \in Endpoint, q \in QPI : qp'[e][q] = qp[e][q] \/ Errs(e, q)
    BY TrafficFrame
  <1>2. OffersTrue' /\ GivenTrue'
    BY <1>1 DEF PairedInv, OffersTrue, GivenTrue, contextVars, infoVars
  <1>3. BothInitialized' /\ Paired'
    BY <1>1 DEF PairedInv, BothInitialized, Paired, Errs, Given, contextVars, infoVars
  <1> QED
    BY <1>2, <1>3 DEF PairedInv

LEMMA PairedDie ==
  ASSUME TypeOK, PairedInv, NEW d \in Endpoint, Die(d)
  PROVE  PairedInv'
  <1>1. OffersTrue' /\ GivenTrue'
    BY DieFrame DEF PairedInv, OffersTrue, GivenTrue, infoVars
  <1>2. BothInitialized' /\ Paired'
    BY DieFrame DEF PairedInv, BothInitialized, Paired, Given, infoVars
  <1> QED
    BY <1>1, <1>2 DEF PairedInv

LEMMA PairedSetup ==
  ASSUME TypeOK, PairedInv, NEW d \in Endpoint, Setup(d)
  PROVE  PairedInv'
  <1> USE DEF PairedInv
  <1>0. Peer[d] \in Endpoint
    BY ConnectionAssumption
  <1>1. CASE InitContext(d) \/ InitFails(d)
    <2>1. /\ ~initialized_[d]
          /\ UNCHANGED <<connected_, conn, given, offers, path>>
          /\ initialized_' \in {initialized_, [initialized_ EXCEPT ![d] = TRUE]}
          /\ \A e \in Endpoint \ {d} :
               qp'[e] = qp[e] /\ local_rdma_info_'[e] = local_rdma_info_[e]
          /\ \A q \in QPI : qp'[d][q] \in {"RESET", "INIT", qp[d][q]}
      BY <1>1, InitFrame
    <2>2. \A e \in Endpoint : initialized_[e] => e # d /\ initialized_'[e]
      BY <2>1 DEF TypeOK, ContextTypeOK
    <2>3. OffersTrue'
      BY <2>1, <2>2 DEF OffersTrue
    <2>4. GivenTrue'
      <3> SUFFICES ASSUME NEW e \in Endpoint, conn'[e].pc # "idle"
                   PROVE  initialized_'[e] /\ initialized_'[Peer[e]] /\ given'[e] = local_rdma_info_'[Peer[e]]
        BY DEF GivenTrue
      <3>1. initialized_[e] /\ initialized_[Peer[e]] /\ given[e] = local_rdma_info_[Peer[e]]
        BY <2>1 DEF GivenTrue
      <3> QED
        BY <2>1, <2>2, <3>1, ConnectionAssumption
    <2>5. ASSUME NEW e \in Endpoint, NEW q \in QPI, qp'[e][q] \in Given
          PROVE  /\ e # d /\ Peer[e] # d /\ qp'[e][q] = qp[e][q]
                 /\ initialized_'[e] /\ initialized_'[Peer[e]]
      <3>1. qp[e][q] \in Given
        BY <2>1, <2>5 DEF Given
      <3>2. initialized_[e] /\ initialized_[Peer[e]]
        BY <3>1 DEF BothInitialized
      <3> QED
        BY <2>1, <2>2, <3>2, ConnectionAssumption
    <2>6. BothInitialized'
      BY <2>1, <2>2, <2>5 DEF BothInitialized
    <2>7. Paired'
      BY <2>1, <2>5, ConnectionAssumption DEF Paired, Given
    <2> QED
      BY <2>3, <2>4, <2>6, <2>7
  <1>2. CASE EndpointInfo(d)
    <2>1. OffersTrue'
      BY <1>2 DEF EndpointInfo, OffersTrue, contextVars, TypeOK, InfoTypeOK
    <2> QED
      BY <1>2, <2>1 DEF EndpointInfo, contextVars, GivenTrue, BothInitialized, Paired
  <1>3. CASE \E k \in Key : RegisterMr(d, k) \/ RegisterRemoteMr(d, k)
    BY <1>3 DEF RegisterMr, RegisterRemoteMr, contextVars, infoVars,
      OffersTrue, GivenTrue, BothInitialized, Paired
  <1>4. CASE ConnectBegin(d)
    <2>1. initialized_[d] /\ initialized_[Peer[d]] /\ given'[d] = local_rdma_info_[Peer[d]]
      BY <1>0, <1>4 DEF ConnectBegin, OffersTrue, TypeOK, ContextTypeOK
    <2>2. GivenTrue'
      BY <1>4, <2>1 DEF ConnectBegin, GivenTrue, TypeOK, ContextTypeOK, infoVars
    <2> QED
      BY <1>4, <2>2 DEF ConnectBegin, infoVars, OffersTrue, BothInitialized, Paired
  <1>5. CASE ConnectAgain(d) \/ Crash(d)
    BY <1>5, PairedDie DEF ConnectAgain, Crash
  <1> QED
    BY <1>1, <1>2, <1>3, <1>4, <1>5 DEF Setup

LEMMA PairedConnectStep ==
  ASSUME TypeOK, PairedInv, NEW d \in Endpoint, ConnectStep(d)
  PROVE  PairedInv'
  <1> USE DEF PairedInv
  <1> DEFINE p == conn[d].qpi
  <1>0. /\ p \in QPI /\ qp \in [Endpoint -> [QPI -> QpState]]
        /\ path \in [Endpoint -> [QPI -> Path]]
    BY DEF TypeOK, ContextTypeOK, TrafficTypeOK
  <1>1. conn[d].pc # "idle"
    BY DEF ConnectStep, ConnectRtr, ConnectRts, Launch
  <1>2. initialized_[d] /\ initialized_[Peer[d]] /\ given[d] = local_rdma_info_[Peer[d]]
    BY <1>1 DEF GivenTrue
  <1>3. UNCHANGED <<initialized_, given, infoVars>>
    BY DEF ConnectStep, ConnectRtr, ConnectRts, Launch
  <1>4. OffersTrue'
    BY <1>3 DEF OffersTrue, infoVars
  <1>5. \A e \in Endpoint \ {d} : conn'[e] = conn[e] /\ connected_'[e] = connected_[e]
    BY DEF ConnectStep, ConnectRtr, ConnectRts, Launch, Return, NextQueuePair, TypeOK, ContextTypeOK
  <1>6. GivenTrue'
    BY <1>2, <1>3, <1>5 DEF GivenTrue, infoVars
  <1>7. CASE UNCHANGED <<qp, path>>
    <2>1. UNCHANGED connected_ \/ connected_' = [connected_ EXCEPT ![d] = TRUE]
      BY DEF ConnectStep, ConnectRtr, ConnectRts, Launch
    <2>2. BothInitialized'
      BY <1>2, <1>3, <1>5, <1>7, <2>1 DEF BothInitialized, TypeOK, ContextTypeOK
    <2>3. Paired'
      BY <1>3, <1>7 DEF Paired, infoVars
    <2> QED
      BY <1>4, <1>6, <2>2, <2>3
  <1>8. CASE ConnectRtr(d) /\ qp' = [qp EXCEPT ![d][p] = "RTR"] /\ path' = [path EXCEPT ![d][p] = NewPath(d, p)]
    <2>1. BothInitialized'
      BY <1>0, <1>2, <1>3, <1>8 DEF ConnectRtr, BothInitialized, Given
    <2>2. /\ path'[d][p].dest = local_rdma_info_[Peer[d]][p].qpn
          /\ path'[d][p].rq_psn = local_rdma_info_[Peer[d]][p].psn
      BY <1>0, <1>2, <1>8 DEF NewPath, Path
    <2>3. Paired'
      <3> SUFFICES ASSUME NEW e \in Endpoint, NEW q \in QPI
                   PROVE  /\ qp'[e][q] \in Given =>
                               /\ path'[e][q].dest = local_rdma_info_[Peer[e]][q].qpn
                               /\ path'[e][q].rq_psn = local_rdma_info_[Peer[e]][q].psn
                          /\ qp'[e][q] = "RTS" => path'[e][q].sq_psn = local_rdma_info_[e][q].psn
        BY <1>3 DEF Paired, Given, infoVars
      <3>1. CASE e = d /\ q = p
        BY <1>0, <1>8, <2>2, <3>1
      <3>2. CASE ~(e = d /\ q = p)
        BY <1>0, <1>8, <3>2 DEF Paired, Given
      <3> QED
        BY <3>1, <3>2
    <2> QED
      BY <1>4, <1>6, <2>1, <2>3
  <1>9. CASE /\ ConnectRts(d) /\ qp[d][p] = "RTR" /\ qp' = [qp EXCEPT ![d][p] = "RTS"]
             /\ path' = [path EXCEPT ![d][p].sq_psn = local_rdma_info_[d][p].psn]
             /\ connected_' = [connected_ EXCEPT ![d] = TRUE]
    <2>1. BothInitialized'
      BY <1>0, <1>2, <1>3, <1>9 DEF BothInitialized, Given, TypeOK, ContextTypeOK
    <2>2. /\ path'[d][p].dest = path[d][p].dest
          /\ path'[d][p].rq_psn = path[d][p].rq_psn
          /\ path'[d][p].sq_psn = local_rdma_info_[d][p].psn
      BY <1>0, <1>9 DEF Path
    <2>3. Paired'
      <3> SUFFICES ASSUME NEW e \in Endpoint, NEW q \in QPI
                   PROVE  /\ qp'[e][q] \in Given =>
                               /\ path'[e][q].dest = local_rdma_info_[Peer[e]][q].qpn
                               /\ path'[e][q].rq_psn = local_rdma_info_[Peer[e]][q].psn
                          /\ qp'[e][q] = "RTS" => path'[e][q].sq_psn = local_rdma_info_[e][q].psn
        BY <1>3 DEF Paired, Given, infoVars
      <3>1. CASE e = d /\ q = p
        BY <1>0, <1>9, <2>2, <3>1 DEF Paired
      <3>2. CASE ~(e = d /\ q = p)
        BY <1>0, <1>9, <3>2 DEF Paired, Given
      <3> QED
        BY <3>1, <3>2
    <2> QED
      BY <1>4, <1>6, <2>1, <2>3
  <1> QED
    BY <1>7, <1>8, <1>9 DEF ConnectStep, ConnectRtr, ConnectRts, Launch

LEMMA PairedStep == TypeOK /\ PairedInv /\ [Next]_vars => PairedInv'
  <1> SUFFICES ASSUME TypeOK, PairedInv, [Next]_vars PROVE PairedInv'
    OBVIOUS
  <1>1. CASE UNCHANGED vars
    BY <1>1 DEF vars, contextVars, infoVars, PairedInv, OffersTrue, GivenTrue, BothInitialized, Paired
  <1>2. ASSUME NEW r \in Read, PostUnknown(r)
        PROVE  PairedInv'
    BY <1>2, PairedDie, ConnectionAssumption DEF PostUnknown
  <1>3. CASE Next
    BY <1>2, <1>3, PairedSetup, PairedConnectStep, PairedTraffic DEF Next, Dispatch
  <1> QED
    BY <1>1, <1>3

LEMMA PairedInvariance == Spec => []PairedInv
  BY PairedInit, PairedStep, ConnectionTypes, PTL DEF Spec

(* Queue pair i of one end is connected to queue pair i of the other, for   *)
(* whatever descriptions, old or new, the ends were given, with init failed *)
(* and repeated, and connect failed half way.                               *)
THEOREM QueuePairsArePaired == Spec => []Paired
  <1>1. PairedInv => Paired
    BY DEF PairedInv
  <1> QED
    BY <1>1, PairedInvariance, PTL

-----------------------------------------------------------------------------
(* RemoteRegionsServed.                                                     *)

(* Whatever a key names, in a pool or in a description given away, is still *)
(* registered with the device.                                              *)
NamedServed ==
  \A e \in Endpoint, k \in Key :
    /\ mrs_[e][k] # 0 => <<k, mrs_[e][k]>> \in regions[e]
    /\ \A o \in offers[e] : o.mrs[k] # 0 => <<k, o.mrs[k]>> \in regions[e]

RegionsInv == NamedServed /\ RemoteRegionsServed

LEMMA RegionsStep == TypeOK /\ RegionsInv /\ [Next]_vars => RegionsInv'
  <1> SUFFICES ASSUME TypeOK, RegionsInv, [Next]_vars PROVE RegionsInv'
    OBVIOUS
  <1> USE DEF RegionsInv
  <1>0. /\ Peer \in [Endpoint -> Endpoint] /\ mrs_ \in [Endpoint -> Mrs]
        /\ remote_mrs_ \in [Endpoint -> Mrs] /\ offers \in [Endpoint -> SUBSET Offer]
        /\ regions \in [Endpoint -> SUBSET (Key \X (1 .. MaxMr))]
    BY ConnectionAssumption DEF TypeOK, InfoTypeOK, MemoryTypeOK
  <1>1. ASSUME UNCHANGED <<offers, memoryVars>>
        PROVE  RegionsInv'
    BY <1>1 DEF memoryVars, NamedServed, RemoteRegionsServed
  <1>2. ASSUME NEW d \in Endpoint, Setup(d)
        PROVE  RegionsInv'
    <2>1. CASE InitContext(d) \/ InitFails(d)
      <3>1. /\ UNCHANGED <<offers, regions>>
            /\ \A e \in Endpoint \ {d} : mrs_'[e] = mrs_[e] /\ remote_mrs_'[e] = remote_mrs_[e]
            /\ mrs_'[d] = NoMr /\ remote_mrs_'[d] = NoMr
        BY <2>1, InitFrame
      <3>2. \A k \in Key : mrs_'[d][k] = 0 /\ remote_mrs_'[d][k] = 0
        BY <3>1 DEF NoMr
      <3>3. NamedServed'
        BY <3>1, <3>2 DEF NamedServed
      <3>4. RemoteRegionsServed'
        BY <3>1, <3>2 DEF RemoteRegionsServed
      <3> QED
        BY <3>3, <3>4
    <2>2. CASE EndpointInfo(d)
      <3>1. offers' = [offers EXCEPT ![d] = @ \union {[rdma |-> local_rdma_info_[d], mrs |-> mrs_[d]]}]
        BY <2>2 DEF EndpointInfo
      <3>2. NamedServed'
        <4> SUFFICES ASSUME NEW e \in Endpoint, NEW k \in Key, NEW o \in offers'[e], o.mrs[k] # 0
                     PROVE  <<k, o.mrs[k]>> \in regions[e]
          BY <2>2 DEF EndpointInfo, memoryVars, NamedServed
        <4>1. CASE o \in offers[e]
          BY <4>1 DEF NamedServed
        <4>2. CASE e = d /\ o = [rdma |-> local_rdma_info_[d], mrs |-> mrs_[d]]
          BY <4>2 DEF NamedServed
        <4>3. offers'[e] = IF e = d THEN offers[d] \union {[rdma |-> local_rdma_info_[d], mrs |-> mrs_[d]]}
                                    ELSE offers[e]
          BY <1>0, <3>1
        <4> QED
          BY <4>1, <4>2, <4>3
      <3> QED
        BY <2>2, <3>2 DEF EndpointInfo, memoryVars, RemoteRegionsServed
    <2>3. ASSUME NEW k \in Key, RegisterMr(d, k)
          PROVE  RegionsInv'
      <3>1. /\ mrs_' = [mrs_ EXCEPT ![d][k] = @ + 1]
            /\ regions' = [regions EXCEPT ![d] = @ \union {<<k, mrs_[d][k] + 1>>}]
            /\ UNCHANGED <<offers, remote_mrs_>>
        BY <2>3 DEF RegisterMr, infoVars
      <3>2. \A e \in Endpoint : regions[e] \subseteq regions'[e]
        BY <1>0, <3>1
      <3>3. /\ mrs_'[d][k] = mrs_[d][k] + 1 /\ <<k, mrs_[d][k] + 1>> \in regions'[d]
            /\ \A e \in Endpoint, i \in Key : ~(e = d /\ i = k) => mrs_'[e][i] = mrs_[e][i]
        <4>1. \A e \in Endpoint : mrs_'[e] = IF e = d THEN [mrs_[d] EXCEPT ![k] = @ + 1] ELSE mrs_[e]
          BY <1>0, <3>1
        <4>2. \A e \in Endpoint : mrs_[e] \in [Key -> 0 .. MaxMr]
          BY <1>0 DEF Mrs
        <4>3. <<k, mrs_[d][k] + 1>> \in regions'[d]
          BY <1>0, <3>1
        <4>4. mrs_'[d][k] = mrs_[d][k] + 1
          BY <4>1, <4>2
        <4>5. \A e \in Endpoint, i \in Key : ~(e = d /\ i = k) => mrs_'[e][i] = mrs_[e][i]
          BY <4>1, <4>2
        <4> QED
          BY <4>3, <4>4, <4>5
      <3>4. NamedServed'
        <4>1. \A e \in Endpoint, i \in Key : mrs_'[e][i] # 0 => <<i, mrs_'[e][i]>> \in regions'[e]
          BY <3>2, <3>3 DEF NamedServed
        <4>2. \A e \in Endpoint, i \in Key : \A o \in offers'[e] : o.mrs[i] # 0 => <<i, o.mrs[i]>> \in regions'[e]
          BY <3>1, <3>2 DEF NamedServed
        <4> QED
          BY <4>1, <4>2 DEF NamedServed
      <3>5. RemoteRegionsServed'
        BY <1>0, <3>1, <3>2 DEF RemoteRegionsServed
      <3> QED
        BY <3>4, <3>5
    <2>4. ASSUME NEW k \in Key, RegisterRemoteMr(d, k)
          PROVE  RegionsInv'
      <3>1. PICK o \in offers[Peer[d]] :
              o.mrs[k] # 0 /\ remote_mrs_' = [remote_mrs_ EXCEPT ![d][k] = o.mrs[k]]
        BY <2>4 DEF RegisterRemoteMr
      <3>2. UNCHANGED <<offers, mrs_, regions>>
        BY <2>4 DEF RegisterRemoteMr, infoVars
      <3>3. <<k, o.mrs[k]>> \in regions[Peer[d]]
        BY <1>0, <3>1 DEF NamedServed
      <3>4. RemoteRegionsServed'
        BY <1>0, <3>1, <3>2, <3>3 DEF RemoteRegionsServed, Mrs
      <3> QED
        BY <3>2, <3>4 DEF NamedServed
    <2>5. CASE ConnectBegin(d)
      <3>1. PICK o \in offers[Peer[d]] :
              remote_mrs_' = [remote_mrs_ EXCEPT ![d] =
                [k \in Key |-> IF o.mrs[k] # 0 THEN o.mrs[k] ELSE @[k]]]
        BY <2>5 DEF ConnectBegin
      <3>2. UNCHANGED <<offers, mrs_, regions>>
        BY <2>5 DEF ConnectBegin, infoVars
      <3>3. \A k \in Key : o.mrs[k] # 0 => <<k, o.mrs[k]>> \in regions[Peer[d]]
        BY <1>0 DEF NamedServed
      <3>4. RemoteRegionsServed'
        BY <1>0, <3>1, <3>2, <3>3 DEF RemoteRegionsServed, Mrs
      <3> QED
        BY <3>2, <3>4 DEF NamedServed
    <2>6. CASE ConnectAgain(d) \/ Crash(d)
      BY <1>1, <2>6, DieFrame DEF ConnectAgain, Crash, infoVars
    <2> QED
      BY <1>2, <2>1, <2>2, <2>3, <2>4, <2>5, <2>6 DEF Setup
  <1>3. ASSUME NEW d \in Endpoint, ConnectStep(d)
        PROVE  RegionsInv'
    BY <1>1, <1>3 DEF ConnectStep, ConnectRtr, ConnectRts, Launch, infoVars
  <1>4. ASSUME NEW r \in Read, Submit(r) \/ Dispatch(r) \/ Device(r)
        PROVE  RegionsInv'
    <2>1. CASE PostUnknown(r)
      BY <1>1, <2>1, DieFrame, ConnectionAssumption DEF PostUnknown, infoVars
    <2>2. CASE Submit(r) \/ Post(r) \/ Device(r)
      BY <1>1, <2>2, TrafficFrame DEF infoVars
    <2> QED
      BY <1>4, <2>1, <2>2 DEF Dispatch
  <1>5. CASE UNCHANGED vars
    BY <1>1, <1>5 DEF vars, infoVars
  <1> QED
    BY <1>2, <1>3, <1>4, <1>5 DEF Next

(* No read can name a region that the peer's device does not serve, however *)
(* old the description it was learnt from.                                  *)
THEOREM RegionsStayServed == Spec => []RemoteRegionsServed
  <1>1. Init => RegionsInv
    BY ConnectionAssumption DEF Init, RegionsInv, NamedServed, RemoteRegionsServed, NoMr
  <1>2. RegionsInv => RemoteRegionsServed
    BY DEF RegionsInv
  <1> QED
    BY <1>1, <1>2, RegionsStep, ConnectionTypes, PTL DEF Spec

-----------------------------------------------------------------------------
(* ConnectionIsFinal: an action property, from PairedInv alone.             *)

LEMMA FinalStep ==
  ASSUME TypeOK, PairedInv, [Next]_vars,
         NEW e \in Endpoint, NEW q \in QPI,
         connected_[e], conn[e].pc = "idle", alive'[e]
  PROVE  qp'[e][q] \in {qp[e][q], "ERR"}
  <1>0. qp \in [Endpoint -> [QPI -> QpState]]
    BY DEF TypeOK, TrafficTypeOK
  <1>1. ASSUME NEW d \in Endpoint, Die(d)
        PROVE  qp'[e][q] = qp[e][q]
    BY <1>1, DieFrame
  <1>2. ASSUME NEW d \in Endpoint, Setup(d)
        PROVE  qp'[e][q] = qp[e][q]
    <2>1. CASE InitContext(d) \/ InitFails(d)
      <3>1. ~initialized_[d] /\ \A f \in Endpoint \ {d} : qp'[f] = qp[f]
        BY <2>1, InitFrame
      <3>2. initialized_[e]
        BY DEF PairedInv, BothInitialized
      <3> QED
        BY <3>1, <3>2
    <2>2. CASE ConnectAgain(d) \/ Crash(d)
      BY <1>1, <2>2 DEF ConnectAgain, Crash
    <2> QED
      BY <1>2, <2>1, <2>2 DEF Setup, EndpointInfo, RegisterMr, RegisterRemoteMr, ConnectBegin
  <1>3. ASSUME NEW d \in Endpoint, ConnectStep(d)
        PROVE  qp'[e][q] = qp[e][q]
    <2>1. d # e
      BY <1>3 DEF ConnectStep, ConnectRtr, ConnectRts, Launch
    <2> QED
      BY <1>0, <1>3, <2>1 DEF ConnectStep, ConnectRtr, ConnectRts, Launch
  <1>4. ASSUME NEW r \in Read, Submit(r) \/ Post(r) \/ Device(r)
        PROVE  qp'[e][q] \in {qp[e][q], "ERR"}
    BY <1>4, TrafficFrame DEF Errs
  <1>5. ASSUME NEW r \in Read, PostUnknown(r)
        PROVE  qp'[e][q] = qp[e][q]
    BY <1>1, <1>5, ConnectionAssumption DEF PostUnknown
  <1>6. CASE UNCHANGED vars
    BY <1>6 DEF vars
  <1> QED
    BY <1>2, <1>3, <1>4, <1>5, <1>6 DEF Next, Dispatch

(* Nothing repairs, or disturbs other than by an error, the queue pairs of  *)
(* a context on which connect has returned with connected_ set.             *)
THEOREM ConnectionStaysFinal == Spec => ConnectionIsFinal
  <1>1. TypeOK /\ PairedInv /\ [Next]_vars =>
          [\A e \in Endpoint, q \in QPI :
             connected_[e] /\ conn[e].pc = "idle" /\ alive'[e]
               => qp'[e][q] \in {qp[e][q], "ERR"}]_vars
    BY FinalStep
  <1> QED
    BY <1>1, ConnectionTypes, PairedInvariance, PTL DEF Spec, ConnectionIsFinal

-----------------------------------------------------------------------------
(* ReadyPrefix.                                                             *)

(* While connect works on queue pair i, all before it are ready.            *)
LoopInv ==
  \A e \in Endpoint : conn[e].pc # "idle" /\ conn[e].pc # "returned" =>
    \A i \in QPI : i < conn[e].qpi => qp[e][i] \in Ready

ReadyInv == LoopInv /\ ReadyPrefix

LEMMA ReadyInit == Init => ReadyInv
  BY QpiFacts DEF Init, ReadyInv, LoopInv, ReadyPrefix, Ready

LEMMA ReadyTraffic ==
  ASSUME TypeOK, ReadyInv, NEW r \in Read, Submit(r) \/ Post(r) \/ Device(r)
  PROVE  ReadyInv'
  <1>1. UNCHANGED contextVars /\ \A e \in Endpoint, q \in QPI : qp'[e][q] = qp[e][q] \/ Errs(e, q)
    BY TrafficFrame
  <1>2. \A e \in Endpoint, q \in QPI :
          /\ qp[e][q] \in Ready => qp'[e][q] \in Ready
          /\ qp'[e][q] = "RTS" => qp[e][q] = "RTS"
    BY <1>1 DEF Errs, Ready
  <1>3. LoopInv'
    BY <1>1, <1>2 DEF contextVars, ReadyInv, LoopInv
  <1>4. ReadyPrefix'
    BY <1>1, <1>2, QpiFacts DEF contextVars, ReadyInv, ReadyPrefix
  <1> QED
    BY <1>3, <1>4 DEF ReadyInv

LEMMA ReadyDie ==
  ASSUME TypeOK, ReadyInv, NEW d \in Endpoint, Die(d)
  PROVE  ReadyInv'
  BY DieFrame, QpiFacts DEF ReadyInv, LoopInv, ReadyPrefix

LEMMA ReadySetup ==
  ASSUME TypeOK, PairedInv, ReadyInv, NEW d \in Endpoint, Setup(d)
  PROVE  ReadyInv'
  <1> USE DEF ReadyInv
  <1>1. CASE InitContext(d) \/ InitFails(d)
    <2>1. /\ ~initialized_[d]
          /\ UNCHANGED <<alive, connected_, running, conn>>
          /\ \A e \in Endpoint \ {d} : qp'[e] = qp[e]
          /\ \A q \in QPI : qp'[d][q] \in {"RESET", "INIT", qp[d][q]}
      BY <1>1, InitFrame
    <2>2. ~connected_[d] /\ conn[d].pc = "idle" /\ \A q \in QPI : qp'[d][q] \notin Given
      BY <2>1 DEF PairedInv, BothInitialized, GivenTrue, Given
    <2>3. LoopInv'
      BY <2>1, <2>2 DEF LoopInv
    <2>4. ReadyPrefix'
      BY <2>1, <2>2, QpiFacts DEF ReadyPrefix, Given
    <2> QED
      BY <2>3, <2>4
  <1>2. CASE EndpointInfo(d) \/ \E k \in Key : RegisterMr(d, k) \/ RegisterRemoteMr(d, k)
    BY <1>2 DEF EndpointInfo, RegisterMr, RegisterRemoteMr, contextVars, LoopInv, ReadyPrefix
  <1>3. CASE ConnectBegin(d)
    <2>1. /\ conn' = [conn EXCEPT ![d] = [pc |-> "rtr", qpi |-> 0]]
          /\ UNCHANGED <<alive, connected_, running, qp>>
      BY <1>3 DEF ConnectBegin
    <2>2. LoopInv'
      <3>1. \A i \in QPI : ~(i < 0)
        BY QpiFacts
      <3>2. /\ conn'[d].qpi = 0
            /\ \A e \in Endpoint \ {d} : conn'[e] = conn[e]
        BY <2>1 DEF TypeOK, ContextTypeOK
      <3> QED
        BY <2>1, <3>1, <3>2 DEF LoopInv
    <2> QED
      BY <2>1, <2>2 DEF ReadyPrefix
  <1>4. CASE ConnectAgain(d) \/ Crash(d)
    BY <1>4, ReadyDie DEF ConnectAgain, Crash
  <1> QED
    BY <1>1, <1>2, <1>3, <1>4 DEF Setup

LEMMA ReadyConnectStep ==
  ASSUME TypeOK, ReadyInv, NEW d \in Endpoint, ConnectStep(d)
  PROVE  ReadyInv'
  <1> USE DEF ReadyInv
  <1> DEFINE p == conn[d].qpi
  <1>0. /\ p \in QPI /\ p \in Nat /\ qp \in [Endpoint -> [QPI -> QpState]]
        /\ conn \in [Endpoint -> [pc : {"idle", "rtr", "rts", "returned"}, qpi : QPI]]
        /\ connected_ \in [Endpoint -> BOOLEAN] /\ running \in [Endpoint -> BOOLEAN]
    BY QpiFacts DEF TypeOK, ContextTypeOK, TrafficTypeOK
  <1>1. UNCHANGED alive
    BY DEF ConnectStep, ConnectRtr, ConnectRts, Launch
  <1>2. ASSUME UNCHANGED <<qp, connected_, running>>, Return(d)
        PROVE  ReadyInv'
    <2>1. \A e \in Endpoint : conn'[e].pc # "returned" => conn'[e] = conn[e]
      BY <1>0, <1>2 DEF Return
    <2> QED
      BY <1>1, <1>2, <2>1 DEF LoopInv, ReadyPrefix
  <1>3. CASE ConnectRtr(d)
    <2>1. CASE UNCHANGED qp /\ Return(d)
      BY <1>2, <1>3, <2>1 DEF ConnectRtr
    <2>2. CASE /\ MayEnterRtr(d, p) /\ qp' = [qp EXCEPT ![d][p] = "RTR"]
               /\ conn' = [conn EXCEPT ![d].pc = "rts"]
      <3>1. qp[d][p] = "INIT"
        BY <2>2 DEF MayEnterRtr
      <3>2. \A e \in Endpoint, q \in QPI :
              qp'[e][q] = IF e = d /\ q = p THEN "RTR" ELSE qp[e][q]
        BY <1>0, <2>2
      <3>3. LoopInv'
        <4> SUFFICES ASSUME NEW e \in Endpoint, conn'[e].pc \notin {"idle", "returned"},
                            NEW i \in QPI, i < conn'[e].qpi
                     PROVE  qp'[e][i] \in Ready
          BY DEF LoopInv
        <4>1. conn[e].pc \notin {"idle", "returned"} /\ conn'[e].qpi = conn[e].qpi
          BY <1>0, <1>3, <2>2 DEF ConnectRtr
        <4>2. qp[e][i] \in Ready
          BY <4>1 DEF LoopInv
        <4> QED
          BY <3>1, <3>2, <4>2 DEF Ready
      <3>4. UNCHANGED <<connected_, running>>
        BY <1>3 DEF ConnectRtr
      <3>5. ReadyPrefix'
        BY <1>1, <3>1, <3>2, <3>4, QpiFacts DEF ReadyPrefix, Ready
      <3> QED
        BY <3>3, <3>5
    <2> QED
      BY <1>3, <2>1, <2>2 DEF ConnectRtr
  <1>4. CASE ConnectRts(d)
    <2>1. CASE UNCHANGED <<qp, connected_>> /\ Return(d)
      BY <1>2, <1>4, <2>1 DEF ConnectRts
    <2>2. CASE /\ qp[d][p] = "RTR" /\ qp' = [qp EXCEPT ![d][p] = "RTS"]
               /\ connected_' = [connected_ EXCEPT ![d] = TRUE]
               /\ NextQueuePair(d, p) \/ Return(d)
      <3>1. \A e \in Endpoint, q \in QPI :
              qp'[e][q] = IF e = d /\ q = p THEN "RTS" ELSE qp[e][q]
        BY <1>0, <2>2
      <3>2. \A i \in QPI : i < p => qp[d][i] \in Ready
        BY <1>4 DEF ConnectRts, LoopInv
      <3>3. LoopInv'
        <4> SUFFICES ASSUME NEW e \in Endpoint, conn'[e].pc \notin {"idle", "returned"},
                            NEW i \in QPI, i < conn'[e].qpi
                     PROVE  qp'[e][i] \in Ready
          BY DEF LoopInv
        <4>1. CASE e = d
          <5>1. conn'[e].qpi = p + 1
            BY <1>0, <2>2, <4>1 DEF NextQueuePair, Return
          <5>2. i < p \/ i = p
            <6>1. i \in Nat /\ p \in Nat /\ i < p + 1
              BY <1>0, <5>1, QpiFacts
            <6> HIDE DEF p
            <6> QED
              BY <6>1
          <5> QED
            BY <3>1, <3>2, <4>1, <5>2 DEF Ready
        <4>2. CASE e # d
          <5>1. conn'[e] = conn[e]
            BY <1>0, <2>2, <4>2 DEF NextQueuePair, Return
          <5> QED
            BY <3>1, <4>2, <5>1 DEF LoopInv
        <4> QED
          BY <4>1, <4>2
      <3>4. UNCHANGED running
        BY <1>4 DEF ConnectRts
      <3>5. ReadyPrefix'
        <4>1. ASSUME NEW e \in Endpoint, e # d, alive[e]
              PROVE  /\ connected_'[e] => qp'[e][0] \in Ready
                     /\ qp'[e][0] = "RTS" => connected_'[e]
                     /\ running'[e] => connected_'[e]
                     /\ \A i, j \in QPI : i < j /\ qp'[e][j] = "RTS" => qp'[e][i] \in Ready
          BY <1>0, <2>2, <3>1, <3>4, <4>1, QpiFacts DEF ReadyPrefix
        <4>2. connected_'[d]
          BY <1>0, <2>2
        <4>3. qp'[d][0] \in Ready
          BY <1>0, <3>1, <3>2, QpiFacts DEF Ready
        <4>4. ASSUME alive[d], NEW i \in QPI, NEW j \in QPI, i < j, qp'[d][j] = "RTS"
              PROVE  qp'[d][i] \in Ready
          <5>1. CASE j = p
            BY <3>1, <3>2, <4>4, <5>1 DEF Ready
          <5>2. CASE j # p
            <6>1. qp[d][i] \in Ready
              BY <3>1, <4>4, <5>2 DEF ReadyPrefix
            <6> QED
              BY <3>1, <6>1 DEF Ready
          <5> QED
            BY <5>1, <5>2
        <4> QED
          BY <1>1, <4>1, <4>2, <4>3, <4>4 DEF ReadyPrefix
      <3> QED
        BY <3>3, <3>5
    <2> QED
      BY <1>4, <2>1, <2>2 DEF ConnectRts
  <1>5. CASE Launch(d)
    <2>1. UNCHANGED <<qp, connected_>> /\ running' = [running EXCEPT ![d] = connected_[d]]
      BY <1>5 DEF Launch
    <2>2. \A e \in Endpoint : conn'[e].pc # "idle" => conn'[e] = conn[e]
      BY <1>0, <1>5 DEF Launch
    <2>3. LoopInv'
      BY <2>1, <2>2 DEF LoopInv
    <2>4. ReadyPrefix'
      BY <1>0, <1>1, <2>1 DEF ReadyPrefix
    <2> QED
      BY <2>3, <2>4
  <1> QED
    BY <1>3, <1>4, <1>5 DEF ConnectStep

LEMMA ReadyStep == TypeOK /\ PairedInv /\ ReadyInv /\ [Next]_vars => ReadyInv'
  <1> SUFFICES ASSUME TypeOK, PairedInv, ReadyInv, [Next]_vars PROVE ReadyInv'
    OBVIOUS
  <1>1. CASE UNCHANGED vars
    BY <1>1 DEF vars, contextVars, ReadyInv, LoopInv, ReadyPrefix
  <1>2. ASSUME NEW r \in Read, PostUnknown(r)
        PROVE  ReadyInv'
    BY <1>2, ReadyDie, ConnectionAssumption DEF PostUnknown
  <1>3. CASE Next
    BY <1>2, <1>3, ReadySetup, ReadyConnectStep, ReadyTraffic DEF Next, Dispatch
  <1> QED
    BY <1>1, <1>3

(* No thread runs on a context whose first queue pair was never ready, and  *)
(* queue pairs become ready in order, through every failure of connect and  *)
(* whatever reads of the peer arrive meanwhile.                             *)
THEOREM ReadyInOrder == Spec => []ReadyPrefix
  <1>1. ReadyInv => ReadyPrefix
    BY DEF ReadyInv
  <1> QED
    BY <1>1, ReadyInit, ReadyStep, ConnectionTypes, PairedInvariance, PTL DEF Spec

-----------------------------------------------------------------------------
(* PathLeadsToPeer, on RoCE and port 1.                                     *)

OnRoCE == LinkLayer = "Ethernet" /\ \A e \in Endpoint : IbPort[e] = 1

GidTrue == \A e \in Endpoint, q \in QPI : local_rdma_info_[e][q].gid = PortAddr(e)

PathInv == GidTrue /\ PathLeadsToPeer

LEMMA PathStep == OnRoCE /\ TypeOK /\ PairedInv /\ PathInv /\ [Next]_vars => PathInv'
  <1> SUFFICES ASSUME OnRoCE, TypeOK, PairedInv, PathInv, [Next]_vars PROVE PathInv'
    OBVIOUS
  <1> USE DEF PathInv
  <1>0. /\ qp \in [Endpoint -> [QPI -> QpState]] /\ path \in [Endpoint -> [QPI -> Path]]
        /\ Peer \in [Endpoint -> Endpoint]
    BY ConnectionAssumption DEF TypeOK, TrafficTypeOK
  <1>1. ASSUME UNCHANGED <<local_rdma_info_, path>>,
               \A e \in Endpoint, q \in QPI : qp'[e][q] \in Given => qp[e][q] \in Given
        PROVE  PathInv'
    BY <1>1 DEF GidTrue, PathLeadsToPeer, PortAddr, Given
  <1>2. ASSUME NEW d \in Endpoint, Die(d)
        PROVE  PathInv'
    BY <1>1, <1>2, DieFrame DEF infoVars, Given
  <1>3. ASSUME NEW d \in Endpoint, Setup(d)
        PROVE  PathInv'
    <2>1. CASE InitContext(d) \/ InitFails(d)
      <3>1. /\ UNCHANGED path
            /\ \A e \in Endpoint \ {d} :
                 qp'[e] = qp[e] /\ local_rdma_info_'[e] = local_rdma_info_[e]
            /\ \A q \in QPI : qp'[d][q] \in {"RESET", "INIT", qp[d][q]}
            /\ \A q \in QPI : \/ local_rdma_info_'[d][q] = local_rdma_info_[d][q]
                              \/ local_rdma_info_'[d][q].gid = <<d, 1>>
        BY <2>1, InitFrame
      <3>2. GidTrue'
        BY <3>1 DEF GidTrue, PortAddr, OnRoCE
      <3>3. \A e \in Endpoint, q \in QPI : qp'[e][q] \in Given => qp[e][q] \in Given
        BY <3>1 DEF Given
      <3>4. PathLeadsToPeer'
        BY <3>1, <3>3 DEF PathLeadsToPeer, PortAddr, Given
      <3> QED
        BY <3>2, <3>4
    <2>2. CASE ConnectAgain(d) \/ Crash(d)
      BY <1>2, <2>2 DEF ConnectAgain, Crash
    <2> QED
      BY <1>1, <1>3, <2>1, <2>2
      DEF Setup, EndpointInfo, RegisterMr, RegisterRemoteMr, ConnectBegin, infoVars
  <1>4. ASSUME NEW d \in Endpoint, ConnectStep(d)
        PROVE  PathInv'
    <2> DEFINE p == conn[d].qpi
    <2>0. p \in QPI
      BY DEF TypeOK, ContextTypeOK
    <2>1. UNCHANGED local_rdma_info_
      BY <1>4 DEF ConnectStep, ConnectRtr, ConnectRts, Launch, infoVars
    <2>2. CASE UNCHANGED <<qp, path>>
      BY <1>1, <2>1, <2>2
    <2>3. CASE ConnectRtr(d) /\ qp' = [qp EXCEPT ![d][p] = "RTR"] /\ path' = [path EXCEPT ![d][p] = NewPath(d, p)]
      <3>1. given[d] = local_rdma_info_[Peer[d]]
        BY <2>3 DEF ConnectRtr, PairedInv, GivenTrue
      <3>2. path'[d][p].addr = PortAddr(Peer[d])
        BY <1>0, <2>0, <2>3, <3>1 DEF NewPath, Path, Destination, OnRoCE, GidTrue
      <3>3. PathLeadsToPeer'
        BY <1>0, <2>0, <2>3, <3>2 DEF PathLeadsToPeer, PortAddr
      <3> QED
        BY <2>1, <3>3 DEF GidTrue, PortAddr
    <2>4. CASE /\ ConnectRts(d) /\ qp[d][p] = "RTR" /\ qp' = [qp EXCEPT ![d][p] = "RTS"]
               /\ path' = [path EXCEPT ![d][p].sq_psn = local_rdma_info_[d][p].psn]
      <3>1. \A e \in Endpoint, q \in QPI : path'[e][q].addr = path[e][q].addr
        BY <1>0, <2>0, <2>4 DEF Path
      <3>2. \A e \in Endpoint, q \in QPI : qp'[e][q] \in Given => qp[e][q] \in Given
        BY <1>0, <2>0, <2>4 DEF Given
      <3>3. PathLeadsToPeer'
        BY <3>1, <3>2 DEF PathLeadsToPeer, PortAddr, Given
      <3> QED
        BY <2>1, <3>3 DEF GidTrue, PortAddr
    <2> QED
      BY <1>4, <2>2, <2>3, <2>4 DEF ConnectStep, ConnectRtr, ConnectRts, Launch
  <1>5. ASSUME NEW r \in Read, Submit(r) \/ Post(r) \/ Device(r)
        PROVE  PathInv'
    BY <1>1, <1>5, TrafficFrame DEF Errs, Given, infoVars
  <1>6. ASSUME NEW r \in Read, PostUnknown(r)
        PROVE  PathInv'
    BY <1>2, <1>6, ConnectionAssumption DEF PostUnknown
  <1>7. CASE UNCHANGED vars
    BY <1>1, <1>7 DEF vars, infoVars
  <1> QED
    BY <1>3, <1>4, <1>5, <1>6, <1>7 DEF Next, Dispatch

(* On RoCE, and on port 1, every queue pair sends to the port its peer is   *)
(* at.  On InfiniBand the address is its own (rdma_context.cpp:230); on     *)
(* another port no queue pair gets that far (MayEnterRtr).                  *)
THEOREM PathsOnRoCE ==
  ASSUME OnRoCE PROVE Spec => []PathLeadsToPeer
  <1>1. Init => PathInv
    BY DEF Init, PathInv, GidTrue, PathLeadsToPeer, Unset, Describe, PortAddr, OnRoCE
  <1>2. TypeOK /\ PairedInv /\ PathInv /\ [Next]_vars => PathInv'
    BY PathStep
  <1>3. PathInv => PathLeadsToPeer
    BY DEF PathInv
  <1> QED
    BY <1>1, <1>2, <1>3, ConnectionTypes, PairedInvariance, PTL DEF Spec
-----------------------------------------------------------------------------
(* Reads of callers that wait for both ends and for the region.             *)

Mutual == \A e \in Endpoint : Peer[Peer[e]] = e

(* What a patient caller has to put up with at queue pair q of e: one of    *)
(* the processes has died, or a read whose caller did not wait has failed   *)
(* on the same queue pair.                                                  *)
Spoilt(e, q) ==
  \/ ~alive[e] \/ ~alive[Peer[e]]
  \/ \E i \in Read \ Patient :
       At[i] \in {e, Peer[e]} /\ read[i].qpi = q /\ read[i].st = "failed"

(* A patient read ends in nothing but success otherwise.                    *)
PatientReadsNeverFail ==
  \A r \in Patient :
    read[r].st \in {"failed", "lost", "gone"} => Spoilt(At[r], read[r].qpi)

(* A queue pair number names one queue pair of one end.                     *)
Numbered ==
  \A e \in Endpoint, q \in QPI :
    local_rdma_info_[e][q].qpn[1] = e /\ local_rdma_info_[e][q].qpn[2] = q

ErrorsSpoil == \A e \in Endpoint, q \in QPI : qp[e][q] = "ERR" => Spoilt(e, q)

(* The read finds both queue pairs ready and a region that is served.       *)
Attended(r) ==
  LET e == At[r]  f == Peer[At[r]]  q == read[r].qpi IN
  /\ read[r].st \in {"queued", "posted", "done"}
  /\ qp[e][q] = "RTS" /\ qp[f][q] = "RTS"
  /\ remote_mrs_[e][KeyOf[r]] # 0
  /\ read[r].st = "posted" => <<KeyOf[r], read[r].region>> \in regions[f]

PatientInv ==
  \A r \in Patient : read[r].st # "new" => Spoilt(At[r], read[r].qpi) \/ Attended(r)

TroubleInv == Numbered /\ ErrorsSpoil /\ PatientInv

LinkInv == TypeOK /\ PairedInv /\ PathInv /\ RegionsInv

LEMMA SpoiltBoth ==
  ASSUME Mutual, NEW e \in Endpoint, NEW q \in QPI, Spoilt(e, q)
  PROVE  Spoilt(Peer[e], q)
  BY ConnectionAssumption DEF Mutual, Spoilt

(* Only the read that a step is about changes, or those of a process that   *)
(* dies; and nobody comes back to life.                                     *)
LEMMA ReadFrame ==
  ASSUME TypeOK, NEW r \in Read, Submit(r) \/ Post(r) \/ Device(r)
  PROVE  /\ \A i \in Read \ {r} : read'[i] = read[i]
         /\ read[r].st \in {"new", "queued", "posted"}
         /\ read[r].st # "new" => read'[r].qpi = read[r].qpi
  <1> DEFINE R == [st : ReadState, qpi : QPI, region : 0 .. MaxMr]
  <1>0. read \in [Read -> R]
    BY DEF TypeOK, TrafficTypeOK
  <1>1. CASE Submit(r)
    BY <1>0, <1>1 DEF Submit
  <1>2. CASE Post(r)
    BY <1>0, <1>2 DEF Post
  <1>3. CASE Device(r)
    <2>1. read[r].st = "posted"
      BY <1>3 DEF Device, Answer, Timeout, Flush, Posted
    <2>2. \E s \in {"done", "failed"} : read' = [read EXCEPT ![r].st = s]
      BY <1>3 DEF Device, Answer, Timeout, Flush
    <2> QED
      BY <1>0, <2>1, <2>2
  <1> QED
    BY <1>1, <1>2, <1>3

LEMMA SpoiltStays ==
  ASSUME TypeOK, [Next]_vars, NEW e \in Endpoint, NEW q \in QPI, Spoilt(e, q)
  PROVE  Spoilt(e, q)'
  <1>0. Peer[e] \in Endpoint
    BY ConnectionAssumption
  <1>1. /\ \A d \in Endpoint : ~alive[d] => ~alive'[d]
        /\ \A i \in Read : read[i].st = "failed" => read'[i] = read[i]
    <2>1. ASSUME NEW d \in Endpoint, Die(d)
          PROVE  /\ \A b \in Endpoint : ~alive[b] => ~alive'[b]
                 /\ \A i \in Read : read[i].st = "failed" => read'[i] = read[i]
      BY <2>1 DEF Die, TypeOK, ContextTypeOK, TrafficTypeOK
    <2>2. ASSUME UNCHANGED <<alive, read>>
          PROVE  /\ \A b \in Endpoint : ~alive[b] => ~alive'[b]
                 /\ \A i \in Read : read[i].st = "failed" => read'[i] = read[i]
      BY <2>2
    <2>3. ASSUME NEW d \in Endpoint, Setup(d)
          PROVE  (\E b \in Endpoint : Die(b)) \/ UNCHANGED <<alive, read>>
      BY <2>3 DEF Setup, InitContext, InitFails, EndpointInfo, RegisterMr, RegisterRemoteMr,
                  ConnectBegin, ConnectAgain, Crash, contextVars
    <2>4. ASSUME NEW d \in Endpoint, ConnectStep(d)
          PROVE  UNCHANGED <<alive, read>>
      BY <2>4 DEF ConnectStep, ConnectRtr, ConnectRts, Launch
    <2>5. ASSUME NEW r \in Read, Submit(r) \/ Post(r) \/ Device(r)
          PROVE  /\ \A b \in Endpoint : ~alive[b] => ~alive'[b]
                 /\ \A i \in Read : read[i].st = "failed" => read'[i] = read[i]
      <3>1. UNCHANGED alive
        BY <2>5, TrafficFrame DEF contextVars
      <3>2. read[r].st # "failed" /\ \A i \in Read \ {r} : read'[i] = read[i]
        BY <2>5, ReadFrame
      <3> QED
        BY <3>1, <3>2
    <2>6. ASSUME NEW r \in Read, PostUnknown(r)
          PROVE  \E b \in Endpoint : Die(b)
      BY <2>6, ConnectionAssumption DEF PostUnknown
    <2>7. CASE UNCHANGED vars
      BY <2>2, <2>7 DEF vars, contextVars
    <2> QED
      BY <2>1, <2>2, <2>3, <2>4, <2>5, <2>6, <2>7 DEF Next, Dispatch
  <1> QED
    BY <1>0, <1>1 DEF Spoilt

(* The queue pair at the other end, and only it, answers.                   *)
LEMMA OppositeIs ==
  ASSUME LinkInv, Numbered, NEW e \in Endpoint, NEW q \in QPI, qp[e][q] = "RTS",
         NEW t \in Opposite(e, q)
  PROVE  t = <<Peer[e], q>>
  <1>1. t[1] \in Endpoint /\ t[2] \in QPI /\ t = <<t[1], t[2]>>
        /\ path[e][q].dest = local_rdma_info_[t[1]][t[2]].qpn
    BY DEF Opposite
  <1>2. path[e][q].dest = local_rdma_info_[Peer[e]][q].qpn
    BY DEF LinkInv, PairedInv, Paired
  <1>3. Peer[e] \in Endpoint
    BY ConnectionAssumption
  <1>4. path[e][q].dest[1] = Peer[e] /\ path[e][q].dest[2] = q
    BY <1>2, <1>3 DEF Numbered
  <1>5. path[e][q].dest[1] = t[1] /\ path[e][q].dest[2] = t[2]
    BY <1>1 DEF Numbered
  <1> QED
    BY <1>1, <1>4, <1>5

LEMMA OppositeAnswers ==
  ASSUME Mutual, LinkInv, NEW e \in Endpoint, NEW q \in QPI,
         qp[e][q] = "RTS", qp[Peer[e]][q] = "RTS"
  PROVE  <<Peer[e], q>> \in Opposite(e, q)
  <1>1. PICK f \in Endpoint : f = Peer[e] /\ Peer[f] = e
    BY ConnectionAssumption DEF Mutual
  <1>2. /\ path[e][q].dest = local_rdma_info_[f][q].qpn
        /\ path[f][q].dest = local_rdma_info_[e][q].qpn
        /\ path[f][q].rq_psn = local_rdma_info_[e][q].psn
        /\ path[e][q].sq_psn = local_rdma_info_[e][q].psn
    BY <1>1 DEF LinkInv, PairedInv, Paired
  <1>3. path[e][q].addr = PortAddr(f) /\ path[f][q].addr = PortAddr(e)
    BY <1>1 DEF LinkInv, PathInv, PathLeadsToPeer
  <1> QED
    BY <1>1, <1>2, <1>3 DEF Opposite

(* A step of the device that changes queue pairs changes those of the read, *)
(* and fails it; and a patient read fails on a spoilt queue pair only.      *)
LEMMA DeviceExplained ==
  ASSUME Mutual, LinkInv, TroubleInv, NEW r \in Read, Device(r)
  PROVE  /\ \A d \in Endpoint, p \in QPI :
              qp'[d][p] # qp[d][p] =>
                /\ d \in {At[r], Peer[At[r]]} /\ p = read[r].qpi
                /\ read'[r].st = "failed"
         /\ read'[r].st \in {"done", "failed"}
         /\ r \in Patient /\ read'[r].st = "failed" => Spoilt(At[r], read[r].qpi)
  <1>1. PICK e \in Endpoint, q \in QPI : e = At[r] /\ q = read[r].qpi
    BY ConnectionAssumption DEF LinkInv, TypeOK, TrafficTypeOK
  <1>2. /\ qp \in [Endpoint -> [QPI -> QpState]] /\ Peer[e] \in Endpoint
        /\ \A st : read' = [read EXCEPT ![r].st = st] => read'[r].st = st
    BY ConnectionAssumption DEF LinkInv, TypeOK, TrafficTypeOK
  <1>3. r \in Patient /\ read[r].st = "posted" => Spoilt(e, q) \/ Attended(r)
    BY <1>1 DEF TroubleInv, PatientInv
  <1>4. CASE Answer(r)
    <2>1. PICK t \in Opposite(e, q) :
            IF <<KeyOf[r], read[r].region>> \in regions[t[1]]
              THEN /\ read' = [read EXCEPT ![r].st = "done"]
                   /\ UNCHANGED qp
              ELSE /\ read' = [read EXCEPT ![r].st = "failed"]
                   /\ qp' = [qp EXCEPT ![t[1]][t[2]] = "ERR", ![e][q] = "ERR"]
      BY <1>1, <1>4 DEF Answer
    <2>2. qp[e][q] = "RTS" /\ read[r].st = "posted"
      BY <1>1, <1>4 DEF Answer, Posted
    <2>3. t[1] = Peer[e] /\ t[2] = q
      BY <2>1, <2>2, OppositeIs DEF TroubleInv
    <2>4. CASE <<KeyOf[r], read[r].region>> \in regions[Peer[e]]
      <3>1. read'[r].st = "done" /\ UNCHANGED qp
        BY <1>2, <2>1, <2>3, <2>4
      <3> QED
        BY <3>1
    <2>5. CASE <<KeyOf[r], read[r].region>> \notin regions[Peer[e]]
      <3>1. read'[r].st = "failed" /\ qp' = [qp EXCEPT ![Peer[e]][q] = "ERR", ![e][q] = "ERR"]
        BY <1>2, <2>1, <2>3, <2>5
      <3>2. \A d \in Endpoint, p \in QPI : qp'[d][p] # qp[d][p] => d \in {e, Peer[e]} /\ p = q
        BY <1>2, <3>1
      <3>3. ~Attended(r)
        BY <1>1, <2>2, <2>5 DEF Attended
      <3> QED
        BY <1>1, <1>3, <2>2, <3>1, <3>2, <3>3
    <2> QED
      BY <2>4, <2>5
  <1>5. CASE Timeout(r)
    <2>1. /\ qp[e][q] = "RTS" /\ read[r].st = "posted" /\ Opposite(e, q) = {}
          /\ read' = [read EXCEPT ![r].st = "failed"] /\ qp' = [qp EXCEPT ![e][q] = "ERR"]
      BY <1>1, <1>5 DEF Timeout, Posted
    <2>2. \A d \in Endpoint, p \in QPI : qp'[d][p] # qp[d][p] => d \in {e, Peer[e]} /\ p = q
      BY <1>2, <2>1
    <2>3. ~Attended(r)
      BY <1>1, <2>1, OppositeAnswers DEF Attended
    <2>4. read'[r].st = "failed" /\ (r \in Patient => Spoilt(e, q))
      BY <1>2, <1>3, <2>1, <2>3
    <2> QED
      BY <1>1, <2>2, <2>4
  <1>6. CASE Flush(r)
    <2>1. /\ qp[e][q] = "ERR" /\ read[r].st = "posted"
          /\ read' = [read EXCEPT ![r].st = "failed"] /\ UNCHANGED qp
      BY <1>1, <1>6 DEF Flush
    <2>2. ~Attended(r)
      BY <1>1, <2>1 DEF Attended
    <2> QED
      BY <1>1, <1>2, <1>3, <2>1, <2>2
  <1> QED
    BY <1>4, <1>5, <1>6 DEF Device

LEMMA ErrorsTraffic ==
  ASSUME Mutual, LinkInv, TroubleInv, NEW r \in Read, Submit(r) \/ Post(r) \/ Device(r)
  PROVE  ErrorsSpoil'
  <1>0. TypeOK /\ [Next]_vars
    BY DEF LinkInv, Next, Dispatch
  <1> SUFFICES ASSUME NEW d \in Endpoint, NEW p \in QPI, qp'[d][p] = "ERR"
               PROVE  Spoilt(d, p)'
    BY DEF ErrorsSpoil
  <1>1. CASE qp[d][p] = "ERR"
    <2>1. Spoilt(d, p)
      BY <1>1 DEF TroubleInv, ErrorsSpoil
    <2> QED
      BY <1>0, <2>1, SpoiltStays
  <1>2. CASE qp[d][p] # "ERR"
    <2>1. Device(r)
      BY <1>2 DEF Submit, Post
    <2>2. PICK e \in Endpoint : e = At[r] /\ Peer[Peer[e]] = e
      BY ConnectionAssumption DEF Mutual
    <2>3. /\ d \in {e, Peer[e]} /\ p = read[r].qpi /\ read'[r].st = "failed"
          /\ r \in Patient => Spoilt(e, p)
      BY <1>2, <2>1, <2>2, DeviceExplained
    <2>4. CASE r \in Patient
      <3>1. Spoilt(d, p)
        BY <2>3, <2>4, SpoiltBoth
      <3> QED
        BY <1>0, <3>1, SpoiltStays
    <2>5. CASE r \notin Patient
      <3>1. read'[r].qpi = p /\ e \in {d, Peer[d]}
        BY <1>0, <2>1, <2>2, <2>3, ReadFrame DEF Device, Answer, Timeout, Flush, Posted
      <3> QED
        BY <2>2, <2>3, <2>5, <3>1 DEF Spoilt
    <2> QED
      BY <2>4, <2>5
  <1> QED
    BY <1>1, <1>2

LEMMA PatientTraffic ==
  ASSUME Mutual, LinkInv, TroubleInv, NEW r \in Read, Submit(r) \/ Post(r) \/ Device(r)
  PROVE  PatientInv'
  <1>0. TypeOK /\ [Next]_vars /\ ErrorsSpoil'
    BY ErrorsTraffic DEF LinkInv, Next, Dispatch
  <1>1. /\ UNCHANGED <<remote_mrs_, regions>>
        /\ \A e \in Endpoint, q \in QPI : qp'[e][q] = qp[e][q] \/ qp'[e][q] = "ERR"
    BY <1>0, TrafficFrame DEF memoryVars, Errs
  <1> SUFFICES ASSUME NEW i \in Patient, read'[i].st # "new"
               PROVE  Spoilt(At[i], read[i].qpi)' \/ Attended(i)'
    BY DEF PatientInv
  <1>2. PICK e \in Endpoint, f \in Endpoint, p \in QPI, k \in Key :
          /\ e = At[i] /\ f = Peer[e] /\ e = Peer[f] /\ p = read'[i].qpi /\ k = KeyOf[i]
    <2>1. TypeOK'
      BY <1>0, TypeStep
    <2> QED
      BY <2>1, ConnectionAssumption DEF Mutual, TypeOK, TrafficTypeOK
  <1> SUFFICES ASSUME ~Spoilt(e, p)'
               PROVE  Attended(i)'
    BY <1>2 DEF Spoilt
  <1>3. ~Spoilt(e, p) /\ ~Spoilt(f, p)
    BY <1>0, <1>2, SpoiltStays, SpoiltBoth
  <1>4. ASSUME qp[e][p] = "RTS", qp[f][p] = "RTS"
        PROVE  qp'[e][p] = "RTS" /\ qp'[f][p] = "RTS"
    <2>1. ~Spoilt(f, p)'
      BY <1>2 DEF Spoilt
    <2>2. qp'[e][p] # "ERR" /\ qp'[f][p] # "ERR"
      BY <1>0, <2>1 DEF ErrorsSpoil
    <2> QED
      BY <1>1, <1>4, <2>2
  <1>5. ASSUME read[i].st # "new", read[i].qpi = p
        PROVE  Attended(i)
    BY <1>2, <1>3, <1>5 DEF TroubleInv, PatientInv
  <1>6. CASE i # r
    <2>1. read'[i] = read[i]
      BY <1>0, <1>6, ReadFrame, ConnectionAssumption
    <2>2. Attended(i)
      BY <1>2, <1>5, <2>1
    <2> QED
      BY <1>1, <1>2, <1>4, <2>1, <2>2 DEF Attended
  <1>7. CASE i = r /\ Submit(r)
    <2>1. /\ read'[i].st = "queued" /\ Established(e) /\ Established(f) /\ remote_mrs_[e][k] # 0
          /\ UNCHANGED qp
      BY <1>0, <1>2, <1>7 DEF Submit, MayRead, TypeOK, TrafficTypeOK
    <2>2. qp[e][p] = "RTS" /\ qp[f][p] = "RTS"
      BY <1>3, <2>1 DEF Established, Ready, TroubleInv, ErrorsSpoil
    <2> QED
      BY <1>1, <1>2, <2>1, <2>2 DEF Attended
  <1>8. CASE i = r /\ Post(r)
    <2>1. /\ read[i].st = "queued" /\ read'[i].qpi = read[i].qpi
          /\ read'[i].st = IF qp[e][read[i].qpi] \in Ready THEN "posted" ELSE "lost"
          /\ read'[i].region = remote_mrs_[e][k] /\ UNCHANGED qp
      BY <1>0, <1>2, <1>8 DEF Post, TypeOK, TrafficTypeOK
    <2>2. Attended(i) /\ read[i].qpi = p
      BY <1>2, <1>5, <2>1
    <2>3. qp[e][p] = "RTS" /\ qp[f][p] = "RTS" /\ remote_mrs_[e][k] # 0
      BY <1>2, <2>2 DEF Attended
    <2>4. <<k, remote_mrs_[e][k]>> \in regions[f]
      BY <1>2, <2>3 DEF LinkInv, RegionsInv, RemoteRegionsServed
    <2> QED
      BY <1>1, <1>2, <2>1, <2>2, <2>3, <2>4 DEF Attended, Ready
  <1>9. CASE i = r /\ Device(r)
    <2>1. read[i].st = "posted" /\ read'[i].qpi = read[i].qpi
      BY <1>0, <1>9, ReadFrame DEF Device, Answer, Timeout, Flush, Posted
    <2>2. Attended(i) /\ read[i].qpi = p
      BY <1>2, <1>5, <2>1
    <2>3. read'[i].st = "done"
      BY <1>2, <1>3, <1>9, <2>2, DeviceExplained
    <2> QED
      BY <1>1, <1>2, <1>4, <2>2, <2>3 DEF Attended
  <1> QED
    BY <1>6, <1>7, <1>8, <1>9

(* Every other step leaves the queue pairs of a read in progress alone, or  *)
(* ends a process.                                                          *)
LEMMA TroubleFrame ==
  ASSUME Mutual, LinkInv, TroubleInv, [Next]_vars,
         \A i \in Read : read'[i] = read[i] \/ ~alive'[At[i]],
         \A d \in Endpoint, p \in QPI : qp'[d][p] = "ERR" => qp[d][p] = "ERR",
         \A d \in Endpoint, p \in QPI : qp[d][p] = "RTS" => qp'[d][p] = "RTS" \/ ~alive'[d],
         \A d \in Endpoint : regions[d] \subseteq regions'[d],
         \A d \in Endpoint, k \in Key, q \in QPI :
           remote_mrs_[d][k] # 0 /\ qp[d][q] = "RTS" => remote_mrs_'[d][k] # 0
  PROVE  ErrorsSpoil' /\ PatientInv'
  <1>0. TypeOK
    BY DEF LinkInv
  <1>1. ErrorsSpoil'
    BY <1>0, SpoiltStays DEF TroubleInv, ErrorsSpoil
  <1>2. PatientInv'
    <2> SUFFICES ASSUME NEW i \in Patient, read'[i].st # "new", ~Spoilt(At[i], read[i].qpi)'
                 PROVE  Attended(i)'
      BY DEF PatientInv
    <2>1. PICK e \in Endpoint, f \in Endpoint, k \in Key : e = At[i] /\ f = Peer[e] /\ k = KeyOf[i]
      BY ConnectionAssumption
    <2>2. alive'[e] /\ alive'[f]
      BY <2>1 DEF Spoilt
    <2>3. PICK p \in QPI : p = read[i].qpi
      BY <1>0, ConnectionAssumption DEF TypeOK, TrafficTypeOK
    <2>4. read'[i] = read[i]
      BY <2>1, <2>2, ConnectionAssumption
    <2>5. ~Spoilt(e, p)
      BY <1>0, <2>1, <2>3, <2>4, SpoiltStays
    <2>6. Attended(i)
      BY <2>1, <2>3, <2>4, <2>5 DEF TroubleInv, PatientInv
    <2>7. qp[e][p] = "RTS" /\ qp[f][p] = "RTS" /\ remote_mrs_[e][k] # 0
      BY <2>1, <2>3, <2>6 DEF Attended
    <2>8. qp'[e][p] = "RTS" /\ qp'[f][p] = "RTS" /\ remote_mrs_'[e][k] # 0
      BY <2>2, <2>7
    <2> QED
      BY <2>1, <2>3, <2>4, <2>6, <2>8 DEF Attended
  <1> QED
    BY <1>1, <1>2

LEMMA TroubleDie ==
  ASSUME Mutual, LinkInv, TroubleInv, [Next]_vars, NEW d \in Endpoint, Die(d)
  PROVE  ErrorsSpoil' /\ PatientInv'
  <1>0. TypeOK
    BY DEF LinkInv
  <1>1. \A i \in Read : read'[i] = read[i] \/ ~alive'[At[i]]
    BY <1>0 DEF Die, TypeOK, ContextTypeOK, TrafficTypeOK
  <1>2. UNCHANGED <<remote_mrs_, regions>>
    BY DEF Die, memoryVars
  <1>3. \A e \in Endpoint, q \in QPI :
          /\ qp'[e][q] = "ERR" => qp[e][q] = "ERR"
          /\ qp[e][q] = "RTS" => qp'[e][q] = "RTS" \/ ~alive'[e]
    BY <1>0, DieFrame
  <1> QED
    BY <1>1, <1>2, <1>3, TroubleFrame

LEMMA TroubleSetup ==
  ASSUME Mutual, LinkInv, TroubleInv, [Next]_vars, NEW d \in Endpoint, Setup(d)
  PROVE  ErrorsSpoil' /\ PatientInv'
  <1>0. TypeOK /\ PairedInv /\ Peer[d] \in Endpoint
    BY ConnectionAssumption DEF LinkInv
  <1>1. CASE InitContext(d) \/ InitFails(d)
    <2>1. /\ ~initialized_[d] /\ UNCHANGED <<regions, read>>
          /\ \A e \in Endpoint \ {d} : qp'[e] = qp[e] /\ remote_mrs_'[e] = remote_mrs_[e]
          /\ \A q \in QPI : qp'[d][q] \in {"RESET", "INIT", qp[d][q]}
      BY <1>0, <1>1, InitFrame DEF InitContext, InitFails
    <2>2. \A q \in QPI : qp[d][q] # "RTS"
      BY <1>0, <2>1 DEF PairedInv, BothInitialized, Given
    <2>3. \A e \in Endpoint, q \in QPI :
            /\ qp'[e][q] = "ERR" => qp[e][q] = "ERR"
            /\ qp[e][q] = "RTS" => qp'[e][q] = "RTS" /\ remote_mrs_'[e] = remote_mrs_[e]
      BY <2>1, <2>2
    <2> QED
      BY <2>1, <2>3, TroubleFrame
  <1>2. ASSUME UNCHANGED <<read, qp>>,
               \A e \in Endpoint : regions[e] \subseteq regions'[e],
               \A e \in Endpoint, k \in Key : remote_mrs_[e][k] # 0 => remote_mrs_'[e][k] # 0
        PROVE  ErrorsSpoil' /\ PatientInv'
    BY <1>2, TroubleFrame
  <1>3. CASE EndpointInfo(d)
    BY <1>2, <1>3 DEF EndpointInfo, memoryVars
  <1>4. ASSUME NEW k \in Key, RegisterMr(d, k)
        PROVE  ErrorsSpoil' /\ PatientInv'
    <2>1. UNCHANGED <<read, qp, remote_mrs_>>
      BY <1>4 DEF RegisterMr
    <2>2. \A e \in Endpoint : regions[e] \subseteq regions'[e]
      BY <1>0, <1>4 DEF RegisterMr, TypeOK, MemoryTypeOK
    <2> QED
      BY <1>2, <2>1, <2>2
  <1>5. ASSUME NEW k \in Key, RegisterRemoteMr(d, k)
        PROVE  ErrorsSpoil' /\ PatientInv'
    <2>1. UNCHANGED <<read, qp, regions>>
      BY <1>5 DEF RegisterRemoteMr
    <2>2. \A e \in Endpoint, i \in Key : remote_mrs_[e][i] # 0 => remote_mrs_'[e][i] # 0
      BY <1>0, <1>5 DEF RegisterRemoteMr, TypeOK, MemoryTypeOK, Mrs
    <2> QED
      BY <1>2, <2>1, <2>2
  <1>6. CASE ConnectBegin(d)
    <2>1. UNCHANGED <<read, qp, regions>>
      BY <1>6 DEF ConnectBegin
    <2>2. \A e \in Endpoint, i \in Key : remote_mrs_[e][i] # 0 => remote_mrs_'[e][i] # 0
      BY <1>0, <1>6 DEF ConnectBegin, TypeOK, MemoryTypeOK, Mrs
    <2> QED
      BY <1>2, <2>1, <2>2
  <1>7. CASE ConnectAgain(d) \/ Crash(d)
    BY <1>7, TroubleDie DEF ConnectAgain, Crash
  <1> QED
    BY <1>1, <1>3, <1>4, <1>5, <1>6, <1>7 DEF Setup

LEMMA TroubleConnectStep ==
  ASSUME Mutual, LinkInv, TroubleInv, [Next]_vars, NEW d \in Endpoint, ConnectStep(d)
  PROVE  ErrorsSpoil' /\ PatientInv'
  <1>0. TypeOK /\ conn[d].qpi \in QPI /\ qp \in [Endpoint -> [QPI -> QpState]]
    BY DEF LinkInv, TypeOK, ContextTypeOK, TrafficTypeOK
  <1>1. UNCHANGED <<read, remote_mrs_, regions>>
    BY DEF ConnectStep, ConnectRtr, ConnectRts, Launch, memoryVars
  <1>2. PICK p \in QPI : p = conn[d].qpi
    BY <1>0
  <1>3. \/ UNCHANGED qp
        \/ qp[d][p] \in {"INIT", "RTR"} /\ \E s \in {"RTR", "RTS"} : qp' = [qp EXCEPT ![d][p] = s]
    BY <1>2 DEF ConnectStep, ConnectRtr, ConnectRts, Launch, MayEnterRtr
  <1>4. \A e \in Endpoint, q \in QPI :
          /\ qp'[e][q] = "ERR" => qp[e][q] = "ERR"
          /\ qp[e][q] = "RTS" => qp'[e][q] = "RTS"
    BY <1>0, <1>3
  <1> QED
    BY <1>1, <1>4, TroubleFrame

LEMMA NumberedStep == TypeOK /\ Numbered /\ [Next]_vars => Numbered'
  <1> SUFFICES ASSUME TypeOK, Numbered, [Next]_vars PROVE Numbered'
    OBVIOUS
  <1>1. ASSUME UNCHANGED local_rdma_info_
        PROVE  Numbered'
    BY <1>1 DEF Numbered
  <1>2. ASSUME NEW d \in Endpoint, InitContext(d) \/ InitFails(d)
        PROVE  Numbered'
    <2>1. /\ \A e \in Endpoint \ {d} : local_rdma_info_'[e] = local_rdma_info_[e]
          /\ \A q \in QPI : \/ local_rdma_info_'[d][q] = local_rdma_info_[d][q]
                            \/ /\ local_rdma_info_'[d][q].qpn[1] = d
                               /\ local_rdma_info_'[d][q].qpn[2] = q
      BY <1>2, InitFrame
    <2> QED
      BY <2>1 DEF Numbered
  <1>3. ASSUME NEW d \in Endpoint, Setup(d), ~InitContext(d), ~InitFails(d)
        PROVE  UNCHANGED local_rdma_info_
    BY <1>3 DEF Setup, EndpointInfo, RegisterMr, RegisterRemoteMr, ConnectBegin, ConnectAgain,
                Crash, Die, infoVars
  <1>4. ASSUME NEW d \in Endpoint, ConnectStep(d)
        PROVE  UNCHANGED local_rdma_info_
    BY <1>4 DEF ConnectStep, ConnectRtr, ConnectRts, Launch, infoVars
  <1>5. ASSUME NEW r \in Read, Submit(r) \/ Dispatch(r) \/ Device(r)
        PROVE  UNCHANGED local_rdma_info_
    BY <1>5 DEF Submit, Dispatch, Post, PostUnknown, Die, Device, Answer, Timeout, Flush, infoVars
  <1>6. CASE UNCHANGED vars
    BY <1>1, <1>6 DEF vars, infoVars
  <1> QED
    BY <1>1, <1>2, <1>3, <1>4, <1>5, <1>6 DEF Next

LEMMA TroubleStep == Mutual /\ LinkInv /\ TroubleInv /\ [Next]_vars => TroubleInv'
  <1> SUFFICES ASSUME Mutual, LinkInv, TroubleInv, [Next]_vars PROVE TroubleInv'
    OBVIOUS
  <1>1. Numbered'
    BY NumberedStep DEF LinkInv, TroubleInv
  <1>2. CASE UNCHANGED vars
    <2>1. UNCHANGED <<read, qp, regions, remote_mrs_>>
      BY <1>2 DEF vars, memoryVars
    <2>2. ErrorsSpoil' /\ PatientInv'
      BY <2>1, TroubleFrame
    <2> QED
      BY <1>1, <2>2 DEF TroubleInv
  <1>3. ASSUME NEW r \in Read, PostUnknown(r)
        PROVE  ErrorsSpoil' /\ PatientInv'
    BY <1>3, TroubleDie, ConnectionAssumption DEF PostUnknown
  <1>4. ASSUME NEW r \in Read, Submit(r) \/ Post(r) \/ Device(r)
        PROVE  ErrorsSpoil' /\ PatientInv'
    BY <1>4, ErrorsTraffic, PatientTraffic
  <1>5. ASSUME NEW d \in Endpoint, Setup(d) \/ ConnectStep(d)
        PROVE  ErrorsSpoil' /\ PatientInv'
    BY <1>5, TroubleSetup, TroubleConnectStep
  <1>6. CASE Next
    <2>1. ErrorsSpoil' /\ PatientInv'
      BY <1>3, <1>4, <1>5, <1>6 DEF Next, Dispatch
    <2> QED
      BY <1>1, <2>1 DEF TroubleInv
  <1> QED
    BY <1>2, <1>6

(* On RoCE and port 1, a read whose caller has waited until both ends were  *)
(* connected and the region was known never fails and is never lost, on any *)
(* queue pair, whatever init, connect and registrations went before, unless *)
(* a process dies or a read whose caller did not wait has failed on that    *)
(* queue pair (the safety part of PatientReadsSucceed).                     *)
THEOREM PatientReadsAreSafe ==
  ASSUME OnRoCE, Mutual PROVE Spec => []PatientReadsNeverFail
  <1>1. Init => PathInv
    BY DEF Init, PathInv, GidTrue, PathLeadsToPeer, Unset, Describe, PortAddr, OnRoCE
  <1>2. TypeOK /\ PairedInv /\ PathInv /\ [Next]_vars => PathInv'
    BY PathStep
  <1>3. Init => RegionsInv
    BY ConnectionAssumption DEF Init, RegionsInv, NamedServed, RemoteRegionsServed, NoMr
  <1>4. Init => TroubleInv
    <2> SUFFICES ASSUME Init PROVE TroubleInv
      OBVIOUS
    <2>1. Numbered
      BY DEF Init, Numbered, Unset, Describe
    <2>2. ErrorsSpoil /\ PatientInv
      BY ConnectionAssumption DEF Init, ErrorsSpoil, PatientInv
    <2> QED
      BY <2>1, <2>2 DEF TroubleInv
  <1>5. TypeOK /\ PairedInv /\ PathInv /\ RegionsInv /\ TroubleInv /\ [Next]_vars => TroubleInv'
    BY TroubleStep DEF LinkInv
  <1>6. TroubleInv => PatientReadsNeverFail
    BY DEF TroubleInv, PatientInv, PatientReadsNeverFail, Attended
  <1> QED
    BY <1>1, <1>2, <1>3, <1>4, <1>5, <1>6, RegionsStep, ConnectionTypes, PairedInvariance, PTL DEF Spec
=============================================================================
