---------------------------- MODULE RDMAConnection ----------------------------
(***************************************************************************)
(* How RDMAContexts become connected (csrc/engine/rdma/rdma_context.cpp,    *)
(* memory_pool.cpp): each end runs init, registers memory, describes itself *)
(* with endpoint_info, is handed its peer's description by some channel of  *)
(* the caller's, and runs connect and launch_future.  Nothing in the code   *)
(* orders the two ends, and reads may start at one end at any time.         *)
(*                                                                         *)
(* A read is here one submit(READ, ...) of one Assignment; how requests are *)
(* queued, split and completed is the subject of RDMAContext.               *)
(***************************************************************************)
EXTENDS Integers, FiniteSets

CONSTANTS
  Endpoint,     \* the contexts
  Peer,         \* Endpoint -> the context whose description it is given
  QpListLen,    \* qp_list_len_
  Psn,          \* what lrand48() may return
  LinkLayer,    \* "Ethernet" (RoCE) or "InfiniBand"
  IbPort,       \* Endpoint -> the ib_port passed to init
  Key,          \* names of memory regions
  MaxMr,        \* bound: registrations of one key at one endpoint
  MaxInit,      \* bound: calls of init at one endpoint that create queue pairs
  Read,         \* the reads that callers make
  At,           \* Read -> the endpoint that reads
  KeyOf,        \* Read -> the region it names
  Patient,      \* the reads whose callers wait until both ends are connected
  Faults        \* see FaultKind

(***************************************************************************)
(*   "init"       ibv_create_qp may fail                                    *)
(*   "modify"     ibv_modify_qp or ibv_req_notify_cq may fail               *)
(*   "reconnect"  a caller may call connect on a connected context          *)
(*   "crash"      a process may die                                         *)
(***************************************************************************)
FaultKind == {"init", "modify", "reconnect", "crash"}

ASSUME ConnectionAssumption ==
  /\ Peer \in [Endpoint -> Endpoint]
  /\ QpListLen \in Nat \ {0}
  /\ Psn # {}
  /\ LinkLayer \in {"Ethernet", "InfiniBand"}
  /\ IbPort \in [Endpoint -> Nat]
  /\ MaxMr \in Nat /\ MaxInit \in Nat
  /\ At \in [Read -> Endpoint] /\ KeyOf \in [Read -> Key]
  /\ Patient \subseteq Read
  /\ Faults \subseteq FaultKind

QPI == 0 .. (QpListLen - 1)

VARIABLES
  alive,              \* Endpoint -> is its process running
  initialized_,       \* Endpoint -> BOOLEAN
  connected_,         \* Endpoint -> BOOLEAN
  running,            \* Endpoint -> are its threads past their first test
  conn,               \* Endpoint -> where it is in connect()
  given,              \* Endpoint -> rdma_info in the argument of connect()
  inits,              \* Endpoint -> how often its queue pairs were created
  local_rdma_info_,   \* Endpoint -> QPI -> its description
  mrs_,               \* Endpoint -> Key -> registration named, 0 if none
  remote_mrs_,        \* Endpoint -> Key -> the peer's registration, 0 if none
  offers,             \* Endpoint -> every endpoint_info it has given away
  read,               \* Read -> what became of it
  qp,                 \* device: Endpoint -> QPI -> state of the queue pair
  path,               \* device: Endpoint -> QPI -> attributes connect gave it
  regions             \* device: Endpoint -> registrations ever made

contextVars == <<alive, initialized_, connected_, running, conn, given>>
infoVars    == <<inits, local_rdma_info_, offers>>
memoryVars  == <<mrs_, remote_mrs_, regions>>
vars        == <<contextVars, infoVars, memoryVars, read, qp, path>>

-----------------------------------------------------------------------------
(* Addresses.  A port has one address of either kind; a queue pair number   *)
(* belongs to one queue pair.                                               *)

PortAddr(e) == <<e, IbPort[e]>>

AnyPsn == CHOOSE p \in Psn : TRUE

Qpn  == Endpoint \X QPI \X Nat
Addr == Endpoint \X Nat

Info == [qpn : Qpn, psn : Psn, lid : Addr, gid : Addr]
Path == [dest : Qpn, rq_psn : Psn, sq_psn : Psn, addr : Addr]

(* The description init writes: the lid is that of the port it was asked    *)
(* for, the gid is queried at port 1.                                       *)
Describe(e, q, n, psn) ==
  [qpn |-> <<e, q, n>>, psn |-> psn, lid |-> PortAddr(e), gid |-> <<e, 1>>]

(* Mutant of Destination: the gid of this end.                              *)
OwnAddress(local, remote) ==
  IF LinkLayer = "InfiniBand" THEN remote.lid ELSE local.gid

(* The address connect puts into the address vector.                        *)
Destination(local, remote) ==
  IF LinkLayer = "InfiniBand" THEN local.lid ELSE remote.gid

NoMr == [k \in Key |-> 0]

(* Before init a description holds nothing that anybody is told.            *)
Unset(e) == [q \in QPI |-> Describe(e, q, 0, AnyPsn)]

NoPath(e) ==
  [q \in QPI |->
     [dest |-> <<e, q, 0>>, rq_psn |-> AnyPsn, sq_psn |-> AnyPsn, addr |-> <<e, 1>>]]

Init ==
  /\ alive = [e \in Endpoint |-> TRUE]
  /\ initialized_ = [e \in Endpoint |-> FALSE]
  /\ connected_ = [e \in Endpoint |-> FALSE]
  /\ running = [e \in Endpoint |-> FALSE]
  /\ conn = [e \in Endpoint |-> [pc |-> "idle", qpi |-> 0]]
  /\ given = [e \in Endpoint |-> Unset(Peer[e])]
  /\ inits = [e \in Endpoint |-> 0]
  /\ local_rdma_info_ = [e \in Endpoint |-> Unset(e)]
  /\ mrs_ = [e \in Endpoint |-> NoMr]
  /\ remote_mrs_ = [e \in Endpoint |-> NoMr]
  /\ offers = [e \in Endpoint |-> {}]
  /\ read = [r \in Read |-> [st |-> "new", qpi |-> 0, region |-> 0]]
  /\ qp = [e \in Endpoint |-> [q \in QPI |-> "NONE"]]
  /\ path = [e \in Endpoint |-> NoPath(e)]
  /\ regions = [e \in Endpoint |-> {}]

-----------------------------------------------------------------------------
(* init().                                                                  *)

(* Fresh queue pairs for the indices in created, each with a psn.           *)
NewQueuePairs(e, created) ==
  /\ inits[e] < MaxInit
  /\ inits' = [inits EXCEPT ![e] = @ + 1]
  /\ \E psn \in [QPI -> Psn] :
       local_rdma_info_' = [local_rdma_info_ EXCEPT ![e] =
         [q \in QPI |-> IF q \in created THEN Describe(e, q, inits[e] + 1, psn[q]) ELSE @[q]]]
  /\ \E state \in [QPI -> IF "modify" \in Faults THEN {"RESET", "INIT"} ELSE {"INIT"}] :
       qp' = [qp EXCEPT ![e] = [q \in QPI |-> IF q \in created THEN state[q] ELSE @[q]]]
  /\ mrs_' = [mrs_ EXCEPT ![e] = NoMr]
  /\ remote_mrs_' = [remote_mrs_ EXCEPT ![e] = NoMr]

(* Mutant of InitContext: without the test of initialized_.                 *)
InitTwice(e) ==
  /\ alive[e]
  /\ NewQueuePairs(e, QPI)
  /\ initialized_' = [initialized_ EXCEPT ![e] = TRUE]
  /\ UNCHANGED <<alive, connected_, running, conn, given, offers, regions, read, path>>

(* A queue pair that cannot be moved to INIT is only logged.                *)
InitContext(e) ==
  /\ alive[e] /\ ~initialized_[e]
  /\ NewQueuePairs(e, QPI)
  /\ initialized_' = [initialized_ EXCEPT ![e] = TRUE]
  /\ UNCHANGED <<alive, connected_, running, conn, given, offers, regions, read, path>>

(* ibv_create_qp returns NULL for queue pair q; init may be called again.   *)
InitFails(e) ==
  /\ alive[e] /\ ~initialized_[e] /\ "init" \in Faults
  /\ \E q \in QPI : NewQueuePairs(e, 0 .. (q - 1))
  /\ UNCHANGED <<contextVars, offers, regions, read, path>>

-----------------------------------------------------------------------------
(* Memory, and what the ends tell each other.  Callers do all of this only  *)
(* with a context whose init returned 0.                                    *)

(* Mutant of RegisterMr: goes on when ibv_reg_mr has returned nothing.      *)
RegisterMrUnchecked(e, k) ==
  /\ alive[e] /\ initialized_[e] /\ conn[e].pc = "idle"
  /\ mrs_[e][k] < MaxMr
  /\ mrs_' = [mrs_ EXCEPT ![e][k] = @ + 1]
  /\ regions' \in {regions, [regions EXCEPT ![e] = @ \union {<<k, mrs_[e][k] + 1>>}]}
  /\ UNCHANGED <<contextVars, infoVars, remote_mrs_, read, qp, path>>

(* A key registered again names the new region; the old one stays           *)
(* registered with the device, since nothing deregisters it.                *)
RegisterMr(e, k) ==
  /\ alive[e] /\ initialized_[e] /\ conn[e].pc = "idle"
  /\ mrs_[e][k] < MaxMr
  /\ mrs_' = [mrs_ EXCEPT ![e][k] = @ + 1]
  /\ regions' = [regions EXCEPT ![e] = @ \union {<<k, mrs_[e][k] + 1>>}]
  /\ UNCHANGED <<contextVars, infoVars, remote_mrs_, read, qp, path>>

EndpointInfo(e) ==
  /\ alive[e] /\ initialized_[e] /\ conn[e].pc = "idle"
  /\ offers' = [offers EXCEPT ![e] =
       @ \union {[rdma |-> local_rdma_info_[e], mrs |-> mrs_[e]]}]
  /\ UNCHANGED <<contextVars, inits, local_rdma_info_, memoryVars, read, qp, path>>

(* register_remote_memory_region for one key of a description, new or old.  *)
RegisterRemoteMr(e, k) ==
  /\ alive[e] /\ initialized_[e] /\ conn[e].pc = "idle"
  /\ \E o \in offers[Peer[e]] :
       /\ o.mrs[k] # 0
       /\ remote_mrs_' = [remote_mrs_ EXCEPT ![e][k] = o.mrs[k]]
  /\ UNCHANGED <<contextVars, infoVars, mrs_, regions, read, qp, path>>

-----------------------------------------------------------------------------
(* The end of a process: a crash, an abort(), a null pointer read.          *)

Die(e) ==
  /\ alive' = [alive EXCEPT ![e] = FALSE]
  /\ running' = [running EXCEPT ![e] = FALSE]
  /\ conn' = [conn EXCEPT ![e] = [pc |-> "idle", qpi |-> 0]]
  /\ qp' = [qp EXCEPT ![e] = [q \in QPI |-> "NONE"]]
  /\ read' = [r \in Read |->
       IF At[r] = e /\ read[r].st \in {"queued", "posted"}
         THEN [read[r] EXCEPT !.st = "gone"] ELSE read[r]]
  /\ UNCHANGED <<initialized_, connected_, given, infoVars, memoryVars, path>>

Crash(e) == alive[e] /\ "crash" \in Faults /\ Die(e)

-----------------------------------------------------------------------------
(* connect() and launch_future().                                           *)

(* The regions of the description are merged before anything is tested.     *)
ConnectBegin(e) ==
  /\ alive[e] /\ initialized_[e] /\ conn[e].pc = "idle"
  /\ ~connected_[e]
  /\ \E o \in offers[Peer[e]] :
       /\ remote_mrs_' = [remote_mrs_ EXCEPT ![e] =
            [k \in Key |-> IF o.mrs[k] # 0 THEN o.mrs[k] ELSE @[k]]]
       /\ given' = [given EXCEPT ![e] = o.rdma]
  /\ conn' = [conn EXCEPT ![e] = [pc |-> "rtr", qpi |-> 0]]
  /\ UNCHANGED <<alive, initialized_, connected_, running, infoVars, mrs_, regions, read, qp, path>>

(* SLIME_ASSERT(!connected_) aborts the process.                            *)
ConnectAgain(e) ==
  /\ alive[e] /\ conn[e].pc = "idle"
  /\ connected_[e] /\ "reconnect" \in Faults
  /\ Die(e)

Return(e) == conn' = [conn EXCEPT ![e].pc = "returned"]

(* The device takes INIT -> RTR only, and an address vector for the port    *)
(* the queue pair was given in INIT; connect always names port 1.           *)
MayEnterRtr(e, q) == qp[e][q] = "INIT" /\ IbPort[e] = 1

(* Mutant of NewPath: every queue pair of this end to the peer's first.     *)
PathToFirst(e, q) ==
  [path[e][q] EXCEPT !.dest = given[e][0].qpn,
                     !.rq_psn = given[e][0].psn,
                     !.addr = Destination(local_rdma_info_[e][0], given[e][0])]

(* Mutant of NewPath: expects its own packet sequence numbers.              *)
PathOwnPsn(e, q) ==
  [path[e][q] EXCEPT !.dest = given[e][q].qpn,
                     !.rq_psn = local_rdma_info_[e][q].psn,
                     !.addr = Destination(local_rdma_info_[e][q], given[e][q])]

(* The attributes connect gives queue pair q.                               *)
NewPath(e, q) ==
  [path[e][q] EXCEPT !.dest = given[e][q].qpn,
                     !.rq_psn = given[e][q].psn,
                     !.addr = Destination(local_rdma_info_[e][q], given[e][q])]

ConnectRtr(e) ==
  LET q == conn[e].qpi IN
  /\ conn[e].pc = "rtr"
  /\ \/ /\ MayEnterRtr(e, q)
        /\ qp' = [qp EXCEPT ![e][q] = "RTR"]
        /\ path' = [path EXCEPT ![e][q] = NewPath(e, q)]
        /\ conn' = [conn EXCEPT ![e].pc = "rts"]
     \/ /\ ~MayEnterRtr(e, q) \/ "modify" \in Faults
        /\ Return(e)
        /\ UNCHANGED <<qp, path>>
  /\ UNCHANGED <<alive, initialized_, connected_, running, given, infoVars, memoryVars, read>>

(* Mutant of NextQueuePair: one queue pair too many.                        *)
PastTheEnd(e, q) == conn' = [conn EXCEPT ![e] = [pc |-> "rtr", qpi |-> q + 1]]

NextQueuePair(e, q) ==
  IF q + 1 \in QPI
    THEN conn' = [conn EXCEPT ![e] = [pc |-> "rtr", qpi |-> q + 1]]
    ELSE Return(e)

(* Mutant of ConnectRts: returns after the first queue pair.                *)
ConnectRtsOnce(e) ==
  LET q == conn[e].qpi IN
  /\ conn[e].pc = "rts"
  /\ qp[e][q] = "RTR"
  /\ qp' = [qp EXCEPT ![e][q] = "RTS"]
  /\ path' = [path EXCEPT ![e][q].sq_psn = local_rdma_info_[e][q].psn]
  /\ connected_' = [connected_ EXCEPT ![e] = TRUE]
  /\ Return(e)
  /\ UNCHANGED <<alive, initialized_, running, given, infoVars, memoryVars, read>>

(* Mutant of ConnectRts: sets connected_ before the queue pair is modified. *)
ConnectRtsEager(e) ==
  LET q == conn[e].qpi IN
  /\ conn[e].pc = "rts"
  /\ connected_' = [connected_ EXCEPT ![e] = TRUE]
  /\ \/ /\ qp[e][q] = "RTR"
        /\ qp' = [qp EXCEPT ![e][q] = "RTS"]
        /\ path' = [path EXCEPT ![e][q].sq_psn = local_rdma_info_[e][q].psn]
        /\ NextQueuePair(e, q)
     \/ /\ qp[e][q] # "RTR" \/ "modify" \in Faults
        /\ Return(e)
        /\ UNCHANGED <<qp, path>>
  /\ UNCHANGED <<alive, initialized_, running, given, infoVars, memoryVars, read>>

(* connected_ is set once the first queue pair is ready.  RTR -> RTS fails  *)
(* if the peer's work request has meanwhile put the queue pair in error.    *)
ConnectRts(e) ==
  LET q == conn[e].qpi IN
  /\ conn[e].pc = "rts"
  /\ \/ /\ qp[e][q] = "RTR"
        /\ qp' = [qp EXCEPT ![e][q] = "RTS"]
        /\ path' = [path EXCEPT ![e][q].sq_psn = local_rdma_info_[e][q].psn]
        /\ connected_' = [connected_ EXCEPT ![e] = TRUE]
        /\ \/ NextQueuePair(e, q)
           \/ "modify" \in Faults /\ Return(e)
     \/ /\ qp[e][q] # "RTR" \/ "modify" \in Faults
        /\ Return(e)
        /\ UNCHANGED <<qp, path, connected_>>
  /\ UNCHANGED <<alive, initialized_, running, given, infoVars, memoryVars, read>>

(* Callers launch whatever connect returned; the threads leave at once if   *)
(* connected_ is false.                                                     *)
Launch(e) ==
  /\ conn[e].pc = "returned"
  /\ running' = [running EXCEPT ![e] = connected_[e]]
  /\ conn' = [conn EXCEPT ![e] = [pc |-> "idle", qpi |-> 0]]
  /\ UNCHANGED <<alive, initialized_, connected_, given, infoVars, memoryVars, read, qp, path>>

-----------------------------------------------------------------------------
(* Reads.                                                                   *)

Ready == {"RTS", "ERR"}

(* connect has returned 0.                                                  *)
Established(e) == conn[e].pc = "idle" /\ \A q \in QPI : qp[e][q] \in Ready

MayRead(r) ==
  LET e == At[r] IN
  /\ alive[e] /\ initialized_[e]
  /\ r \in Patient => /\ Established(e) /\ Established(Peer[e])
                      /\ mrs_[e][KeyOf[r]] # 0
                      /\ remote_mrs_[e][KeyOf[r]] # 0

(* submit: queued at the queue pair whose turn it is, here any.             *)
Submit(r) ==
  /\ read[r].st = "new" /\ MayRead(r)
  /\ \E q \in QPI : read' = [read EXCEPT ![r].st = "queued", ![r].qpi = q]
  /\ UNCHANGED <<contextVars, infoVars, memoryVars, qp, path>>

(* A key that is unknown here makes get_mr return nullptr, which is read.   *)
PostUnknown(r) ==
  LET e == At[r] IN
  /\ read[r].st = "queued" /\ running[e]
  /\ mrs_[e][KeyOf[r]] = 0
  /\ Die(e)

(* A key that is unknown as remote yields a region of all zeros.  A queue   *)
(* pair that is not ready takes no work request: no completion will come.   *)
Post(r) ==
  LET e == At[r] IN
  /\ read[r].st = "queued" /\ running[e]
  /\ mrs_[e][KeyOf[r]] # 0
  /\ read' = [read EXCEPT ![r].st = IF qp[e][read[r].qpi] \in Ready THEN "posted" ELSE "lost",
                          ![r].region = remote_mrs_[e][KeyOf[r]]]
  /\ UNCHANGED <<contextVars, infoVars, memoryVars, qp, path>>

(* The queue pairs that the work requests of queue pair q of e reach and    *)
(* whose answers reach it.                                                  *)
Opposite(e, q) ==
  {t \in Endpoint \X QPI : LET f == t[1]  i == t[2] IN
     /\ qp[f][i] \in {"RTR", "RTS"}
     /\ path[e][q].dest = local_rdma_info_[f][i].qpn
     /\ path[e][q].addr = PortAddr(f)
     /\ path[f][i].dest = local_rdma_info_[e][q].qpn
     /\ path[f][i].addr = PortAddr(e)
     /\ path[f][i].rq_psn = path[e][q].sq_psn}

Posted(r) == read[r].st = "posted" /\ qp[At[r]][read[r].qpi] = "RTS"

(* The responder serves a region it knows; otherwise both queue pairs go    *)
(* into the error state.                                                    *)
Answer(r) ==
  LET e == At[r]  q == read[r].qpi IN
  /\ Posted(r)
  /\ \E t \in Opposite(e, q) :
       IF <<KeyOf[r], read[r].region>> \in regions[t[1]]
         THEN /\ read' = [read EXCEPT ![r].st = "done"]
              /\ UNCHANGED qp
         ELSE /\ read' = [read EXCEPT ![r].st = "failed"]
              /\ qp' = [qp EXCEPT ![t[1]][t[2]] = "ERR", ![e][q] = "ERR"]
  /\ UNCHANGED <<contextVars, infoVars, memoryVars, path>>

(* Nobody answers: the retries of the device run out.                       *)
Timeout(r) ==
  LET e == At[r]  q == read[r].qpi IN
  /\ Posted(r) /\ Opposite(e, q) = {}
  /\ read' = [read EXCEPT ![r].st = "failed"]
  /\ qp' = [qp EXCEPT ![e][q] = "ERR"]
  /\ UNCHANGED <<contextVars, infoVars, memoryVars, path>>

Flush(r) ==
  /\ read[r].st = "posted" /\ qp[At[r]][read[r].qpi] = "ERR"
  /\ read' = [read EXCEPT ![r].st = "failed"]
  /\ UNCHANGED <<contextVars, infoVars, memoryVars, qp, path>>

-----------------------------------------------------------------------------
Setup(e) ==
  \/ InitContext(e) \/ InitFails(e)
  \/ EndpointInfo(e)
  \/ \E k \in Key : RegisterMr(e, k) \/ RegisterRemoteMr(e, k)
  \/ ConnectBegin(e) \/ ConnectAgain(e) \/ Crash(e)

(* What runs by itself once begun.                                          *)
ConnectStep(e) == ConnectRtr(e) \/ ConnectRts(e) \/ Launch(e)

Dispatch(r) == Post(r) \/ PostUnknown(r)
Device(r)   == Answer(r) \/ Timeout(r) \/ Flush(r)

Next ==
  \/ \E e \in Endpoint : Setup(e) \/ ConnectStep(e)
  \/ \E r \in Read : Submit(r) \/ Dispatch(r) \/ Device(r)

Spec == Init /\ [][Next]_vars

Fairness ==
  /\ \A e \in Endpoint : WF_vars(ConnectStep(e))
  /\ \A r \in Read : WF_vars(Dispatch(r)) /\ WF_vars(Device(r))

FairSpec == Spec /\ Fairness

-----------------------------------------------------------------------------
QpState == {"NONE", "RESET", "INIT", "RTR", "RTS", "ERR"}
Mrs     == [Key -> 0 .. MaxMr]
Offer   == [rdma : [QPI -> Info], mrs : Mrs]
ReadState == {"new", "queued", "posted", "done", "failed", "lost", "gone"}

ContextTypeOK ==
  /\ alive \in [Endpoint -> BOOLEAN]
  /\ initialized_ \in [Endpoint -> BOOLEAN]
  /\ connected_ \in [Endpoint -> BOOLEAN]
  /\ running \in [Endpoint -> BOOLEAN]
  /\ conn \in [Endpoint -> [pc : {"idle", "rtr", "rts", "returned"}, qpi : QPI]]
  /\ given \in [Endpoint -> [QPI -> Info]]

InfoTypeOK ==
  /\ inits \in [Endpoint -> 0 .. MaxInit]
  /\ local_rdma_info_ \in [Endpoint -> [QPI -> Info]]
  /\ offers \in [Endpoint -> SUBSET Offer]

MemoryTypeOK ==
  /\ mrs_ \in [Endpoint -> Mrs]
  /\ remote_mrs_ \in [Endpoint -> Mrs]
  /\ regions \in [Endpoint -> SUBSET (Key \X (1 .. MaxMr))]

TrafficTypeOK ==
  /\ read \in [Read -> [st : ReadState, qpi : QPI, region : 0 .. MaxMr]]
  /\ qp \in [Endpoint -> [QPI -> QpState]]
  /\ path \in [Endpoint -> [QPI -> Path]]

(* The types of all variables.                                              *)
TypeOK == ContextTypeOK /\ InfoTypeOK /\ MemoryTypeOK /\ TrafficTypeOK

(* Once a queue pair has been given a peer it is the peer's queue pair of   *)
(* the same index, for good, and each side starts at the packet sequence    *)
(* number the other expects (connect, :205-262; init refuses to run twice). *)
Paired ==
  \A e \in Endpoint, q \in QPI :
    /\ qp[e][q] \in {"RTR", "RTS", "ERR"} =>
         /\ path[e][q].dest = local_rdma_info_[Peer[e]][q].qpn
         /\ path[e][q].rq_psn = local_rdma_info_[Peer[e]][q].psn
    /\ qp[e][q] = "RTS" =>
         path[e][q].sq_psn = local_rdma_info_[e][q].psn

(* The address a queue pair sends to is that of the port which holds the    *)
(* peer's queue pair (connect, :221-240).                                   *)
PathLeadsToPeer ==
  \A e \in Endpoint, q \in QPI :
    qp[e][q] \in {"RTR", "RTS", "ERR"} => path[e][q].addr = PortAddr(Peer[e])

(* Every region that a context would name in a read is one its peer's       *)
(* device serves, whichever descriptions were merged, old or new            *)
(* (memory_pool.cpp:26, :32: nothing deregisters).                            *)
RemoteRegionsServed ==
  \A e \in Endpoint, k \in Key :
    remote_mrs_[e][k] # 0 => <<k, remote_mrs_[e][k]>> \in regions[Peer[e]]

(* Queue pairs become ready in order, and connected_ is set with the first  *)
(* one (connect, :268): through failures, repeated attempts and errors that *)
(* the peer's reads cause meanwhile, no thread runs on a context whose      *)
(* first queue pair, the one stop_future uses, never was ready.             *)
ReadyPrefix ==
  \A e \in Endpoint : alive[e] =>
    /\ connected_[e] => qp[e][0] \in Ready
    /\ qp[e][0] = "RTS" => connected_[e]
    /\ running[e] => connected_[e]
    /\ \A i, j \in QPI : i < j /\ qp[e][j] = "RTS" => qp[e][i] \in Ready

(* What connect leaves behind is final, also when it returned -1 half way:  *)
(* once connected_ is set and connect has returned, no call of either end   *)
(* and no read moves a queue pair, except into the error state (init and    *)
(* connect refuse a second run, :51, :204).                                 *)
ConnectionIsFinal ==
  [][\A e \in Endpoint, q \in QPI :
       connected_[e] /\ conn[e].pc = "idle" /\ alive'[e]
         => qp'[e][q] \in {qp[e][q], "ERR"}]_vars

(* No read of the peer has gone wrong, and with it taken a queue pair of e   *)
(* into error while connect was still at work on it.                        *)
Undisturbed(e) == \A i \in Read : At[i] = Peer[e] => read[i].st # "failed"

(* As long as the device takes what connect asks of it, a read that the     *)
(* threads can see is answered, with success or with an error, even if the  *)
(* peer has not connected, does not know the region or dies (connect readies *)
(* all queue pairs, :205-274; retry_cnt, :254).  A failed read of the peer  *)
(* can make connect return -1 half way; then this holds only if all queue   *)
(* pairs are ready, since connected_ is set and nothing comes back from the *)
(* others.                                                                  *)
EveryReadAnswered ==
  \A r \in Read :
    read[r].st = "queued" /\ running[At[r]] /\ (Undisturbed(At[r]) \/ Established(At[r]))
      ~> read[r].st \in {"done", "failed", "gone"}

(* A caller that waits for both ends and for the region succeeds on any      *)
(* queue pair, unless one of the two processes dies or the read of a caller *)
(* that did not wait has failed and taken its queue pairs into error.       *)
PatientReadsSucceed ==
  \A r \in Patient :
    read[r].st = "queued"
      ~> \/ read[r].st = "done"
         \/ ~alive[At[r]] \/ ~alive[Peer[At[r]]]
         \/ \E i \in Read \ Patient : read[i].st = "failed"
=============================================================================
