----------------------------- MODULE RDMAContext -----------------------------
(***************************************************************************)
(* The data path of one RDMAContext (csrc/engine/rdma/rdma_context.cpp)     *)
(* between connect and the end of stop_future: the client threads that call *)
(* submit and wait, one dispatcher thread per queue pair, the completion    *)
(* thread, the thread that calls stop_future, and the device behind them.   *)
(*                                                                         *)
(* A batch of Size[r] Assignments is one request r.  submit cuts it into    *)
(* pieces <<r, i>>; each piece is one RDMAAssignment with its own           *)
(* callback_info_t, and is posted as one chain of work requests.  A batch   *)
(* without Assignments, for which submit queues nothing and returns a null  *)
(* handle, is left out.                                                     *)
(***************************************************************************)
EXTENDS Integers, Sequences, FiniteSets

CONSTANTS
  Client,       \* threads that call submit() and wait()
  Request,      \* the calls of submit() that are made
  Size,         \* Request -> number of Assignments in the batch
  Op,           \* Request -> the OpCode
  Usage,        \* Request -> what the caller does with the returned handle
  QpListLen,    \* qp_list_len_
  MAX_SEND_WR,  \* rdma_config.h
  POLL_COUNT,   \* rdma_config.h
  Faults,       \* what the device, the allocator and the scheduler may do
  MayStop,      \* does some thread call stop_future()
  NULL          \* wr_id 0; no request

OpCode == {"READ", "SEND", "RECV"}

(***************************************************************************)
(* What a caller does with the shared_ptr that submit returns:              *)
(*   "wait"      no callback; wait(), then drop the handle (read_batch)      *)
(*   "hold"      no callback; wait(), keep the handle (the benchmarks)       *)
(*   "callback"  passes a callback and keeps the handle                      *)
(*   "release"   passes a callback that drops the handle                     *)
(*               (read_batch_with_callback)                                  *)
(*   "forget"    passes a callback and drops the handle at once              *)
(***************************************************************************)
Usages == {"wait", "hold", "callback", "release", "forget"}

(***************************************************************************)
(*   "wr"        a work request may complete with an error                  *)
(*   "post"      ibv_post_send / ibv_post_recv may return an error          *)
(*   "reuse"     a freed callback_info_t may be handed out again by new     *)
(*   "spurious"  a condition variable may wake without a notification       *)
(***************************************************************************)
FaultKind == {"wr", "post", "reuse", "spurious"}

ASSUME ConstantsAssumption ==
  /\ Request # {} /\ IsFiniteSet(Request)
  /\ NULL \notin Request
  /\ Size \in [Request -> Nat \ {0}]
  /\ Op \in [Request -> OpCode]
  /\ Usage \in [Request -> Usages]
  /\ QpListLen \in Nat \ {0}
  /\ MAX_SEND_WR \in Nat /\ MAX_SEND_WR >= 2
  /\ POLL_COUNT \in Nat \ {0}
  /\ Faults \subseteq FaultKind
  /\ MayStop \in BOOLEAN

-----------------------------------------------------------------------------
(* The split of a batch into pieces.                                        *)

Smaller(a, b) == IF a <= b THEN a ELSE b

QPI == 0 .. (QpListLen - 1)

SplitStep == MAX_SEND_WR \div 2

NumPieces(r) == (Size[r] + SplitStep - 1) \div SplitStep

Piece == UNION {{r} \X (1 .. NumPieces(r)) : r \in Request}

ASSUME NullAssumption == NULL \notin Piece

FirstOf(p) == (p[2] - 1) * SplitStep + 1

PieceSize(p) == Smaller(SplitStep, Size[p[1]] - (FirstOf(p) - 1))

(* Mutant of IsLast: the callback goes to the first piece of the split.     *)
IsFirst(p) == p[2] = 1

IsLast(p) == p[2] = NumPieces(p[1])

Pieces(r) == [i \in 1 .. NumPieces(r) |-> <<r, i>>]

(* The first n Assignments of a piece, each named by request and index.     *)
Items(p, n) == {<<p[1], e>> : e \in FirstOf(p) .. (FirstOf(p) + n - 1)}

Reads == {r \in Request : Op[r] = "READ"}

Waits(r) == Usage[r] \in {"wait", "hold"}

-----------------------------------------------------------------------------
VARIABLES
  last_qp_selection_,       \* round-robin cursor, a plain int shared by callers
  client,                   \* Client -> where it is in submit() / wait()
  unsent,                   \* requests not yet submitted
  held,                     \* requests whose handle the caller still holds
  assign_queue_,            \* QPI -> queued pieces
  outstanding_rdma_reads_,  \* QPI -> the flow-control counter
  wq,                       \* QPI -> where wq_dispatch_handle(qpi) is
  pushed,                   \* history: QPI -> every piece ever queued there
  record,                   \* memory: Piece -> the piece whose callback_info_t
                            \* was last made at the address of this piece's
  cqPc,                     \* where cq_poll_handle is
  wc,                       \* its local array of polled completions
  finished_,                \* Request -> times the request's callback_ ran
  code,                     \* Request -> the status it was last given
  stop_wq_future_,          \* QPI -> BOOLEAN
  stop_cq_future_,
  stopper,                  \* where stop_future() is
  sq,                       \* device: QPI -> posted chains not yet completed
  rq,                       \* device: QPI -> posted receives not yet completed
  qpState,                  \* device: QPI -> "RTS" or "ERR"
  moved,                    \* device: Assignments whose bytes have arrived
  cq,                       \* device: completion queue
  armed,                    \* device: does the next completion raise an event
  events                    \* device: events in the completion channel

clientVars == <<last_qp_selection_, client, unsent, held>>
queueVars  == <<assign_queue_, outstanding_rdma_reads_, wq, pushed, record>>
cqVars     == <<cqPc, wc, finished_, code>>
stopVars   == <<stop_wq_future_, stop_cq_future_, stopper>>
cqeVars    == <<cq, armed, events>>
hwVars     == <<sq, rq, qpState, moved, cq, armed, events>>
vars       == <<clientVars, queueVars, cqVars, stopVars, hwVars>>

Idle == [pc |-> "idle", req |-> NULL, qpi |-> -1]

(* A completion; info is NULL when the work request carried wr_id 0.        *)
Cqe == [info : Piece \union {NULL}, qpi : QPI, status : {"SUCCESS", "FAILED"}]

(* connect() has moved every queue pair to RTS and armed the queue.         *)
Init ==
  /\ last_qp_selection_ = -1
  /\ client = [t \in Client |-> Idle]
  /\ unsent = Request
  /\ held = {}
  /\ assign_queue_ = [q \in QPI |-> <<>>]
  /\ outstanding_rdma_reads_ = [q \in QPI |-> 0]
  /\ wq = [q \in QPI |-> "none"]
  /\ pushed = [q \in QPI |-> <<>>]
  /\ record = [p \in Piece |-> p]
  /\ cqPc = "none"
  /\ wc = <<>>
  /\ finished_ = [r \in Request |-> 0]
  /\ code = [r \in Request |-> "none"]
  /\ stop_wq_future_ = [q \in QPI |-> FALSE]
  /\ stop_cq_future_ = FALSE
  /\ stopper = [pc |-> "idle", qpi |-> 0]
  /\ sq = [q \in QPI |-> <<>>]
  /\ rq = [q \in QPI |-> 0]
  /\ qpState = [q \in QPI |-> "RTS"]
  /\ moved = {}
  /\ cq = <<>>
  /\ armed = TRUE
  /\ events = 0

(* launch_future: start the completion thread and every dispatcher.         *)
LaunchFuture ==
  /\ cqPc = "none"
  /\ cqPc' = "top"
  /\ wq' = [q \in QPI |-> "top"]
  /\ UNCHANGED <<clientVars, assign_queue_, outstanding_rdma_reads_, pushed, record,
                 wc, finished_, code, stopVars, hwVars>>

-----------------------------------------------------------------------------
(* The callback_info_t of a piece: made with its RDMAAssignment, freed with *)
(* it, while the chain posted for the piece still points to it.             *)

Sent(p) == \E q \in QPI : \E i \in DOMAIN pushed[q] : pushed[q][i] = p

(* It lives in the queue, or, for the last piece of a request, through the  *)
(* handle that submit returned.                                             *)
Live(p) ==
  \/ \E q \in QPI : \E i \in DOMAIN assign_queue_[q] : assign_queue_[q][i] = p
  \/ IsLast(p) /\ p[1] \in held

(* The records whose memory is free.                                        *)
Freed == {p \in Piece : Sent(p) /\ record[p] = p /\ ~Live(p)}

(* The records of request r are made: each at an address of its own, or at  *)
(* that of a freed record, where those who still point there now find it.   *)
Allocate(r) ==
  \/ UNCHANGED record
  \/ /\ "reuse" \in Faults
     /\ \E taken \in SUBSET Freed :
          \E heir \in [taken -> {r} \X (1 .. NumPieces(r))] :
            /\ \A a, b \in taken : heir[a] = heir[b] => a = b
            /\ record' = [p \in Piece |-> IF record[p] \in taken THEN heir[record[p]]
                                                               ELSE record[p]]

-----------------------------------------------------------------------------
(* Client threads.                                                          *)

(* The dispatcher keeps assign_queue_mutex_ from the test of its wait       *)
(* predicate until it parks or finds the queue empty; submit holds it only  *)
(* within SubmitPush.                                                       *)
Locked(q) == wq[q] \in {"pred", "park", "drain", "charge", "post", "pop"}

(* notify_one on has_runnable_event_: only a parked dispatcher hears it.    *)
Notified(q) == IF wq[q] = "parked" THEN [wq EXCEPT ![q] = "wake"] ELSE wq

(* select_qpi reads the cursor without a lock ...                           *)
SubmitSelect(t, r) ==
  /\ client[t].pc = "idle"
  /\ r \in unsent
  /\ unsent' = unsent \ {r}
  /\ client' = [client EXCEPT ![t] =
                  [pc |-> "store", req |-> r, qpi |-> last_qp_selection_]]
  /\ UNCHANGED <<last_qp_selection_, held, queueVars, cqVars, stopVars, hwVars>>

(* Mutant of NextQpi: no wrap-around.                                       *)
NextQpiUnwrapped(i) == i + 1

NextQpi(i) == (i + 1) % QpListLen

(* ... and stores its successor, which other callers may have overtaken.    *)
SubmitStore(t) ==
  LET next == NextQpi(client[t].qpi)
  IN /\ client[t].pc = "store"
     /\ last_qp_selection_' = next
     /\ client' = [client EXCEPT ![t].pc = "push", ![t].qpi = next]
     /\ UNCHANGED <<unsent, held, queueVars, cqVars, stopVars, hwVars>>

(* Under assign_queue_mutex_: queue every piece, notify, return the handle  *)
(* of the last one.                                                         *)
SubmitPush(t) ==
  LET r == client[t].req
      q == client[t].qpi
  IN /\ client[t].pc = "push"
     /\ ~Locked(q)
     /\ assign_queue_' = [assign_queue_ EXCEPT ![q] = @ \o Pieces(r)]
     /\ pushed' = [pushed EXCEPT ![q] = @ \o Pieces(r)]
     /\ Allocate(r)
     /\ wq' = Notified(q)
     /\ held' = IF Usage[r] = "forget" THEN held ELSE held \union {r}
     /\ client' = [client EXCEPT ![t] = IF Waits(r) THEN [@ EXCEPT !.pc = "wait"]
                                                    ELSE Idle]
     /\ UNCHANGED <<last_qp_selection_, unsent, outstanding_rdma_reads_,
                    cqVars, stopVars, hwVars>>

(* Mutant of WaitReturn: a condition-variable wait without its predicate.   *)
WaitReturnEarly(t) ==
  LET r == client[t].req
  IN /\ client[t].pc = "wait"
     /\ held' = IF Usage[r] = "wait" THEN held \ {r} ELSE held
     /\ client' = [client EXCEPT ![t] = Idle]
     /\ UNCHANGED <<last_qp_selection_, unsent, queueVars, cqVars, stopVars, hwVars>>

(* wait() returns; read_batch then lets go of the handle.                   *)
WaitReturn(t) ==
  LET r == client[t].req
  IN /\ client[t].pc = "wait"
     /\ finished_[r] > 0
     /\ held' = IF Usage[r] = "wait" THEN held \ {r} ELSE held
     /\ client' = [client EXCEPT ![t] = Idle]
     /\ UNCHANGED <<last_qp_selection_, unsent, queueVars, cqVars, stopVars, hwVars>>

-----------------------------------------------------------------------------
(* Dispatcher threads: wq_dispatch_handle.                                  *)

WqGoto(q, from, to) ==
  /\ wq[q] = from
  /\ wq' = [wq EXCEPT ![q] = to]

WqTop(q) ==
  /\ WqGoto(q, "top", IF stop_wq_future_[q] THEN "exit" ELSE "pred")
  /\ UNCHANGED <<assign_queue_, outstanding_rdma_reads_, pushed, record,
                 clientVars, cqVars, stopVars, hwVars>>

(* The wait predicate, and the stop test that follows it when it is true.   *)
WqPredicate(q) ==
  /\ WqGoto(q, "pred", IF stop_wq_future_[q] THEN "exit"
                       ELSE IF assign_queue_[q] # <<>> THEN "drain" ELSE "park")
  /\ UNCHANGED <<assign_queue_, outstanding_rdma_reads_, pushed, record,
                 clientVars, cqVars, stopVars, hwVars>>

(* The predicate was false: release the mutex and block.                    *)
WqPark(q) ==
  /\ WqGoto(q, "park", "parked")
  /\ UNCHANGED <<assign_queue_, outstanding_rdma_reads_, pushed, record,
                 clientVars, cqVars, stopVars, hwVars>>

WqWake(q) ==
  /\ WqGoto(q, "wake", "pred")
  /\ UNCHANGED <<assign_queue_, outstanding_rdma_reads_, pushed, record,
                 clientVars, cqVars, stopVars, hwVars>>

WqSpurious(q) ==
  /\ "spurious" \in Faults
  /\ WqGoto(q, "parked", "wake")
  /\ UNCHANGED <<assign_queue_, outstanding_rdma_reads_, pushed, record,
                 clientVars, cqVars, stopVars, hwVars>>

WqDrained(q) ==
  /\ assign_queue_[q] = <<>>
  /\ WqGoto(q, "drain", "top")
  /\ UNCHANGED <<assign_queue_, outstanding_rdma_reads_, pushed, record,
                 clientVars, cqVars, stopVars, hwVars>>

(* Mutant of HasRoom: off by one.                                           *)
HasRoomInclusive(q) ==
  PieceSize(Head(assign_queue_[q])) + outstanding_rdma_reads_[q] <= MAX_SEND_WR

Fits(q) ==
  PieceSize(Head(assign_queue_[q])) + outstanding_rdma_reads_[q] < MAX_SEND_WR

(* The sum is unsigned: a negative one is no room.                          *)
HasRoom(q) ==
  /\ PieceSize(Head(assign_queue_[q])) + outstanding_rdma_reads_[q] >= 0
  /\ Fits(q)

(* The front piece fits.  When it does not, the dispatcher sleeps and looks *)
(* again with the mutex held, which is no step here.                        *)
WqReserve(q) ==
  /\ assign_queue_[q] # <<>>
  /\ HasRoom(q)
  /\ WqGoto(q, "drain", "charge")
  /\ UNCHANGED <<assign_queue_, outstanding_rdma_reads_, pushed, record,
                 clientVars, cqVars, stopVars, hwVars>>

(* Mutant of WqCharge: a chain is counted as one work request.              *)
WqChargeOne(q) ==
  /\ WqGoto(q, "charge", "post")
  /\ outstanding_rdma_reads_' = [outstanding_rdma_reads_ EXCEPT ![q] = @ + 1]
  /\ UNCHANGED <<assign_queue_, pushed, record, clientVars, cqVars, stopVars, hwVars>>

(* outstanding_rdma_reads_.fetch_add(batch_size), before the post.          *)
WqCharge(q) ==
  /\ WqGoto(q, "charge", "post")
  /\ outstanding_rdma_reads_' =
       [outstanding_rdma_reads_ EXCEPT ![q] = @ + PieceSize(Head(assign_queue_[q]))]
  /\ UNCHANGED <<assign_queue_, pushed, record, clientVars, cqVars, stopVars, hwVars>>

(* ibv_post_send / ibv_post_recv.                                           *)
WqPost(q) ==
  LET p == Head(assign_queue_[q])
  IN /\ WqGoto(q, "post", "pop")
     /\ IF Op[p[1]] = "RECV"
          THEN rq' = [rq EXCEPT ![q] = @ + 1] /\ UNCHANGED sq
          ELSE sq' = [sq EXCEPT ![q] = Append(@, p)] /\ UNCHANGED rq
     /\ UNCHANGED <<assign_queue_, outstanding_rdma_reads_, pushed, record, clientVars,
                    cqVars, stopVars, qpState, moved, cqeVars>>

(* The post fails: the error is logged and nobody looks at the result.  The *)
(* chain is taken to be posted as a whole or not at all.                    *)
WqPostFails(q) ==
  /\ "post" \in Faults
  /\ WqGoto(q, "post", "pop")
  /\ UNCHANGED <<assign_queue_, outstanding_rdma_reads_, pushed, record,
                 clientVars, cqVars, stopVars, hwVars>>

(* Mutant of WqPop: a posted piece stays in the queue.                      *)
WqPopForgotten(q) ==
  /\ WqGoto(q, "pop", "drain")
  /\ UNCHANGED <<assign_queue_, outstanding_rdma_reads_, pushed, record,
                 clientVars, cqVars, stopVars, hwVars>>

(* assign_queue_.pop(), and front_assign goes out of scope.                 *)
WqPop(q) ==
  /\ WqGoto(q, "pop", "drain")
  /\ assign_queue_' = [assign_queue_ EXCEPT ![q] = Tail(@)]
  /\ UNCHANGED <<outstanding_rdma_reads_, pushed, record,
                 clientVars, cqVars, stopVars, hwVars>>

WqStep(q) ==
  \/ WqTop(q) \/ WqPredicate(q) \/ WqPark(q) \/ WqWake(q)
  \/ WqDrained(q) \/ WqReserve(q) \/ WqCharge(q)
  \/ WqPost(q) \/ WqPostFails(q) \/ WqPop(q)

-----------------------------------------------------------------------------
(* The completion thread: cq_poll_handle.                                   *)

CqTop ==
  /\ cqPc = "top"
  /\ cqPc' = IF stop_cq_future_ THEN "exit" ELSE "event"
  /\ UNCHANGED <<wc, finished_, code, clientVars, queueVars, stopVars, hwVars>>

(* Mutant of CqEvent: ibv_req_notify_cq is left out.                        *)
CqEventNoArm ==
  /\ cqPc = "event"
  /\ events > 0
  /\ events' = events - 1
  /\ cqPc' = "poll"
  /\ UNCHANGED <<wc, finished_, code, clientVars, queueVars, stopVars,
                 sq, rq, qpState, moved, cq, armed>>

(* ibv_get_cq_event blocks until the channel holds an event.                *)
CqEvent ==
  /\ cqPc = "event"
  /\ events > 0
  /\ events' = events - 1
  /\ cqPc' = "arm"
  /\ UNCHANGED <<wc, finished_, code, clientVars, queueVars, stopVars,
                 sq, rq, qpState, moved, cq, armed>>

(* ibv_ack_cq_events and ibv_req_notify_cq.                                 *)
CqArm ==
  /\ cqPc = "arm"
  /\ armed' = TRUE
  /\ cqPc' = "poll"
  /\ UNCHANGED <<wc, finished_, code, clientVars, queueVars, stopVars,
                 sq, rq, qpState, moved, cq, events>>

(* ibv_poll_cq takes up to POLL_COUNT entries.  A thread told to stop       *)
(* returns with the entries it has just taken.                              *)
CqPoll ==
  LET n == Smaller(POLL_COUNT, Len(cq))
  IN /\ cqPc = "poll"
     /\ wc' = SubSeq(cq, 1, n)
     /\ cq' = SubSeq(cq, n + 1, Len(cq))
     /\ cqPc' = IF n = 0 THEN "top" ELSE IF stop_cq_future_ THEN "exit" ELSE "call"
     /\ UNCHANGED <<finished_, code, clientVars, queueVars, stopVars,
                    sq, rq, qpState, moved, armed, events>>

(* Mutant of AfterEntry: the loop over the polled entries is left early.    *)
AfterFirstEntry == "poll"

AfterEntry == IF Len(wc) = 1 THEN "poll" ELSE "call"

(* wr_id is 0: nothing to call and nothing to give back.                    *)
CqSkip ==
  /\ cqPc = "call"
  /\ Head(wc).info = NULL
  /\ wc' = Tail(wc)
  /\ cqPc' = AfterEntry
  /\ UNCHANGED <<finished_, code, clientVars, queueVars, stopVars, hwVars>>

(* callback_info_->callback_(status), of the record the address now holds:  *)
(* the caller's callback, or the one that counts finished_ and wakes        *)
(* wait(), on the last piece; a no-op on the others.                        *)
CqCall ==
  /\ cqPc = "call"
  /\ Head(wc).info # NULL
  /\ cqPc' = "release"
  /\ LET o == record[Head(wc).info]
     IN IF IsLast(o)
          THEN /\ finished_' = [finished_ EXCEPT ![o[1]] = @ + 1]
               /\ code' = [code EXCEPT ![o[1]] = Head(wc).status]
               /\ held' = IF Usage[o[1]] = "release" THEN held \ {o[1]} ELSE held
          ELSE UNCHANGED <<finished_, code, held>>
  /\ UNCHANGED <<wc, last_qp_selection_, client, unsent, queueVars, stopVars, hwVars>>

(* Mutant of CqRelease: the room is not given back.                         *)
CqReleaseLeak ==
  /\ cqPc = "release"
  /\ wc' = Tail(wc)
  /\ cqPc' = AfterEntry
  /\ UNCHANGED <<finished_, code, clientVars, queueVars, stopVars, hwVars>>

(* Read batch_size_ from the record, give it back, free the wr_id.          *)
CqRelease ==
  /\ cqPc = "release"
  /\ outstanding_rdma_reads_' =
       [outstanding_rdma_reads_ EXCEPT
          ![Head(wc).qpi] = @ - PieceSize(record[Head(wc).info])]
  /\ wc' = Tail(wc)
  /\ cqPc' = AfterEntry
  /\ UNCHANGED <<finished_, code, clientVars, assign_queue_, wq, pushed, record,
                 stopVars, hwVars>>

CqStep ==
  \/ CqTop \/ CqEvent \/ CqArm \/ CqPoll \/ CqSkip \/ CqCall \/ CqRelease

-----------------------------------------------------------------------------
(* The thread that calls stop_future.                                       *)

StopGoto(from, to) ==
  /\ stopper.pc = from
  /\ stopper' = [stopper EXCEPT !.pc = to]

StopBegin ==
  /\ MayStop
  /\ cqPc # "none"
  /\ StopGoto("idle", "wq_flag")
  /\ UNCHANGED <<stop_wq_future_, stop_cq_future_, clientVars, queueVars, cqVars, hwVars>>

StopWqFlag ==
  /\ StopGoto("wq_flag", "wq_notify")
  /\ stop_wq_future_' = [stop_wq_future_ EXCEPT ![stopper.qpi] = TRUE]
  /\ UNCHANGED <<stop_cq_future_, clientVars, queueVars, cqVars, hwVars>>

StopWqNotify ==
  /\ StopGoto("wq_notify", "wq_join")
  /\ wq' = Notified(stopper.qpi)
  /\ UNCHANGED <<assign_queue_, outstanding_rdma_reads_, pushed, record,
                 stop_wq_future_, stop_cq_future_, clientVars, cqVars, hwVars>>

(* wq_future_.get(), then the next queue pair or the completion thread.     *)
StopWqJoin ==
  /\ stopper.pc = "wq_join"
  /\ wq[stopper.qpi] = "exit"
  /\ stopper' = IF stopper.qpi + 1 < QpListLen
                  THEN [pc |-> "wq_flag", qpi |-> stopper.qpi + 1]
                  ELSE [pc |-> "cq_flag", qpi |-> 0]
  /\ UNCHANGED <<stop_wq_future_, stop_cq_future_, clientVars, queueVars, cqVars, hwVars>>

StopCqFlag ==
  /\ StopGoto("cq_flag", "cq_arm")
  /\ stop_cq_future_' = TRUE
  /\ UNCHANGED <<stop_wq_future_, clientVars, queueVars, cqVars, hwVars>>

StopCqArm ==
  /\ StopGoto("cq_arm", "cq_post")
  /\ armed' = TRUE
  /\ UNCHANGED <<stop_wq_future_, stop_cq_future_, clientVars, queueVars, cqVars,
                 sq, rq, qpState, moved, cq, events>>

(* Mutant of StopCqPost: nothing wakes the completion thread.               *)
StopCqPostSkipped ==
  /\ StopGoto("cq_post", "cq_join")
  /\ UNCHANGED <<stop_wq_future_, stop_cq_future_, clientVars, queueVars, cqVars, hwVars>>

(* The fake work request on queue pair 0 that wakes the completion thread.  *)
StopCqPost ==
  /\ StopGoto("cq_post", "cq_join")
  /\ sq' = [sq EXCEPT ![0] = Append(@, NULL)]
  /\ UNCHANGED <<stop_wq_future_, stop_cq_future_, clientVars, queueVars, cqVars,
                 rq, qpState, moved, cqeVars>>

(* Mutant of StopCqJoin: the completion thread is not waited for.           *)
StopCqNoJoin ==
  /\ StopGoto("cq_join", "done")
  /\ UNCHANGED <<stop_wq_future_, stop_cq_future_, clientVars, queueVars, cqVars, hwVars>>

(* cq_future_.get().                                                        *)
StopCqJoin ==
  /\ cqPc = "exit"
  /\ StopGoto("cq_join", "done")
  /\ UNCHANGED <<stop_wq_future_, stop_cq_future_, clientVars, queueVars, cqVars, hwVars>>

StopStep ==
  \/ StopWqFlag \/ StopWqNotify \/ StopWqJoin
  \/ StopCqFlag \/ StopCqArm \/ StopCqPost \/ StopCqJoin

-----------------------------------------------------------------------------
(* The device (external): a reliable connected queue pair executes its send *)
(* queue in order; an error moves it to ERR, where everything is flushed.   *)

IsRead(e) == e # NULL /\ Op[e[1]] = "READ"

(* The wr_ids of a chain: only the last work request of a read carries one. *)
WrIds(e) ==
  IF IsRead(e)
    THEN [i \in 1 .. PieceSize(e) |-> IF i = PieceSize(e) THEN e ELSE NULL]
    ELSE <<NULL>>

(* The bytes the first n work requests of a chain transfer.                 *)
Moves(e, n) == IF e = NULL THEN {} ELSE Items(e, n)

Completions(q, ids, st) ==
  [i \in 1 .. Len(ids) |-> [info |-> ids[i], qpi |-> q, status |-> st]]

Complete(entries) ==
  /\ cq' = cq \o entries
  /\ events' = IF armed THEN events + 1 ELSE events
  /\ armed' = FALSE

HwComplete(q) ==
  LET e == Head(sq[q])
      n == Len(WrIds(e))
  IN /\ sq[q] # <<>>
     /\ e # NULL
     /\ qpState[q] = "RTS"
     /\ sq' = [sq EXCEPT ![q] = Tail(@)]
     /\ moved' = moved \union Moves(e, n)
     /\ Complete(Completions(q, SubSeq(WrIds(e), n, n), "SUCCESS"))
     /\ UNCHANGED <<rq, qpState, clientVars, queueVars, cqVars, stopVars>>

(* Work request k of the chain fails.  The fake one always does: its lkey   *)
(* names no memory region.                                                  *)
HwFail(q) ==
  LET e == Head(sq[q])
      n == Len(WrIds(e))
  IN /\ sq[q] # <<>>
     /\ e = NULL \/ "wr" \in Faults
     /\ qpState[q] = "RTS"
     /\ qpState' = [qpState EXCEPT ![q] = "ERR"]
     /\ sq' = [sq EXCEPT ![q] = Tail(@)]
     /\ \E k \in 1 .. n :
          /\ moved' = moved \union Moves(e, k - 1)
          /\ Complete(Completions(q, SubSeq(WrIds(e), k, n), "FAILED"))
     /\ UNCHANGED <<rq, clientVars, queueVars, cqVars, stopVars>>

HwFlush(q) ==
  /\ sq[q] # <<>>
  /\ qpState[q] = "ERR"
  /\ sq' = [sq EXCEPT ![q] = Tail(@)]
  /\ Complete(Completions(q, WrIds(Head(sq[q])), "FAILED"))
  /\ UNCHANGED <<rq, qpState, moved, clientVars, queueVars, cqVars, stopVars>>

(* A posted receive is matched by the peer's send, or flushed.              *)
HwReceive(q) ==
  /\ rq[q] > 0
  /\ rq' = [rq EXCEPT ![q] = @ - 1]
  /\ Complete(Completions(q, <<NULL>>, IF qpState[q] = "RTS" THEN "SUCCESS" ELSE "FAILED"))
  /\ UNCHANGED <<sq, qpState, moved, clientVars, queueVars, cqVars, stopVars>>

HwStep(q) == HwComplete(q) \/ HwFail(q) \/ HwFlush(q) \/ HwReceive(q)

-----------------------------------------------------------------------------
ClientStep(t) == SubmitStore(t) \/ SubmitPush(t) \/ WaitReturn(t)

Next ==
  \/ LaunchFuture
  \/ \E t \in Client, r \in Request : SubmitSelect(t, r)
  \/ \E t \in Client : ClientStep(t)
  \/ \E q \in QPI : WqStep(q)
  \/ \E q \in QPI : WqSpurious(q)
  \/ CqStep
  \/ StopBegin
  \/ StopStep
  \/ \E q \in QPI : HwStep(q)

Spec == Init /\ [][Next]_vars

(* Threads that can run do run; the device works through what is posted.    *)
(* No caller is obliged to submit, or to stop.                              *)
Fairness ==
  /\ WF_vars(LaunchFuture)
  /\ \A t \in Client : WF_vars(ClientStep(t))
  /\ \A q \in QPI : WF_vars(WqStep(q))
  /\ WF_vars(CqStep)
  /\ WF_vars(StopStep)
  /\ \A q \in QPI : WF_vars(HwStep(q))

FairSpec == Spec /\ Fairness

-----------------------------------------------------------------------------
(* Properties.                                                              *)

(* Every variable has its type, by owner: the callers, the dispatchers, the *)
(* allocator, the completion thread, the stopping thread, the device.       *)
ClientTypeOK ==
  /\ last_qp_selection_ \in QPI \union {-1}
  /\ client \in [Client -> [pc : {"idle", "store", "push", "wait"},
                            req : Request \union {NULL}, qpi : QPI \union {-1}]]
  /\ \A t \in Client : client[t].pc # "idle" => client[t].req \in Request
  /\ \A t \in Client : client[t].pc = "push" => client[t].qpi \in QPI
  /\ unsent \subseteq Request
  /\ held \subseteq Request

QueueTypeOK ==
  /\ assign_queue_ \in [QPI -> Seq(Piece)]
  /\ outstanding_rdma_reads_ \in [QPI -> Int]
  /\ wq \in [QPI -> {"none", "top", "pred", "park", "parked", "wake", "drain",
                     "charge", "post", "pop", "exit"}]
  /\ pushed \in [QPI -> Seq(Piece)]

RecordTypeOK ==
  /\ record \in [Piece -> Piece]
  /\ "reuse" \notin Faults => \A p \in Piece : record[p] = p

CqTypeOK ==
  /\ cqPc \in {"none", "top", "event", "arm", "poll", "call", "release", "exit"}
  /\ wc \in Seq(Cqe)
  /\ cqPc \in {"call", "release"} => wc # <<>>
  /\ cqPc = "release" => Head(wc).info # NULL
  /\ finished_ \in [Request -> Nat]
  /\ code \in [Request -> {"none", "SUCCESS", "FAILED"}]

StopTypeOK ==
  /\ stop_wq_future_ \in [QPI -> BOOLEAN]
  /\ stop_cq_future_ \in BOOLEAN
  /\ stopper \in [pc : {"idle", "wq_flag", "wq_notify", "wq_join", "cq_flag",
                        "cq_arm", "cq_post", "cq_join", "done"}, qpi : QPI]

DeviceTypeOK ==
  /\ sq \in [QPI -> Seq(Piece \union {NULL})]
  /\ rq \in [QPI -> Nat]
  /\ qpState \in [QPI -> {"RTS", "ERR"}]
  /\ moved \subseteq UNION {{r} \X (1 .. Size[r]) : r \in Request}
  /\ cq \in Seq(Cqe)
  /\ armed \in BOOLEAN
  /\ events \in Nat

TypeOK ==
  ClientTypeOK /\ QueueTypeOK /\ RecordTypeOK /\ CqTypeOK /\ StopTypeOK /\ DeviceTypeOK

(* The dispatcher tests the counter without rdma_post_send_mutex_, and the  *)
(* completion thread changes it meanwhile.  All the same the counter never  *)
(* reaches MAX_SEND_WR, and between the test and the fetch_add of the post  *)
(* the room the test saw is still there.                                    *)
FlowControl ==
  \A q \in QPI :
    /\ outstanding_rdma_reads_[q] < MAX_SEND_WR
    /\ wq[q] \in {"charge", "post", "pop"} => assign_queue_[q] # <<>>
    /\ wq[q] = "charge" => Fits(q)

(* Work requests of q that occupy its send queue: posted, or completed and  *)
(* not yet polled (a successful read chain is reported by its last one).    *)
PostedWrs(q) ==
  UNION {{k} \X DOMAIN WrIds(sq[q][k]) : k \in DOMAIN sq[q]}

UnpolledWrs(q) ==
  UNION {{k} \X (1 .. IF cq[k].info = NULL \/ cq[k].status = "FAILED"
                      THEN 1 ELSE PieceSize(cq[k].info))
           : k \in {j \in DOMAIN cq : cq[j].qpi = q}}

(* The send queue was created with MAX_SEND_WR slots; the chains the        *)
(* dispatcher posts and the fake work request of stop_future, which nobody  *)
(* counts, never need more.                                                 *)
SendQueueRoom ==
  \A q \in QPI : Cardinality(PostedWrs(q)) + Cardinality(UnpolledWrs(q)) <= MAX_SEND_WR

(* A posted piece is popped only afterwards.                                *)
Queued(q) == IF wq[q] = "pop" THEN Tail(assign_queue_[q]) ELSE assign_queue_[q]

(* Where read piece p is on its way through queue pair q: queued (1),       *)
(* posted (2), completed (3) or polled (4), each time at an index.          *)
Places(p, q) ==
  UNION {{1} \X {i \in DOMAIN Queued(q) : Queued(q)[i] = p},
         {2} \X {i \in DOMAIN sq[q] : sq[q][i] = p},
         {3} \X {i \in DOMAIN cq : cq[i].info = p /\ cq[i].qpi = q},
         {4} \X {i \in DOMAIN wc : wc[i].info = p /\ wc[i].qpi = q}}

Precedes(a, b) == a[1] > b[1] \/ (a[1] = b[1] /\ a[2] < b[2])

(* Nothing is lost, duplicated or overtaken between submit and the          *)
(* completion thread: a read piece is in one place of the queue pair it was *)
(* pushed to, and as long as it is, so is every read piece that was pushed  *)
(* there after it, behind it.  (Posts that do not fail.)                    *)
FifoPipeline ==
  \A q \in QPI :
    /\ \A p \in Piece : IsRead(p) /\ Places(p, q) # {} =>
         /\ \E k \in DOMAIN pushed[q] : pushed[q][k] = p
         /\ \E a \in Places(p, q) : Places(p, q) = {a}
    /\ \A j, k \in DOMAIN pushed[q] :
         j < k /\ IsRead(pushed[q][j]) /\ IsRead(pushed[q][k]) =>
           \A a \in Places(pushed[q][j], q) : \E b \in Places(pushed[q][k], q) : Precedes(a, b)

(* The pieces the dispatcher of q has charged, oldest first.                *)
Begun(q) ==
  SubSeq(pushed[q], 1, Len(pushed[q]) - Len(assign_queue_[q])
                         + IF wq[q] \in {"post", "pop"} THEN 1 ELSE 0)

(* Those that are sends and receives: their work requests carry wr_id 0, so *)
(* what they were charged is never given back.                              *)
Spent(q) == {p \in {Begun(q)[i] : i \in DOMAIN Begun(q)} : Op[p[1]] # "READ"}

(* The pieces charged to q: those, the reads that are posted and that the   *)
(* completion thread has not released, and the piece that is being posted.  *)
ChargedPieces(q) ==
  LET posted    == {sq[q][i] : i \in DOMAIN sq[q]}
      completed == {cq[i].info : i \in {j \in DOMAIN cq : cq[j].qpi = q}}
      polled    == {wc[i].info : i \in {j \in DOMAIN wc : wc[j].qpi = q}}
  IN Spent(q) \union {e \in posted \union completed \union polled : IsRead(e)}
       \union IF wq[q] = "post" THEN {Head(assign_queue_[q])} ELSE {}

(* The Assignments of some pieces.                                          *)
Content(pieces) == UNION {Items(p, PieceSize(p)) : p \in pieces}

(* The relaxed counter two threads update agrees with what is really in     *)
(* flight, through errors and flushes too: reads give back what they were   *)
(* charged, and nothing but sends and receives uses room up for good.       *)
Accounting ==
  \A q \in QPI : outstanding_rdma_reads_[q] = Cardinality(Content(ChargedPieces(q)))

(* A piece is still queued, posted, completed or polled.                     *)
UnderWay(p) ==
  \/ \E q \in QPI : \E i \in DOMAIN Queued(q) : Queued(q)[i] = p
  \/ \E q \in QPI : \E i \in DOMAIN sq[q] : sq[q][i] = p
  \/ \E i \in DOMAIN cq : cq[i].info = p
  \/ \E i \in DOMAIN wc : wc[i].info = p

(* A read's callback has run once when its last piece has passed the        *)
(* completion thread, and not at all before: no completion path drops it or *)
(* calls it twice, whatever fails on the wire.                              *)
CallbackExactlyOnce ==
  \A r \in Reads :
    LET last == <<r, NumPieces(r)>>
        called == cqPc = "release" /\ Head(wc).info = last
    IN finished_[r] = IF Sent(last) /\ (UnderWay(last) => called) THEN 1 ELSE 0

(* The completion thread never blocks in ibv_get_cq_event on a queue that   *)
(* holds entries without an event to wake it, and the queue is left unarmed *)
(* only while such an event is on its way to be re-armed.                   *)
NoLostEvent ==
  /\ cq # <<>> /\ cqPc \in {"none", "top", "event"} => events > 0
  /\ ~armed => events > 0 \/ cqPc = "arm"

(* The callback of a request is only called on a record that still exists,  *)
(* as long as the caller holds on to the handle until then.                 *)
RecordLiveWhenCalled ==
  cqPc = "call" /\ Head(wc).info # NULL =>
    LET p == Head(wc).info
    IN IsLast(p) /\ Usage[p[1]] # "forget" => Live(p)

(* SUCCESS, reported for the last piece alone, speaks for the whole batch:  *)
(* every Assignment of every piece has arrived.                             *)
SuccessMeansData ==
  \A r \in Request :
    code[r] = "SUCCESS" => \A i \in 1 .. Size[r] : <<r, i>> \in moved

(* Once wait() can return, the data it waited for is in the local buffer.   *)
WaitedDataIsThere ==
  \A r \in Request :
    Waits(r) /\ finished_[r] > 0 => \A i \in 1 .. Size[r] : <<r, i>> \in moved

(* Nothing runs behind the back of a stop_future that has returned: no      *)
(* callback, no posting, no change to the counters.                         *)
StopQuiesces ==
  [][stopper.pc = "done" =>
       UNCHANGED <<finished_, code, outstanding_rdma_reads_, wc, cqPc, wq>>]_vars

(* The front piece of q can never fit again: sends and receives have used   *)
(* the room up.  Its dispatcher sleeps and looks again for ever, without a  *)
(* look at its stop flag.                                                   *)
Exhausted(q) ==
  /\ wq[q] = "drain"
  /\ assign_queue_[q] # <<>>
  /\ PieceSize(Head(assign_queue_[q])) + Cardinality(Content(Spent(q))) >= MAX_SEND_WR

SomeExhausted == \E q \in QPI : Exhausted(q)

(* Every read that a caller submits is called back, unless a stop drops it  *)
(* or sends and receives have used up the room it needs.                    *)
EveryReadFires ==
  \A r \in Reads :
    (r \notin unsent) ~> (finished_[r] > 0 \/ stopper.pc # "idle" \/ SomeExhausted)

(* stop_future clears the flag and notifies without assign_queue_mutex_, so *)
(* a dispatcher between its predicate and its block misses the notification.*)
WakeupLost ==
  /\ stopper.pc = "wq_join"
  /\ stop_wq_future_[stopper.qpi]
  /\ wq[stopper.qpi] = "parked"

(* stop_future returns, whatever is queued or in flight, unless that one    *)
(* wake-up is lost or a dispatcher waits for room that will not come.       *)
StopReturnsUnlessStuck ==
  (stopper.pc = "wq_flag") ~> (stopper.pc = "done" \/ WakeupLost \/ SomeExhausted)

(* stop_future returns.                                                     *)
StopTerminates == (stopper.pc = "wq_flag") ~> (stopper.pc = "done")

-----------------------------------------------------------------------------
(* What the callers see of all this.                                        *)
Phase ==
  IF stopper.pc = "done" THEN "closed"
  ELSE IF stopper.pc = "idle" /\ ~SomeExhausted THEN "serving" ELSE "ending"

Service == INSTANCE ReadService
             WITH Request <- Reads,
                  submitted <- Reads \ unsent,
                  moved <- {i \in moved : i[1] \in Reads},
                  status <- [r \in Reads |-> code[r]],
                  phase <- Phase

(* Seen from its callers the context is a read service: one report each,    *)
(* SUCCESS only for complete data, no write into a buffer after its report, *)
(* no report after stop_future has returned.                                *)
ImplementsReadService == Service!Spec

(* ... and a live one: until a stop begins or the room is used up, every    *)
(* request is eventually reported.                                          *)
ImplementsLiveReadService == Service!FairSpec

=============================================================================
