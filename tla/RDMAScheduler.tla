----------------------------- MODULE RDMAScheduler -----------------------------
(***************************************************************************)
(* RDMAScheduler (csrc/engine/rdma/rdma_scheduler.cpp), which spreads reads *)
(* over the contexts of several devices, in the one program that uses it,   *)
(* bench/cpp/scheduler_bench.cpp: two processes each build their schedulers *)
(* from the devices they find, exchange a description per scheduler over a  *)
(* socket, and connect; the initiator reads in rounds, says TERMINATE,      *)
(* checks its buffers; the target waits for that word and leaves.           *)
(*                                                                         *)
(* A context is one state here: its queue pairs, threads and records are    *)
(* the subject of RDMAConnection and RDMAContext.  "idle": it is not        *)
(* connected and its threads have returned; "half": connect failed on a     *)
(* later queue pair than the first; "error": a queue pair of it has failed. *)
(***************************************************************************)
EXTENDS GidTable

CONSTANTS
  Hosts,       \* Node -> what its host may be: the GID table of each device, the
               \* sockets, and FLAGS_num_thread
  Concurrent,  \* FLAGS_concurrent_num
  MaxRounds,   \* bound: rounds of reads before the deadline
  Faults,      \* "qp", "modify": these verbs may fail; "slow": a peer is too late
  NULL

Node  == {"initiator", "target"}
Other == [initiator |-> "target", target |-> "initiator"]

ASSUME SchedulerAssumption ==
  /\ DOMAIN Hosts = Node
  /\ \A n \in Node : \A h \in Hosts[n] :
       /\ h.gids \in Seq(Seq(GidEntry)) /\ h.gids # <<>>
       /\ {h.sockets, h.threads} \subseteq Nat \ {0}
  /\ {Concurrent, MaxRounds} \subseteq Nat \ {0}
  /\ Faults \subseteq {"qp", "modify", "slow"}
  /\ NULL \notin Nat \X Nat

VARIABLES
  host,       \* Node -> its host
  pc,         \* Node -> where its main thread is
  sch,        \* Node -> the scheduler it builds or connects
  next,       \* Node -> the context of that scheduler it connects
  given,      \* Node -> the peer's scheduler whose description it has
  ctx,        \* Node -> state of each context
  peer,       \* Node -> context -> the peer's context it is connected to
  wire,       \* Node -> messages for it
  last_rdma_selection_,  \* the initiator's schedulers -> their last context
  jobs,       \* reads submitted in this round
  rounds,     \* rounds begun
  submitted,  \* the initiator's contexts -> reads submitted, ever
  pending,    \* the initiator's contexts -> reads not called back
  copied      \* buffers a successful read has filled

buildVars == <<host, sch, next, given>>
linkVars  == <<ctx, peer>>
readVars  == <<last_rdma_selection_, jobs, rounds, submitted, pending, copied>>
vars      == <<buildVars, linkVars, pc, wire, readVars>>

-----------------------------------------------------------------------------
(* The layout both programs compute from what they find.                    *)

Devices(n) == Len(host[n].gids)

(* nsockets, nschedulers, nsplit; a remainder of the devices is not used.   *)
Groups(n)     == IF Devices(n) > host[n].sockets THEN host[n].sockets ELSE Devices(n)
Schedulers(n) == Groups(n) * host[n].threads
Width(n)      == Devices(n) \div Groups(n)

Sch(n)     == 0 .. Schedulers(n) - 1
Context(n) == Sch(n) \X (0 .. Width(n) - 1)

(* The socket of a scheduler, and the key of the buffer registered with it.  *)
Group(n, s) == s \div host[n].threads

(* gidx of the device of context c.                                         *)
Gidx(n, c) == FindSgidType(host[n].gids[Group(n, c[1]) * Width(n) + c[2] + 1])

Init ==
  /\ host \in [initiator : Hosts["initiator"], target : Hosts["target"]]
  /\ pc = [n \in Node |-> "build"]
  /\ sch = [n \in Node |-> 0]
  /\ next = [n \in Node |-> 0]
  /\ given = [n \in Node |-> 0]
  /\ ctx = [n \in Node |-> [c \in Context(n) |-> "new"]]
  /\ peer = [n \in Node |-> [c \in Context(n) |-> NULL]]
  /\ wire = [n \in Node |-> <<>>]
  /\ last_rdma_selection_ = [s \in Sch("initiator") |-> -1]
  /\ jobs = 0
  /\ rounds = 1
  /\ submitted = [c \in Context("initiator") |-> 0]
  /\ pending = [c \in Context("initiator") |-> 0]
  /\ copied = {}

Stopped(n) == [c \in Context(n) |-> "stopped"]

(* A process ends: some of what it has sent may still arrive, and all of it  *)
(* when it had closed its sockets.                                          *)
Die(n) ==
  /\ pc' = [pc EXCEPT ![n] = "dead"]
  /\ ctx' = [ctx EXCEPT ![n] = Stopped(n)]
  /\ \E k \in 0 .. Len(wire[Other[n]]) :
       /\ pc[n] = "check" => k = Len(wire[Other[n]])
       /\ wire' = [wire EXCEPT ![n] = <<>>, ![Other[n]] = SubSeq(@, 1, k)]
  /\ pending' = IF n = "initiator" THEN [c \in DOMAIN pending |-> 0] ELSE pending
  /\ UNCHANGED <<buildVars, peer, last_rdma_selection_, jobs, rounds, submitted, copied>>

-----------------------------------------------------------------------------
(* RDMAScheduler(), register_memory_region().                               *)

(* What init returned is ignored.  Without a GID a context has no           *)
(* protection domain and registering memory on it ends the process; without *)
(* a queue pair it is described like any other.                             *)
Construct(n) ==
  LET Mine == {c \in Context(n) : c[1] = sch[n]} IN
  /\ pc[n] = "build"
  /\ IF \E c \in Mine : Gidx(n, c) < 0
       THEN Die(n)
       ELSE /\ \E state \in [Mine -> {"ready"} \union (IF "qp" \in Faults THEN {"broken"} ELSE {})] :
                 ctx' = [ctx EXCEPT ![n] = [c \in Context(n) |-> IF c \in Mine THEN state[c] ELSE @[c]]]
            /\ IF sch[n] + 1 \in Sch(n)
                 THEN sch' = [sch EXCEPT ![n] = @ + 1] /\ UNCHANGED pc
                 ELSE sch' = [sch EXCEPT ![n] = 0] /\ pc' = [pc EXCEPT ![n] = "send"]
            /\ UNCHANGED <<host, next, given, peer, wire, readVars>>

-----------------------------------------------------------------------------
(* init_connection() for one scheduler after the other.                     *)

(* Mutant of SendInfo: all descriptions at once, before any is answered.    *)
SendInfoAhead(n) ==
  /\ pc[n] = "send"
  /\ wire' = [wire EXCEPT ![Other[n]] =
       @ \o IF sch[n] = 0 THEN [i \in 1 .. Schedulers(n) |-> [sch |-> i - 1, size |-> Width(n)]]
            ELSE <<>>]
  /\ pc' = [pc EXCEPT ![n] = "recv"]
  /\ UNCHANGED <<buildVars, linkVars, readVars>>

(* Mutant of SendInfo: receives first.                                      *)
SendInfoLast(n) ==
  /\ pc[n] = "send"
  /\ wire[n] # <<>>
  /\ wire' = [wire EXCEPT ![Other[n]] = Append(@, [sch |-> sch[n], size |-> Width(n)])]
  /\ pc' = [pc EXCEPT ![n] = "recv"]
  /\ UNCHANGED <<buildVars, linkVars, readVars>>

(* scheduler_info() lists one endpoint_info per context.                    *)
SendInfo(n) ==
  /\ pc[n] = "send"
  /\ wire' = [wire EXCEPT ![Other[n]] = Append(@, [sch |-> sch[n], size |-> Width(n)])]
  /\ pc' = [pc EXCEPT ![n] = "recv"]
  /\ UNCHANGED <<buildVars, linkVars, readVars>>

Terminate == [sch |-> -1, size |-> -1]

(* Mutant of RecvInfo: without the assertion on the number of devices.      *)
RecvInfoUnchecked(n) ==
  /\ pc[n] = "recv"
  /\ wire[n] # <<>>
  /\ IF Head(wire[n]) = Terminate
       THEN Die(n)
       ELSE /\ wire' = [wire EXCEPT ![n] = Tail(@)]
            /\ given' = [given EXCEPT ![n] = Head(wire[n]).sch]
            /\ next' = [next EXCEPT ![n] = 0]
            /\ pc' = [pc EXCEPT ![n] = "connect"]
            /\ UNCHANGED <<host, sch, linkVars, readVars>>

(* TERMINATE is no JSON: parse throws.  SLIME_ASSERT_EQ aborts unless both  *)
(* schedulers have as many contexts.                                        *)
RecvInfo(n) ==
  /\ pc[n] = "recv"
  /\ wire[n] # <<>>
  /\ IF Head(wire[n]).size # Width(n)
       THEN Die(n)
       ELSE /\ wire' = [wire EXCEPT ![n] = Tail(@)]
            /\ given' = [given EXCEPT ![n] = Head(wire[n]).sch]
            /\ next' = [next EXCEPT ![n] = 0]
            /\ pc' = [pc EXCEPT ![n] = "connect"]
            /\ UNCHANGED <<host, sch, linkVars, readVars>>

(* Mutant of AfterConnect: one scheduler too many.                          *)
AfterConnectPast(n) ==
  IF next[n] + 1 < Width(n)
    THEN next' = [next EXCEPT ![n] = @ + 1] /\ UNCHANGED <<sch, pc>>
    ELSE /\ sch' = [sch EXCEPT ![n] = @ + 1]
         /\ pc' = [pc EXCEPT ![n] = "send"]
         /\ UNCHANGED next

(* The next context, the next scheduler, or the work.                       *)
AfterConnect(n) ==
  IF next[n] + 1 < Width(n)
    THEN next' = [next EXCEPT ![n] = @ + 1] /\ UNCHANGED <<sch, pc>>
    ELSE /\ UNCHANGED next
         /\ IF sch[n] + 1 \in Sch(n)
              THEN sch' = [sch EXCEPT ![n] = @ + 1] /\ pc' = [pc EXCEPT ![n] = "send"]
              ELSE /\ UNCHANGED sch
                   /\ pc' = [pc EXCEPT ![n] = IF n = "initiator" THEN "submit" ELSE "await"]

(* connect and launch_future of one context, results ignored: where no      *)
(* queue pair is ready its threads return at once, where the first is, they *)
(* serve; one without a queue pair ends the process.                        *)
ConnectContext(n) ==
  LET c == <<sch[n], next[n]>> IN
  /\ pc[n] = "connect"
  /\ IF ctx[n][c] = "broken"
       THEN Die(n)
       ELSE /\ \E state \in {"running"} \union (IF "modify" \in Faults THEN {"idle", "half"} ELSE {}) :
                 ctx' = [ctx EXCEPT ![n][c] = state]
            /\ peer' = [peer EXCEPT ![n][c] = <<given[n], next[n]>>]
            /\ AfterConnect(n)
            /\ UNCHANGED <<host, given, wire, readVars>>

-----------------------------------------------------------------------------
(* The initiator.                                                           *)

(* Mutant of SelectRdma: no increment.                                      *)
SelectRdmaSame(s) == (IF last_rdma_selection_[s] < 0 THEN 0 ELSE last_rdma_selection_[s]) % Width("initiator")

SelectRdma(s) == (last_rdma_selection_[s] + 1) % Width("initiator")

(* submitAssignment() on every scheduler in turn, Concurrent times.         *)
Submit ==
  LET s == jobs % Schedulers("initiator")
      c == <<s, SelectRdma(s)>>
  IN
  /\ pc["initiator"] = "submit"
  /\ last_rdma_selection_' = [last_rdma_selection_ EXCEPT ![s] = SelectRdma(s)]
  /\ submitted' = [submitted EXCEPT ![c] = @ + 1]
  /\ pending' = [pending EXCEPT ![c] = @ + 1]
  /\ jobs' = jobs + 1
  /\ pc' = [pc EXCEPT !["initiator"] =
       IF jobs + 1 = Concurrent * Schedulers("initiator") THEN "wait" ELSE @]
  /\ UNCHANGED <<buildVars, linkVars, wire, rounds, copied>>

(* Mutant of Waited: one assignment is waited for.                          *)
WaitedOnce == \E c \in DOMAIN pending : pending[c] = 0

(* RDMASchedulerAssignment::wait() of every assignment has returned.        *)
Waited == \A c \in DOMAIN pending : pending[c] = 0

NextRound ==
  /\ pc["initiator"] = "wait" /\ Waited
  /\ rounds < MaxRounds
  /\ rounds' = rounds + 1
  /\ jobs' = 0
  /\ pc' = [pc EXCEPT !["initiator"] = "submit"]
  /\ UNCHANGED <<buildVars, linkVars, wire, last_rdma_selection_, submitted, pending, copied>>

(* The deadline has passed: terminate().                                    *)
SayTerminate ==
  /\ pc["initiator"] = "wait" /\ Waited
  /\ wire' = [wire EXCEPT !["target"] = Append(@, Terminate)]
  /\ pc' = [pc EXCEPT !["initiator"] = "check"]
  /\ UNCHANGED <<buildVars, linkVars, readVars>>

(* checkInitiatorCopied() of each buffer: failed reads may have filled it   *)
(* between them, a successful one surely has.                               *)
Check ==
  /\ pc["initiator"] = "check"
  /\ \/ /\ pc' = [pc EXCEPT !["initiator"] = "delete"]
        /\ UNCHANGED <<buildVars, linkVars, wire, readVars>>
     \/ /\ copied # 0 .. Groups("initiator") - 1
        /\ Die("initiator")

-----------------------------------------------------------------------------
(* The target waits for a message; another word than TERMINATE only makes   *)
(* a return value that nobody looks at.                                     *)
Await ==
  /\ pc["target"] = "await"
  /\ wire["target"] # <<>>
  /\ wire' = [wire EXCEPT !["target"] = Tail(@)]
  /\ pc' = [pc EXCEPT !["target"] = "delete"]
  /\ UNCHANGED <<buildVars, linkVars, readVars>>

(* ~RDMAScheduler() stops every context, and every stop returns.            *)
Delete(n) ==
  /\ pc[n] = "delete"
  /\ ctx' = [ctx EXCEPT ![n] = Stopped(n)]
  /\ pc' = [pc EXCEPT ![n] = "done"]
  /\ UNCHANGED <<buildVars, peer, wire, readVars>>

(* The order in which contexts are stopped.                                 *)
Earlier(d, c) == d[1] < c[1] \/ (d[1] = c[1] /\ d[2] < c[2])

(* Or stop_future() of a context whose threads serve never returns, its     *)
(* notification lost or the room used up (StopReturnsUnlessStuck of         *)
(* RDMAContext), and the process stays there.                               *)
DeleteHangs(n) ==
  /\ pc[n] = "delete"
  /\ \E c \in Context(n) :
       /\ ctx[n][c] \in {"running", "half", "error"}
       /\ ctx' = [ctx EXCEPT ![n] =
            [d \in Context(n) |-> IF Earlier(d, c) THEN "stopped" ELSE @[d]]]
  /\ pc' = [pc EXCEPT ![n] = "stuck"]
  /\ UNCHANGED <<buildVars, peer, wire, readVars>>

-----------------------------------------------------------------------------
(* The contexts (external here); each has several queue pairs.              *)

Called(c) == pending' = [pending EXCEPT ![c] = @ - 1]

(* The region of this key was registered with the peer's scheduler.         *)
KeyKnown(c) == Group("initiator", c[1]) = Group("target", peer["initiator"][c][1])

(* A read succeeds when the peer's context is connected to this one, on a   *)
(* queue pair that both have made ready and that has not failed.            *)
Succeed(c) ==
  LET p == peer["initiator"][c] IN
  /\ pending[c] > 0
  /\ ctx["initiator"][c] \in {"running", "half", "error"}
  /\ p \in Context("target")
  /\ ctx["target"][p] \in {"running", "half"} /\ peer["target"][p] = c
  /\ KeyKnown(c)
  /\ Called(c)
  /\ copied' = copied \union {Group("initiator", c[1])}
  /\ UNCHANGED <<buildVars, linkVars, pc, wire, last_rdma_selection_, jobs, rounds, submitted>>

(* It fails when the peer's never will be, or is "slow", and retries run    *)
(* out, when the peer refuses a region it was not told of, or when its      *)
(* queue pair was not made ready.                                           *)
Fail(c) ==
  LET p == peer["initiator"][c] IN
  /\ pending[c] > 0
  /\ ctx["initiator"][c] \in {"running", "half", "error"}
  /\ (p \in Context("target") /\ ctx["initiator"][c] # "half") =>
       \/ ctx["target"][p] \in {"idle", "half", "stopped"}
       \/ ctx["target"][p] = "running" /\ ~KeyKnown(c)
       \/ ctx["target"][p] # "running" /\ "slow" \in Faults
  /\ Called(c)
  /\ ctx' = [ctx EXCEPT !["initiator"][c] = "error"]
  /\ UNCHANGED <<buildVars, peer, pc, wire, last_rdma_selection_, jobs, rounds, submitted, copied>>

Flush(c) ==
  /\ pending[c] > 0
  /\ ctx["initiator"][c] = "error"
  /\ Called(c)
  /\ UNCHANGED <<buildVars, linkVars, pc, wire, last_rdma_selection_, jobs, rounds, submitted, copied>>

NodeStep(n) ==
  \/ Construct(n) \/ SendInfo(n) \/ RecvInfo(n) \/ ConnectContext(n)
  \/ Delete(n) \/ DeleteHangs(n)
  \/ n = "initiator" /\ (Submit \/ NextRound \/ SayTerminate \/ Check)
  \/ n = "target" /\ Await

HwStep == \E c \in Context("initiator") : Succeed(c) \/ Fail(c) \/ Flush(c)

Next == (\E n \in Node : NodeStep(n)) \/ HwStep

Spec == Init /\ [][Next]_vars

(* Both processes run, and contexts call back what they can; of a "half"    *)
(* context that is too much, but then there is Trouble.                     *)
FairSpec == Spec /\ (\A n \in Node : WF_vars(NodeStep(n))) /\ WF_vars(HwStep)

-----------------------------------------------------------------------------
(* Every variable has its type; no step of a process leaves its own         *)
(* schedulers, contexts and buffers, whatever the hosts are.                *)
BuildTypeOK ==
  /\ host \in [initiator : Hosts["initiator"], target : Hosts["target"]]
  /\ DOMAIN sch = Node /\ DOMAIN next = Node
  /\ \A n \in Node : sch[n] \in Sch(n) /\ next[n] \in 0 .. Width(n) - 1
  /\ given \in [Node -> Nat]

PcTypeOK ==
  /\ pc \in [Node -> {"build", "send", "recv", "connect", "submit", "wait", "check",
                      "await", "delete", "done", "stuck", "dead"}]
  /\ pc["initiator"] # "await" /\ pc["target"] \notin {"submit", "wait", "check"}

CtxState == {"new", "ready", "broken", "running", "idle", "half", "error", "stopped"}

LinkTypeOK ==
  /\ DOMAIN ctx = Node /\ DOMAIN peer = Node
  /\ \A n \in Node : ctx[n] \in [Context(n) -> CtxState]
  /\ \A n \in Node : peer[n] \in [Context(n) -> (Nat \X Nat) \union {NULL}]

Message == [sch : Nat, size : Nat] \union {Terminate}

ReadTypeOK ==
  /\ last_rdma_selection_ \in [Sch("initiator") -> -1 .. Width("initiator") - 1]
  /\ jobs \in 0 .. Concurrent * Schedulers("initiator")
  /\ pc["initiator"] \in {"build", "send", "recv", "connect", "submit"} =>
       jobs < Concurrent * Schedulers("initiator")
  /\ rounds \in 1 .. MaxRounds
  /\ submitted \in [Context("initiator") -> Nat]
  /\ pending \in [Context("initiator") -> Nat]
  /\ copied \subseteq 0 .. Groups("initiator") - 1

TypeOK ==
  /\ BuildTypeOK /\ PcTypeOK /\ LinkTypeOK /\ ReadTypeOK
  /\ wire \in [Node -> Seq(Message)]

(* A context that has been connected is connected to the context of the     *)
(* same number of the scheduler of the same number, and there is one, though *)
(* nothing in a description says whose it is and the two hosts need not be  *)
(* alike (rdma_scheduler.cpp:67-76, scheduler_bench.cpp:121-130).           *)
PairedByPosition ==
  \A n \in Node : \A c \in Context(n) :
    peer[n][c] # NULL => peer[n][c] = c /\ c \in Context(Other[n])

(* Only reads through the last scheduler may be early for the peer's connect *)
(* and depend on the retries of the transport (scheduler_bench.cpp:261-264).*)
EarlyReadsOnlyLast ==
  \A c \in Context("initiator") :
    pending[c] > 0 /\ pc["target"] # "dead" /\ ctx["target"][peer["initiator"][c]] \in {"ready", "broken"}
      => c[1] = Schedulers("initiator") - 1

(* The target does not take its memory away while a read is under way, even *)
(* where its schedulers are not as many as the initiator's                  *)
(* (scheduler_bench.cpp:212-215, 293-311).                                  *)
TargetOutlivesReads ==
  pc["target"] \in {"delete", "done", "stuck"} => \A c \in Context("initiator") : pending[c] = 0

(* Round robin: the contexts of a scheduler are given as many reads, up to  *)
(* one, whatever the number of concurrent reads (rdma_scheduler.cpp:102).   *)
RoundRobinBalanced ==
  \A c, d \in Context("initiator") : c[1] = d[1] => submitted[c] - submitted[d] <= 1

(* On every device's table the search for a GID passes over no entry that   *)
(* suits, and finds another than the first that does only behind an entry   *)
(* with an IPv4 address (ibv_helper.cpp:102-127).                           *)
GidSearchCorrect ==
  \A n \in Node : \A d \in DOMAIN host[n].gids : GidSearch(host[n].gids[d])

(* What the program does not survive: hosts with another number of          *)
(* schedulers or of contexts each, a device without a GID among those in    *)
(* use, and failures that it ignores.                                       *)
Trouble ==
  \/ Schedulers("initiator") # Schedulers("target") \/ Width("initiator") # Width("target")
  \/ \E n \in Node : \E c \in Context(n) : Gidx(n, c) < 0 \/ ctx[n][c] \in {"broken", "idle", "half"}

(* Otherwise the exchange of descriptions and the rounds come to their end  *)
(* on both hosts, even when reads time out; at worst the check of the data  *)
(* fails or the stop of a context does not return                           *)
(* (rdma_scheduler.cpp:51-56, rdma_context.cpp:286-296).                    *)
FinishesUnlessTrouble ==
  <>\/ Trouble
    \/ pc["target"] \in {"done", "stuck"} /\ pc["initiator"] \in {"done", "stuck", "dead"}
=============================================================================
