-------------------------- MODULE RDMASchedulerProofs --------------------------
(***************************************************************************)
(* Proofs about RDMAScheduler: the exchange of descriptions, round robin    *)
(* and the shutdown, for any two hosts, any devices, sockets and threads,   *)
(* any number of concurrent reads and of rounds, and any faults.            *)
(* And about the search for a GID in a device's table, of any length.       *)
(***************************************************************************)
EXTENDS RDMAScheduler, SequenceTheorems, WellFoundedInduction, TLAPS

LEMMA NodeFacts ==
  /\ "initiator" \in Node /\ "target" \in Node
  /\ \A n \in Node : Other[n] \in Node /\ Other[n] # n /\ Other[Other[n]] = n
  /\ \A m, n \in Node : m # n => m = Other[n]
  BY DEF Node, Other

(* Division and multiplication of positive numbers.                         *)
LEMMA DivPositive ==
  ASSUME NEW a \in Nat, NEW b \in Nat, 0 < b, b <= a
  PROVE  a \div b \in Nat /\ 0 < a \div b
  OBVIOUS

LEMMA TimesPositive ==
  ASSUME NEW a \in Nat, NEW b \in Nat, 0 < a, 0 < b
  PROVE  a * b \in Nat /\ 0 < a * b
  OBVIOUS

LEMMA ModIn ==
  ASSUME NEW a \in Nat, NEW b \in Nat, 0 < b
  PROVE  a % b \in 0 .. b - 1
  OBVIOUS

LEMMA ModSmall ==
  ASSUME NEW b \in Nat, 0 < b, NEW a \in 0 .. b
  PROVE  a % b = IF a = b THEN 0 ELSE a
  OBVIOUS

(* A number below g * t is in one of g groups of t.                         *)
LEMMA GroupIn ==
  ASSUME NEW g \in Nat, NEW t \in Nat, 0 < g, 0 < t, NEW s \in 0 .. g * t - 1
  PROVE  s \div t \in 0 .. g - 1
  OBVIOUS

LEMMA HostType ==
  ASSUME host \in [initiator : Hosts["initiator"], target : Hosts["target"]],
         NEW n \in Node
  PROVE  host[n] \in Hosts[n]
  BY DEF Node

(* A host has at least one scheduler of at least one context.               *)
LEMMA Layout ==
  ASSUME host \in [initiator : Hosts["initiator"], target : Hosts["target"]],
         NEW n \in Node
  PROVE  /\ Schedulers(n) \in Nat /\ 0 < Schedulers(n)
         /\ Width(n) \in Nat /\ 0 < Width(n)
         /\ 0 \in Sch(n) /\ Sch(n) \subseteq Nat
         /\ Groups(n) \in Nat /\ 0 < Groups(n)
         /\ host[n].threads \in Nat /\ 0 < host[n].threads
  <1>1. /\ host[n].gids \in Seq(Seq(GidEntry)) /\ host[n].gids # <<>>
        /\ {host[n].sockets, host[n].threads} \subseteq Nat \ {0}
    BY HostType, SchedulerAssumption
  <1>2. Devices(n) \in Nat /\ 0 < Devices(n)
    BY <1>1 DEF Devices
  <1>3. Groups(n) \in Nat /\ 0 < Groups(n) /\ Groups(n) <= Devices(n)
    BY <1>1, <1>2 DEF Groups
  <1>4. Width(n) \in Nat /\ 0 < Width(n)
    BY <1>2, <1>3, DivPositive DEF Width
  <1>5. Schedulers(n) \in Nat /\ 0 < Schedulers(n)
    BY <1>1, <1>3, TimesPositive DEF Schedulers
  <1> QED
    BY <1>1, <1>3, <1>4, <1>5 DEF Sch

LEMMA LayoutKept ==
  ASSUME host' = host
  PROVE  \A n : /\ Schedulers(n)' = Schedulers(n) /\ Width(n)' = Width(n)
                /\ Groups(n)' = Groups(n)
                /\ Sch(n)' = Sch(n) /\ Context(n)' = Context(n)
  BY DEF Schedulers, Width, Groups, Devices, Sch, Context

LEMMA HostKept == [Next]_vars => host' = host
  BY
  DEF Next, NodeStep, HwStep, Construct, SendInfo, RecvInfo, ConnectContext, Delete, DeleteHangs, Submit,
         NextRound, SayTerminate, Check, Await, Succeed, Fail, Flush, Die, vars, buildVars

-----------------------------------------------------------------------------
(* Types.                                                                   *)

(* Where the initiator has submitted nothing in this round, or not all.     *)
Before == {"build", "send", "recv", "connect", "submit"}

LEMMA TypeInit == Init => TypeOK
  <1> SUFFICES ASSUME Init PROVE TypeOK
    OBVIOUS
  <1>1. host \in [initiator : Hosts["initiator"], target : Hosts["target"]]
    BY DEF Init
  <1>2. \A n \in Node : 0 \in Sch(n) /\ 0 \in 0 .. Width(n) - 1
    BY <1>1, Layout
  <1>3. BuildTypeOK
    BY <1>1, <1>2 DEF Init, BuildTypeOK
  <1>4. PcTypeOK
    BY NodeFacts DEF Init, PcTypeOK
  <1>5. LinkTypeOK
    BY DEF Init, LinkTypeOK, CtxState
  <1>6. ReadTypeOK
    <2>1. Width("initiator") \in Nat /\ 0 < Width("initiator")
          /\ Concurrent * Schedulers("initiator") \in Nat
          /\ 0 < Concurrent * Schedulers("initiator")
      BY <1>1, Layout, NodeFacts, TimesPositive, SchedulerAssumption
    <2> QED
      BY <2>1, NodeFacts, SchedulerAssumption DEF Init, ReadTypeOK
  <1> QED
    BY <1>3, <1>4, <1>5, <1>6 DEF Init, TypeOK

LEMMA LayoutTyped ==
  ASSUME TypeOK
  PROVE  \A n \in Node : /\ Schedulers(n) \in Nat /\ 0 < Schedulers(n)
                         /\ Width(n) \in Nat /\ 0 < Width(n)
                         /\ 0 \in Sch(n) /\ Sch(n) \subseteq Nat
  BY Layout DEF TypeOK, BuildTypeOK

LEMMA JobsTyped ==
  ASSUME TypeOK
  PROVE  /\ Concurrent * Schedulers("initiator") \in Nat
         /\ 0 < Concurrent * Schedulers("initiator")
  BY LayoutTyped, NodeFacts, TimesPositive, SchedulerAssumption

(* The type of the builders' position, with the layout of the state before. *)
LEMMA BuildTypeKept ==
  ASSUME TypeOK, host' = host, DOMAIN sch' = Node, DOMAIN next' = Node,
         \A m \in Node : sch'[m] \in Sch(m) /\ next'[m] \in 0 .. Width(m) - 1,
         given' \in [Node -> Nat]
  PROVE  BuildTypeOK'
  <1>1. \A m \in Node : sch'[m] \in Sch(m)' /\ next'[m] \in 0 .. Width(m)' - 1
    BY LayoutKept
  <1>2. host' \in [initiator : Hosts["initiator"], target : Hosts["target"]]
    BY DEF TypeOK, BuildTypeOK
  <1> QED
    BY <1>1, <1>2 DEF BuildTypeOK

LEMMA BuildTypeStep == TypeOK /\ [Next]_vars => BuildTypeOK'
  <1> SUFFICES ASSUME TypeOK, [Next]_vars PROVE BuildTypeOK'
    OBVIOUS
  <1>0. host' = host
    BY HostKept
  <1>1. CASE UNCHANGED <<sch, next, given>>
    BY <1>0, <1>1, LayoutKept DEF TypeOK, BuildTypeOK
  <1>2. ASSUME NEW n \in Node, Construct(n), ~Die(n)
        PROVE  BuildTypeOK'
    <2>1. /\ UNCHANGED <<next, given>>
          /\ \/ sch[n] + 1 \in Sch(n) /\ sch' = [sch EXCEPT ![n] = @ + 1]
             \/ sch' = [sch EXCEPT ![n] = 0]
      BY <1>2 DEF Construct
    <2>2. 0 \in Sch(n)
      BY LayoutTyped
    <2>3. DOMAIN sch' = Node /\ \A m \in Node : sch'[m] \in Sch(m)
      BY <2>1, <2>2 DEF TypeOK, BuildTypeOK
    <2> QED
      BY <1>0, <2>1, <2>3, BuildTypeKept DEF TypeOK, BuildTypeOK
  <1>3. ASSUME NEW n \in Node, RecvInfo(n), ~Die(n)
        PROVE  BuildTypeOK'
    <2>1. /\ sch' = sch /\ next' = [next EXCEPT ![n] = 0]
          /\ given' = [given EXCEPT ![n] = Head(wire[n]).sch]
          /\ Head(wire[n]).size = Width(n)
      BY <1>3 DEF RecvInfo
    <2>2. Head(wire[n]) \in Message
      BY <1>3 DEF RecvInfo, TypeOK
    <2>3. Head(wire[n]).sch \in Nat
      BY <2>1, <2>2, LayoutTyped DEF Message, Terminate
    <2>4. given' \in [Node -> Nat]
      BY <2>1, <2>3 DEF TypeOK, BuildTypeOK
    <2>5. \A m \in Node : next'[m] \in 0 .. Width(m) - 1
      <3>1. \A m \in Node : next'[m] = IF m = n THEN 0 ELSE next[m]
        BY <2>1 DEF TypeOK, BuildTypeOK
      <3>2. \A m \in Node : Width(m) \in Nat /\ 0 < Width(m) /\ next[m] \in 0 .. Width(m) - 1
        BY LayoutTyped DEF TypeOK, BuildTypeOK
      <3> QED
        BY <3>1, <3>2
    <2> QED
      BY <1>0, <2>1, <2>4, <2>5, BuildTypeKept DEF TypeOK, BuildTypeOK
  <1>4. ASSUME NEW n \in Node, ConnectContext(n), ~Die(n)
        PROVE  BuildTypeOK'
    <2>1. /\ given' = given
          /\ \/ next[n] + 1 < Width(n) /\ next' = [next EXCEPT ![n] = @ + 1] /\ sch' = sch
             \/ next' = next /\ sch[n] + 1 \in Sch(n) /\ sch' = [sch EXCEPT ![n] = @ + 1]
             \/ next' = next /\ sch' = sch
      BY <1>4 DEF ConnectContext, AfterConnect
    <2>2. DOMAIN sch' = Node /\ \A m \in Node : sch'[m] \in Sch(m)
      BY <2>1 DEF TypeOK, BuildTypeOK
    <2>4. \A m \in Node : Width(m) \in Nat /\ next[m] \in 0 .. Width(m) - 1
      BY LayoutTyped DEF TypeOK, BuildTypeOK
    <2>3. DOMAIN next' = Node /\ \A m \in Node : next'[m] \in 0 .. Width(m) - 1
      <3>1. CASE next' = next
        BY <2>4, <3>1 DEF TypeOK, BuildTypeOK
      <3>2. CASE next[n] + 1 < Width(n) /\ next' = [next EXCEPT ![n] = @ + 1]
        <4>1. DOMAIN next' = Node /\ \A m \in Node : next'[m] = IF m = n THEN next[m] + 1 ELSE next[m]
          BY <3>2 DEF TypeOK, BuildTypeOK
        <4> QED
          BY <2>4, <3>2, <4>1
      <3> QED
        BY <2>1, <3>1, <3>2
    <2> QED
      BY <1>0, <2>1, <2>2, <2>3, BuildTypeKept DEF TypeOK, BuildTypeOK
  <1> QED
    BY <1>1, <1>2, <1>3, <1>4
    DEF Next, NodeStep, HwStep, Construct, SendInfo, RecvInfo, ConnectContext, Delete, DeleteHangs, Submit,
        NextRound, SayTerminate, Check, Await, Succeed, Fail, Flush, Die, vars, buildVars

LEMMA PcTypeStep == TypeOK /\ [Next]_vars => PcTypeOK'
  <1> SUFFICES ASSUME TypeOK, [Next]_vars PROVE PcTypeOK'
    OBVIOUS
  <1> USE NodeFacts DEF TypeOK, PcTypeOK
  <1>1. CASE pc' = pc
    BY <1>1
  <1>2. ASSUME NEW n \in Node, Die(n)
        PROVE  PcTypeOK'
    BY <1>2 DEF Die
  <1>3. ASSUME NEW n \in Node, ~Die(n),
               \/ Construct(n) \/ SendInfo(n) \/ RecvInfo(n) \/ ConnectContext(n)
               \/ Delete(n) \/ DeleteHangs(n)
        PROVE  PcTypeOK'
    <2>1. \/ pc' = pc
          \/ \E p \in {"send", "recv", "connect", "done", "stuck"} : pc' = [pc EXCEPT ![n] = p]
          \/ pc' = [pc EXCEPT ![n] = IF n = "initiator" THEN "submit" ELSE "await"]
      <3>1. CASE Construct(n) \/ SendInfo(n) \/ Delete(n) \/ DeleteHangs(n)
        BY <1>3, <3>1 DEF Construct, SendInfo, Delete, DeleteHangs
      <3>2. CASE RecvInfo(n) \/ ConnectContext(n)
        BY <1>3, <3>2 DEF RecvInfo, ConnectContext, AfterConnect
      <3> QED
        BY <1>3, <3>1, <3>2
    <2>2. CASE \E p \in {"send", "recv", "connect", "done", "stuck"} : pc' = [pc EXCEPT ![n] = p]
      BY <2>2
    <2>3. CASE pc' = [pc EXCEPT ![n] = IF n = "initiator" THEN "submit" ELSE "await"]
      BY <2>3 DEF Node
    <2> QED
      BY <2>1, <2>2, <2>3, <1>1
  <1>4. CASE Submit \/ NextRound \/ SayTerminate \/ Await \/ (Check /\ ~Die("initiator"))
    <2>1. \/ \E p \in {"submit", "wait", "check", "delete"} :
               pc' = [pc EXCEPT !["initiator"] = p]
          \/ pc' = pc
          \/ pc' = [pc EXCEPT !["target"] = "delete"]
      <3>1. CASE Submit \/ NextRound
        BY <3>1 DEF Submit, NextRound
      <3>2. CASE SayTerminate \/ Await \/ (Check /\ ~Die("initiator"))
        BY <3>2 DEF SayTerminate, Await, Check
      <3> QED
        BY <1>4, <3>1, <3>2
    <2>2. ASSUME NEW p \in {"submit", "wait", "check", "delete"}, pc' = [pc EXCEPT !["initiator"] = p]
          PROVE  PcTypeOK'
      BY <2>2
    <2>3. CASE pc' = [pc EXCEPT !["target"] = "delete"]
      BY <2>3
    <2> QED
      BY <2>1, <2>2, <2>3, <1>1
  <1> QED
    BY <1>1, <1>2, <1>3, <1>4
    DEF Next, NodeStep, HwStep, Succeed, Fail, Flush, vars

LEMMA LinkTypeStep == TypeOK /\ [Next]_vars => LinkTypeOK'
  <1> SUFFICES ASSUME TypeOK, [Next]_vars PROVE LinkTypeOK'
    OBVIOUS
  <1>0. host' = host
    BY HostKept
  <1> USE DEF LinkTypeOK
  <1>1. CASE UNCHANGED linkVars
    BY <1>0, <1>1, LayoutKept DEF TypeOK, linkVars
  <1>2. ASSUME NEW n \in Node, Die(n) \/ Delete(n)
        PROVE  LinkTypeOK'
    <2>1. peer' = peer /\ ctx' = [ctx EXCEPT ![n] = Stopped(n)]
      BY <1>2 DEF Die, Delete
    <2>2. Stopped(n) \in [Context(n) -> CtxState]
      BY DEF Stopped, CtxState
    <2> QED
      BY <1>0, <2>1, <2>2, LayoutKept DEF TypeOK
  <1>3. ASSUME NEW n \in Node, Construct(n), ~Die(n)
        PROVE  LinkTypeOK'
    <2> DEFINE Mine == {c \in Context(n) : c[1] = sch[n]}
    <2>1. peer' = peer /\
          \E state \in [Mine -> {"ready"} \union (IF "qp" \in Faults THEN {"broken"} ELSE {})] :
            ctx' = [ctx EXCEPT ![n] = [c \in Context(n) |-> IF c \in Mine THEN state[c] ELSE @[c]]]
      BY <1>3 DEF Construct
    <2>2. PICK state \in [Mine -> {"ready"} \union (IF "qp" \in Faults THEN {"broken"} ELSE {})] :
            ctx' = [ctx EXCEPT ![n] = [c \in Context(n) |-> IF c \in Mine THEN state[c] ELSE @[c]]]
      BY <2>1
    <2>3. [c \in Context(n) |-> IF c \in Mine THEN state[c] ELSE ctx[n][c]] \in [Context(n) -> CtxState]
      BY DEF TypeOK, CtxState
    <2> QED
      BY <1>0, <2>1, <2>2, <2>3, LayoutKept DEF TypeOK
  <1>4. ASSUME NEW n \in Node, ConnectContext(n), ~Die(n)
        PROVE  LinkTypeOK'
    <2> DEFINE c == <<sch[n], next[n]>>
               p == <<given[n], next[n]>>
    <2>1. /\ \E state \in {"running"} \union (IF "modify" \in Faults THEN {"idle", "half"} ELSE {}) :
               ctx' = [ctx EXCEPT ![n][c] = state]
          /\ peer' = [peer EXCEPT ![n][c] = p]
      BY <1>4 DEF ConnectContext
    <2>2. p \in Nat \X Nat
      BY LayoutTyped DEF TypeOK, BuildTypeOK
    <2>3. PICK state \in CtxState : ctx' = [ctx EXCEPT ![n][c] = state]
      BY <2>1 DEF CtxState
    <2> HIDE DEF c, p
    <2>4. /\ DOMAIN ctx' = Node /\ DOMAIN peer' = Node
          /\ \A m \in Node : ctx'[m] \in [Context(m) -> CtxState]
          /\ \A m \in Node : peer'[m] \in [Context(m) -> (Nat \X Nat) \union {NULL}]
      BY <2>1, <2>2, <2>3 DEF TypeOK
    <2> QED
      BY <1>0, <2>4, LayoutKept
  <1>5. CASE HwStep
    <2>1. PICK c \in Context("initiator") : Succeed(c) \/ Fail(c) \/ Flush(c)
      BY <1>5 DEF HwStep
    <2>2. peer' = peer /\ (ctx' = ctx \/ ctx' = [ctx EXCEPT !["initiator"][c] = "error"])
      BY <2>1 DEF Succeed, Fail, Flush, linkVars
    <2>3. "error" \in CtxState
      BY DEF CtxState
    <2>4. [ctx["initiator"] EXCEPT ![c] = "error"] \in [Context("initiator") -> CtxState]
      BY <2>3, NodeFacts DEF TypeOK
    <2>5. \/ ctx' = ctx
          \/ ctx' = [ctx EXCEPT !["initiator"] = [ctx["initiator"] EXCEPT ![c] = "error"]]
      BY <2>2
    <2>6. DOMAIN ctx' = Node /\ \A m \in Node : ctx'[m] \in [Context(m) -> CtxState]
      BY <2>4, <2>5, NodeFacts DEF TypeOK
    <2> QED
      BY <1>0, <2>2, <2>6, LayoutKept DEF TypeOK
  <1>6. ASSUME NEW n \in Node, DeleteHangs(n)
        PROVE  LinkTypeOK'
    <2>1. PICK c \in Context(n) :
            ctx' = [ctx EXCEPT ![n] =
              [d \in Context(n) |-> IF Earlier(d, c) THEN "stopped" ELSE @[d]]]
      BY <1>6 DEF DeleteHangs
    <2>2. [d \in Context(n) |-> IF Earlier(d, c) THEN "stopped" ELSE ctx[n][d]]
            \in [Context(n) -> CtxState]
      BY DEF TypeOK, CtxState
    <2>3. peer' = peer
      BY <1>6 DEF DeleteHangs
    <2> QED
      BY <1>0, <2>1, <2>2, <2>3, LayoutKept DEF TypeOK
  <1> QED
    BY <1>1, <1>2, <1>3, <1>4, <1>5, <1>6
    DEF Next, NodeStep, SendInfo, RecvInfo, Submit, NextRound, SayTerminate, Check, Await, vars

LEMMA WireTypeStep == TypeOK /\ [Next]_vars => wire' \in [Node -> Seq(Message)]
  <1> SUFFICES ASSUME TypeOK, [Next]_vars PROVE wire' \in [Node -> Seq(Message)]
    OBVIOUS
  <1>0. wire \in [Node -> Seq(Message)]
    BY DEF TypeOK
  <1>1. CASE wire' = wire
    BY <1>0, <1>1
  <1>2. ASSUME NEW n \in Node, Die(n)
        PROVE  wire' \in [Node -> Seq(Message)]
    <2>1. PICK k \in 0 .. Len(wire[Other[n]]) :
            wire' = [wire EXCEPT ![n] = <<>>, ![Other[n]] = SubSeq(@, 1, k)]
      BY <1>2 DEF Die
    <2>2. wire[Other[n]] \in Seq(Message)
      BY <1>0, NodeFacts
    <2>3. SubSeq(wire[Other[n]], 1, k) \in Seq(Message)
      <3>1. k \in Int /\ \A i \in 1 .. k : wire[Other[n]][i] \in Message
        BY <2>2
      <3> QED
        BY <3>1, SubSeqProperties
    <2> DEFINE kept == SubSeq(wire[Other[n]], 1, k)
    <2>4. wire' = [[wire EXCEPT ![n] = <<>>] EXCEPT ![Other[n]] = kept]
      BY <1>0, <2>1, NodeFacts
    <2>5. kept \in Seq(Message) /\ <<>> \in Seq(Message)
      BY <2>3
    <2> HIDE DEF kept
    <2> QED
      BY <1>0, <2>4, <2>5, NodeFacts
  <1>3. ASSUME NEW n \in Node, SendInfo(n)
        PROVE  wire' \in [Node -> Seq(Message)]
    <2> DEFINE info == [sch |-> sch[n], size |-> Width(n)]
    <2>1. info \in Message
      BY LayoutTyped DEF TypeOK, BuildTypeOK, Message
    <2>2. wire' = [wire EXCEPT ![Other[n]] = Append(@, info)]
      BY <1>3 DEF SendInfo
    <2> HIDE DEF info
    <2> QED
      BY <1>0, <2>1, <2>2, NodeFacts
  <1>4. ASSUME NEW n \in Node, wire[n] # <<>>, wire' = [wire EXCEPT ![n] = Tail(@)]
        PROVE  wire' \in [Node -> Seq(Message)]
    BY <1>0, <1>4
  <1>5. CASE SayTerminate
    <2>1. Terminate \in Message
      BY DEF Message
    <2>2. wire' = [wire EXCEPT !["target"] = Append(@, Terminate)]
      BY <1>5 DEF SayTerminate
    <2> QED
      BY <1>0, <2>1, <2>2, NodeFacts
  <1> QED
    BY <1>1, <1>2, <1>3, <1>4, <1>5, NodeFacts
    DEF Next, NodeStep, HwStep, Construct, RecvInfo, ConnectContext, Delete, DeleteHangs, Submit,
        NextRound, Check, Await, Succeed, Fail, Flush, vars

(* The round robin chooses a scheduler, and a context of it.                *)
LEMMA SubmitTarget ==
  ASSUME TypeOK
  PROVE  LET s == jobs % Schedulers("initiator")
         IN s \in Sch("initiator") /\ <<s, SelectRdma(s)>> \in Context("initiator")
            /\ SelectRdma(s) \in 0 .. Width("initiator") - 1
  <1> DEFINE s == jobs % Schedulers("initiator")
  <1>0. /\ Schedulers("initiator") \in Nat /\ 0 < Schedulers("initiator")
        /\ Width("initiator") \in Nat /\ 0 < Width("initiator")
    BY LayoutTyped, NodeFacts
  <1>1. jobs \in Nat
    BY JobsTyped DEF TypeOK, ReadTypeOK
  <1>2. s \in Sch("initiator")
    BY <1>0, <1>1, ModIn DEF Sch
  <1> HIDE DEF s
  <1>3. last_rdma_selection_[s] + 1 \in Nat
    BY <1>0, <1>2 DEF TypeOK, ReadTypeOK
  <1>4. SelectRdma(s) \in 0 .. Width("initiator") - 1
    BY <1>0, <1>3, ModIn DEF SelectRdma
  <1>5. s \in Sch("initiator") /\ <<s, SelectRdma(s)>> \in Context("initiator")
        /\ SelectRdma(s) \in 0 .. Width("initiator") - 1
    BY <1>2, <1>4 DEF Context
  <1> QED
    BY <1>5 DEF s

LEMMA ReadTypeStep == TypeOK /\ [Next]_vars => ReadTypeOK'
  <1> SUFFICES ASSUME TypeOK, [Next]_vars PROVE ReadTypeOK'
    OBVIOUS
  <1>0. host' = host
    BY HostKept
  <1>1. CASE UNCHANGED readVars /\ (pc'["initiator"] \in Before => pc["initiator"] \in Before)
    BY <1>0, <1>1, LayoutKept DEF TypeOK, ReadTypeOK, readVars, Before
  <1>2. ASSUME NEW n \in Node, Die(n)
        PROVE  ReadTypeOK'
    <2>1. /\ UNCHANGED <<last_rdma_selection_, jobs, rounds, submitted, copied>>
          /\ pc'["initiator"] \in Before => pc["initiator"] \in Before
          /\ pending' \in [Context("initiator") -> Nat]
      BY <1>2, NodeFacts DEF Die, TypeOK, PcTypeOK, ReadTypeOK, Before
    <2> QED
      BY <1>0, <2>1, LayoutKept DEF TypeOK, ReadTypeOK, Before
  <1>3. ASSUME NEW n \in Node, ~Die(n),
               \/ Construct(n) \/ SendInfo(n) \/ RecvInfo(n) \/ ConnectContext(n)
               \/ Delete(n) \/ DeleteHangs(n)
        PROVE  ReadTypeOK'
    <2>1. UNCHANGED readVars
      BY <1>3 DEF Construct, SendInfo, RecvInfo, ConnectContext, Delete, DeleteHangs
    <2>2. pc[n] \in Before \/ pc'[n] \notin Before
      BY <1>3
      DEF Construct, SendInfo, RecvInfo, ConnectContext, Delete, DeleteHangs, TypeOK, PcTypeOK, Before
    <2>3. \A m \in Node : m # n => pc'[m] = pc[m]
      BY <1>3
      DEF Construct, SendInfo, RecvInfo, ConnectContext, AfterConnect, Delete, DeleteHangs, TypeOK, PcTypeOK
    <2> QED
      BY <1>1, <2>1, <2>2, <2>3, NodeFacts
  <1>4. CASE Submit
    <2> DEFINE s == jobs % Schedulers("initiator")
               c == <<s, SelectRdma(s)>>
    <2>1. /\ last_rdma_selection_' = [last_rdma_selection_ EXCEPT ![s] = SelectRdma(s)]
          /\ submitted' = [submitted EXCEPT ![c] = @ + 1]
          /\ pending' = [pending EXCEPT ![c] = @ + 1]
          /\ jobs' = jobs + 1 /\ UNCHANGED <<rounds, copied>>
          /\ pc["initiator"] = "submit"
          /\ jobs + 1 = Concurrent * Schedulers("initiator") => pc'["initiator"] = "wait"
      BY <1>4, NodeFacts DEF Submit, TypeOK, PcTypeOK
    <2>2. s \in Sch("initiator") /\ c \in Context("initiator")
          /\ SelectRdma(s) \in 0 .. Width("initiator") - 1
      BY SubmitTarget
    <2> HIDE DEF s, c
    <2> DEFINE r == SelectRdma(s)
    <2>5. /\ r \in -1 .. Width("initiator") - 1
          /\ last_rdma_selection_' = [last_rdma_selection_ EXCEPT ![s] = r]
      BY <2>1, <2>2, LayoutTyped, NodeFacts
    <2> HIDE DEF r
    <2>3. /\ last_rdma_selection_' \in [Sch("initiator") -> -1 .. Width("initiator") - 1]
          /\ submitted' \in [Context("initiator") -> Nat]
          /\ pending' \in [Context("initiator") -> Nat]
      <3>1. last_rdma_selection_' \in [Sch("initiator") -> -1 .. Width("initiator") - 1]
        BY <2>5 DEF TypeOK, ReadTypeOK
      <3>2. submitted' \in [Context("initiator") -> Nat]
        BY <2>1, <2>2 DEF TypeOK, ReadTypeOK
      <3>3. pending' \in [Context("initiator") -> Nat]
        BY <2>1, <2>2 DEF TypeOK, ReadTypeOK
      <3> QED
        BY <3>1, <3>2, <3>3
    <2>4. /\ jobs' \in 0 .. Concurrent * Schedulers("initiator")
          /\ pc'["initiator"] \in Before => jobs' < Concurrent * Schedulers("initiator")
      BY <2>1, JobsTyped DEF TypeOK, ReadTypeOK, Before
    <2> QED
      BY <1>0, <2>1, <2>3, <2>4, LayoutKept DEF TypeOK, ReadTypeOK, Before
  <1>5. CASE NextRound
    <2>1. /\ UNCHANGED <<last_rdma_selection_, submitted, pending, copied>>
          /\ jobs' = 0 /\ rounds < MaxRounds /\ rounds' = rounds + 1
      BY <1>5 DEF NextRound
    <2>2. rounds' \in 1 .. MaxRounds
      BY <2>1, SchedulerAssumption DEF TypeOK, ReadTypeOK
    <2> QED
      BY <1>0, <2>1, <2>2, JobsTyped, LayoutKept DEF TypeOK, ReadTypeOK
  <1>6. CASE SayTerminate \/ Await \/ (Check /\ ~Die("initiator"))
    <2>1. UNCHANGED readVars /\ (pc'["initiator"] \in Before => pc["initiator"] \in Before)
      BY <1>6, NodeFacts DEF SayTerminate, Await, Check, TypeOK, PcTypeOK, Before
    <2> QED
      BY <1>1, <2>1
  <1>7. CASE HwStep
    <2>1. PICK c \in Context("initiator") : Succeed(c) \/ Fail(c) \/ Flush(c)
      BY <1>7 DEF HwStep
    <2>2. /\ pending[c] > 0 /\ pending' = [pending EXCEPT ![c] = @ - 1]
          /\ UNCHANGED <<pc, last_rdma_selection_, jobs, rounds, submitted>>
          /\ copied' \subseteq copied \union {Group("initiator", c[1])}
      BY <2>1 DEF Succeed, Fail, Flush, Called
    <2>3. pending' \in [Context("initiator") -> Nat]
      BY <2>2 DEF TypeOK, ReadTypeOK
    <2>4. Group("initiator", c[1]) \in 0 .. Groups("initiator") - 1
      <3>1. c[1] \in 0 .. Groups("initiator") * host["initiator"].threads - 1
        BY DEF Context, Sch, Schedulers
      <3>2. /\ Groups("initiator") \in Nat /\ 0 < Groups("initiator")
            /\ host["initiator"].threads \in Nat /\ 0 < host["initiator"].threads
        BY Layout, NodeFacts DEF TypeOK, BuildTypeOK
      <3> QED
        BY <3>1, <3>2, GroupIn DEF Group
    <2> QED
      BY <1>0, <2>2, <2>3, <2>4, LayoutKept DEF TypeOK, ReadTypeOK
  <1>8. CASE UNCHANGED vars
    BY <1>1, <1>8 DEF vars
  <1> QED
    BY <1>2, <1>3, <1>4, <1>5, <1>6, <1>7, <1>8, NodeFacts DEF Next, NodeStep

LEMMA TypeStep == TypeOK /\ [Next]_vars => TypeOK'
  BY BuildTypeStep, PcTypeStep, LinkTypeStep, WireTypeStep, ReadTypeStep DEF TypeOK

(* Types, for any hosts; in particular the round robin and the layout never *)
(* choose a context or a buffer that does not exist.                        *)
THEOREM SchedulerTypes == Spec => []TypeOK
  BY TypeInit, TypeStep, PTL DEF Spec

(* TypeOK, part by part.                                                    *)
LEMMA Typed ==
  ASSUME TypeOK
  PROVE  /\ DOMAIN sch = Node /\ DOMAIN next = Node
         /\ \A n \in Node : sch[n] \in Sch(n) /\ next[n] \in 0 .. Width(n) - 1
         /\ given \in [Node -> Nat]
         /\ DOMAIN pc = Node /\ pc["initiator"] # "await"
         /\ pc["target"] \notin {"submit", "wait", "check"}
         /\ DOMAIN ctx = Node /\ DOMAIN peer = Node
         /\ \A n \in Node : DOMAIN ctx[n] = Context(n) /\ DOMAIN peer[n] = Context(n)
         /\ last_rdma_selection_ \in [Sch("initiator") -> -1 .. Width("initiator") - 1]
         /\ submitted \in [Context("initiator") -> Nat]
         /\ pending \in [Context("initiator") -> Nat]
         /\ wire \in [Node -> Seq(Message)]
  BY DEF TypeOK, BuildTypeOK, PcTypeOK, LinkTypeOK, ReadTypeOK

-----------------------------------------------------------------------------
(* Round robin.                                                             *)

(* The contexts up to the last selection are one read ahead of the others.  *)
BalanceInv ==
  \A s \in Sch("initiator") : \E q \in Nat : \A i \in 0 .. Width("initiator") - 1 :
    submitted[<<s, i>>] = IF i <= last_rdma_selection_[s] THEN q + 1 ELSE q

LEMMA BalanceStep == TypeOK /\ BalanceInv /\ [Next]_vars => BalanceInv'
  <1> SUFFICES ASSUME TypeOK, BalanceInv, [Next]_vars PROVE BalanceInv'
    OBVIOUS
  <1>0. host' = host
    BY HostKept
  <1>1. CASE UNCHANGED <<submitted, last_rdma_selection_>>
    BY <1>0, <1>1, LayoutKept DEF BalanceInv
  <1>2. CASE Submit
    <2> DEFINE w == Width("initiator")
               t == jobs % Schedulers("initiator")
               l == last_rdma_selection_[t]
               i0 == SelectRdma(t)
    <2>0. w \in Nat /\ 0 < w
      BY LayoutTyped, NodeFacts, Typed
    <2>1. t \in Sch("initiator")
      BY SubmitTarget
    <2>2. l \in -1 .. w - 1
      BY <2>1, Typed
    <2>3. i0 = IF l + 1 = w THEN 0 ELSE l + 1
      BY <2>0, <2>2, ModSmall DEF SelectRdma
    <2>4. /\ last_rdma_selection_' = [last_rdma_selection_ EXCEPT ![t] = i0]
          /\ submitted' = [submitted EXCEPT ![<<t, i0>>] = @ + 1]
      BY <1>2 DEF Submit
    <2> HIDE DEF t, i0, w
    <2> SUFFICES ASSUME NEW s \in Sch("initiator")
                 PROVE  \E q \in Nat : \A i \in 0 .. w - 1 :
                          submitted'[<<s, i>>] = IF i <= last_rdma_selection_'[s] THEN q + 1 ELSE q
      BY <1>0, LayoutKept DEF BalanceInv, w
    <2>5. PICK q \in Nat : \A i \in 0 .. w - 1 :
            submitted[<<s, i>>] = IF i <= last_rdma_selection_[s] THEN q + 1 ELSE q
      BY DEF BalanceInv, w
    <2>6. \A i \in 0 .. w - 1 : <<s, i>> \in DOMAIN submitted
      BY Typed DEF Context, w
    <2>7. CASE s # t
      BY <2>1, <2>4, <2>5, <2>6, <2>7, Typed
    <2>8. CASE s = t
      <3>1. last_rdma_selection_'[s] = i0 /\ last_rdma_selection_[s] = l
        BY <2>1, <2>4, <2>8, Typed
      <3>2. \A i \in 0 .. w - 1 : submitted'[<<s, i>>] =
              IF i = i0 THEN submitted[<<s, i>>] + 1 ELSE submitted[<<s, i>>]
        BY <2>4, <2>6, <2>8
      <3>3. CASE l + 1 = w
        <4>1. \A i \in 0 .. w - 1 : submitted'[<<s, i>>] = IF i <= i0 THEN (q + 1) + 1 ELSE q + 1
          BY <2>0, <2>2, <2>3, <2>5, <3>1, <3>2, <3>3
        <4> QED
          BY <3>1, <4>1
      <3>4. CASE l + 1 # w
        <4>1. \A i \in 0 .. w - 1 : submitted'[<<s, i>>] = IF i <= i0 THEN q + 1 ELSE q
          BY <2>0, <2>2, <2>3, <2>5, <3>1, <3>2, <3>4
        <4> QED
          BY <3>1, <4>1
      <3> QED
        BY <3>3, <3>4
    <2> QED
      BY <2>7, <2>8
  <1> QED
    BY <1>1, <1>2
    DEF Next, NodeStep, HwStep, Construct, SendInfo, RecvInfo, ConnectContext, Delete, DeleteHangs,
        NextRound, SayTerminate, Check, Await, Succeed, Fail, Flush, Die, vars, readVars

(* The contexts of one scheduler are given as many reads, up to one, for    *)
(* ever and for any number of contexts and of concurrent reads              *)
(* (rdma_scheduler.cpp:102).                                                *)
THEOREM RoundRobin == Spec => []RoundRobinBalanced
  <1>1. Init => BalanceInv
    <2> SUFFICES ASSUME Init PROVE BalanceInv
      OBVIOUS
    <2>1. \A s \in Sch("initiator") : \A i \in 0 .. Width("initiator") - 1 :
            submitted[<<s, i>>] = IF i <= last_rdma_selection_[s] THEN 0 + 1 ELSE 0
      BY DEF Init, Context
    <2> QED
      BY <2>1 DEF BalanceInv
  <1>2. TypeOK /\ BalanceInv => RoundRobinBalanced
    <2> SUFFICES ASSUME TypeOK, BalanceInv, NEW c \in Context("initiator"),
                        NEW d \in Context("initiator"), c[1] = d[1]
                 PROVE  submitted[c] - submitted[d] <= 1
      BY DEF RoundRobinBalanced
    <2>1. /\ c = <<c[1], c[2]>> /\ d = <<c[1], d[2]>> /\ c[1] \in Sch("initiator")
          /\ c[2] \in 0 .. Width("initiator") - 1 /\ d[2] \in 0 .. Width("initiator") - 1
      BY DEF Context
    <2> QED
      BY <2>1 DEF BalanceInv
  <1> QED
    BY <1>1, <1>2, BalanceStep, SchedulerTypes, PTL DEF Spec

-----------------------------------------------------------------------------
(* The exchange of descriptions.                                            *)

Talking(n) == pc[n] \in {"build", "send", "recv", "connect", "submit", "wait", "await"}

Past == {"check", "delete", "done", "stuck", "dead"}

(* How many descriptions n has sent, and received.                          *)
Sent(n) ==
  IF pc[n] = "build" THEN 0 ELSE IF pc[n] = "send" THEN sch[n] ELSE sch[n] + 1

Received(n) ==
  IF pc[n] = "build" THEN 0 ELSE IF pc[n] \in {"send", "recv"} THEN sch[n] ELSE sch[n] + 1

(* A message is TERMINATE, which only the initiator says and then no more,  *)
(* or the description whose turn it is.                                     *)
WordInv ==
  \A n \in Node : \A i \in 1 .. Len(wire[n]) :
    /\ wire[n][i] = Terminate => pc[Other[n]] \in Past
    /\ Talking(n) /\ wire[n][i] # Terminate =>
         /\ wire[n][i] = [sch |-> Received(n) + i - 1, size |-> Width(Other[n])]
         /\ Received(n) + i - 1 \in Sch(Other[n])

CountInv ==
  \A n \in Node :
    Talking(n) /\ Talking(Other[n]) => Received(n) + Len(wire[n]) = Sent(Other[n])

GivenInv ==
  \A n \in Node : pc[n] = "connect" =>
    given[n] = sch[n] /\ sch[n] \in Sch(Other[n]) /\ Width(n) = Width(Other[n])

(* Who is through has as many schedulers as the peer, or fewer.             *)
ThroughInv ==
  \A n \in Node : pc[n] \in {"submit", "wait", "await", "check", "delete", "done", "stuck"} =>
    sch[n] + 1 = Schedulers(n) /\ Schedulers(n) <= Schedulers(Other[n])

ExchangeInv == WordInv /\ CountInv /\ GivenInv /\ ThroughInv /\ PairedByPosition

LEMMA ExchangeInit == Init => ExchangeInv
  <1> SUFFICES ASSUME Init PROVE ExchangeInv
    OBVIOUS
  <1>1. \A n \in Node : pc[n] = "build" /\ wire[n] = <<>> /\ pc[Other[n]] = "build"
    BY NodeFacts DEF Init
  <1>2. WordInv /\ CountInv
    BY <1>1 DEF WordInv, CountInv, Sent, Received
  <1>3. GivenInv /\ ThroughInv
    BY <1>1 DEF GivenInv, ThroughInv
  <1>4. PairedByPosition
    BY DEF Init, PairedByPosition
  <1> QED
    BY <1>2, <1>3, <1>4 DEF ExchangeInv

(* A step that only makes a process leave the conversation, or that goes on *)
(* within the same part of it.                                              *)
LEMMA ExchangeFrame ==
  ASSUME TypeOK, ExchangeInv, host' = host, wire' = wire, UNCHANGED <<sch, given, peer>>,
         \A n \in Node :
           \/ pc'[n] = pc[n]
           \/ pc[n] = "submit" /\ pc'[n] = "wait"
           \/ pc[n] = "wait" /\ pc'[n] = "submit"
           \/ pc[n] = "check" /\ pc'[n] = "delete"
           \/ pc[n] = "delete" /\ pc'[n] \in {"done", "stuck"}
  PROVE  ExchangeInv'
  <1>1. \A n \in Node : /\ Talking(n)' = Talking(n)
                        /\ Sent(n)' = Sent(n) /\ Received(n)' = Received(n)
                        /\ pc[n] \in Past => pc'[n] \in Past
    BY DEF Talking, Sent, Received, Past
  <1>2. WordInv'
    BY <1>1, LayoutKept, NodeFacts DEF ExchangeInv, WordInv, Terminate
  <1>3. CountInv'
    BY <1>1, LayoutKept, NodeFacts DEF ExchangeInv, CountInv
  <1>4. GivenInv' /\ ThroughInv'
    BY LayoutKept DEF ExchangeInv, GivenInv, ThroughInv
  <1>5. PairedByPosition'
    BY LayoutKept DEF ExchangeInv, PairedByPosition
  <1> QED
    BY <1>2, <1>3, <1>4, <1>5 DEF ExchangeInv

LEMMA DieExchange ==
  ASSUME TypeOK, ExchangeInv, NEW d \in Node, Die(d)
  PROVE  ExchangeInv'
  <1>0. host' = host /\ UNCHANGED <<sch, given, peer>>
    BY DEF Die, buildVars
  <1>1. \A n \in Node : pc'[n] = IF n = d THEN "dead" ELSE pc[n]
    BY Typed DEF Die
  <1>2. PICK k \in 0 .. Len(wire[Other[d]]) :
          wire' = [wire EXCEPT ![d] = <<>>, ![Other[d]] = SubSeq(@, 1, k)]
    BY DEF Die
  <1>3. wire'[d] = <<>> /\ wire'[Other[d]] = SubSeq(wire[Other[d]], 1, k)
    BY <1>2, NodeFacts, Typed
  <1>4. /\ Len(wire'[Other[d]]) = k
        /\ \A i \in 1 .. k : wire'[Other[d]][i] = wire[Other[d]][i]
    BY <1>3, NodeFacts, Typed
  <1>5. \A n \in Node : n # d => /\ Talking(n)' = Talking(n) /\ Received(n)' = Received(n)
    BY <1>0, <1>1 DEF Talking, Received
  <1>6. WordInv'
    <2> SUFFICES ASSUME NEW i \in 1 .. k
                 PROVE  LET n == Other[d] IN
                        /\ wire[n][i] = Terminate => pc'[Other[n]] \in Past
                        /\ Talking(n)' /\ wire[n][i] # Terminate =>
                             /\ wire[n][i] = [sch |-> Received(n)' + i - 1, size |-> Width(Other[n])]
                             /\ Received(n)' + i - 1 \in Sch(Other[n])
      <3>1. Len(wire'[d]) = 0 /\ 1 .. 0 = {}
        BY <1>3
      <3>2. \A n \in Node : n = d \/ n = Other[d]
        BY NodeFacts
      <3>3. \A n \in Node : Width(n)' = Width(n) /\ Sch(n)' = Sch(n)
        BY <1>0, LayoutKept
      <3> QED
        BY <1>4, <3>1, <3>2, <3>3, NodeFacts DEF WordInv, Terminate
    <2> DEFINE n == Other[d]
    <2>1. n \in Node /\ n # d /\ Other[n] = d
      BY NodeFacts
    <2>2. i \in 1 .. Len(wire[n])
      BY <2>1, Typed
    <2>3. /\ wire[n][i] = Terminate => pc[d] \in Past
          /\ Talking(n) /\ wire[n][i] # Terminate =>
               /\ wire[n][i] = [sch |-> Received(n) + i - 1, size |-> Width(d)]
               /\ Received(n) + i - 1 \in Sch(d)
      BY <2>1, <2>2 DEF ExchangeInv, WordInv
    <2>4. pc'[d] \in Past /\ Talking(n)' = Talking(n) /\ Received(n)' = Received(n)
      BY <1>1, <1>5, <2>1 DEF Past
    <2> QED
      BY <2>1, <2>3, <2>4
  <1>7. CountInv'
    BY <1>1, NodeFacts DEF CountInv, Talking
  <1>8. GivenInv' /\ ThroughInv'
    BY <1>0, <1>1, LayoutKept DEF ExchangeInv, GivenInv, ThroughInv
  <1>9. PairedByPosition'
    BY <1>0, LayoutKept DEF ExchangeInv, PairedByPosition
  <1> QED
    BY <1>6, <1>7, <1>8, <1>9 DEF ExchangeInv

LEMMA ConstructExchange ==
  ASSUME TypeOK, ExchangeInv, NEW d \in Node, Construct(d)
  PROVE  ExchangeInv'
  <1>1. CASE Die(d)
    BY <1>1, DieExchange
  <1>2. CASE ~Die(d)
    <2>0. /\ host' = host /\ UNCHANGED <<given, peer, wire>> /\ pc[d] = "build"
          /\ \A n \in Node : n # d => pc'[n] = pc[n] /\ sch'[n] = sch[n]
          /\ \/ pc'[d] = "build"
             \/ pc'[d] = "send" /\ sch'[d] = 0
      <3>1. /\ host' = host /\ UNCHANGED <<given, peer, wire>> /\ pc[d] = "build"
            /\ \/ sch' = [sch EXCEPT ![d] = @ + 1] /\ pc' = pc
               \/ sch' = [sch EXCEPT ![d] = 0] /\ pc' = [pc EXCEPT ![d] = "send"]
        BY <1>2 DEF Construct
      <3> QED
        BY <3>1, Typed
    <2>1. \A n \in Node : /\ Talking(n)' = Talking(n)
                          /\ Sent(n)' = Sent(n) /\ Received(n)' = Received(n)
                          /\ pc[n] \in Past => pc'[n] \in Past
      BY <2>0 DEF Talking, Sent, Received, Past
    <2>2. WordInv' /\ CountInv'
      BY <2>0, <2>1, LayoutKept, NodeFacts DEF ExchangeInv, WordInv, CountInv, Terminate
    <2>3. GivenInv' /\ ThroughInv'
      BY <2>0, LayoutKept DEF ExchangeInv, GivenInv, ThroughInv
    <2>4. PairedByPosition'
      BY <2>0, LayoutKept DEF ExchangeInv, PairedByPosition
    <2> QED
      BY <2>2, <2>3, <2>4 DEF ExchangeInv
  <1> QED
    BY <1>1, <1>2

LEMMA SendInfoExchange ==
  ASSUME TypeOK, ExchangeInv, NEW d \in Node, SendInfo(d)
  PROVE  ExchangeInv'
  <1> DEFINE p == Other[d]
             msg == [sch |-> sch[d], size |-> Width(d)]
  <1>0. /\ host' = host /\ UNCHANGED <<sch, given, peer>> /\ pc[d] = "send"
        /\ \A n \in Node : pc'[n] = IF n = d THEN "recv" ELSE pc[n]
    BY Typed DEF SendInfo, buildVars, linkVars
  <1>1. p \in Node /\ p # d /\ Other[p] = d
    BY NodeFacts
  <1>2. wire'[d] = wire[d] /\ wire'[p] = Append(wire[p], msg)
    BY <1>1, Typed DEF SendInfo
  <1>3. \A n \in Node : /\ Talking(n)' = Talking(n) /\ Received(n)' = Received(n)
                        /\ Sent(n)' = IF n = d THEN sch[d] + 1 ELSE Sent(n)
                        /\ pc[n] \in Past <=> pc'[n] \in Past
    BY <1>0 DEF Talking, Sent, Received, Past
  <1>4. sch[d] \in Sch(d) /\ sch[d] \in Nat /\ msg # Terminate /\ Sent(d) = sch[d] /\ Talking(d)
    BY <1>0, LayoutTyped, Typed DEF Terminate, Sent, Talking
  <1>5. Talking(p) => Received(p) + Len(wire[p]) = sch[d]
    BY <1>1, <1>4 DEF ExchangeInv, CountInv
  <1>6. Received(p) \in Nat
    <2>1. sch[p] \in Nat
      BY <1>1, LayoutTyped, Typed
    <2> QED
      BY <2>1 DEF Received
  <1>7. /\ Len(wire'[p]) = Len(wire[p]) + 1 /\ Len(wire[p]) \in Nat
        /\ \A i \in 1 .. Len(wire'[p]) :
             \/ i \in 1 .. Len(wire[p]) /\ wire'[p][i] = wire[p][i]
             \/ i = Len(wire[p]) + 1 /\ wire'[p][i] = msg
    <2> HIDE DEF msg, p
    <2>1. wire[p] \in Seq(Message) /\ msg \in Message
      BY <1>1, <1>4, LayoutTyped, Typed DEF Message, msg
    <2> QED
      BY <1>2, <2>1
  <1>8. WordInv'
    <2> SUFFICES ASSUME NEW n \in Node, NEW i \in 1 .. Len(wire'[n])
                 PROVE  /\ wire'[n][i] = Terminate => pc'[Other[n]] \in Past
                        /\ Talking(n)' /\ wire'[n][i] # Terminate =>
                             /\ wire'[n][i] = [sch |-> Received(n)' + i - 1, size |-> Width(Other[n])]
                             /\ Received(n)' + i - 1 \in Sch(Other[n])
      BY <1>0, LayoutKept DEF WordInv, Terminate
    <2>1. CASE i \in 1 .. Len(wire[n]) /\ wire'[n][i] = wire[n][i]
      BY <1>3, <2>1, NodeFacts DEF ExchangeInv, WordInv
    <2>2. CASE n = p /\ i = Len(wire[p]) + 1 /\ wire'[p][i] = msg
      <3>1. Talking(p) => Received(p) + i - 1 = sch[d]
        BY <1>5, <1>6, <1>7, <2>2
      <3> QED
        BY <1>1, <1>3, <1>4, <2>2, <3>1
    <2> QED
      BY <1>1, <1>2, <1>7, <2>1, <2>2, NodeFacts
  <1>9. CountInv'
    <2> SUFFICES ASSUME NEW n \in Node, Talking(n), Talking(Other[n])
                 PROVE  Received(n) + Len(wire'[n]) = Sent(Other[n])'
      BY <1>3, NodeFacts DEF CountInv
    <2>1. CASE n = p
      BY <1>1, <1>3, <1>5, <1>6, <1>7, <2>1
    <2>2. CASE n = d
      BY <1>1, <1>2, <1>3, <2>2, NodeFacts DEF ExchangeInv, CountInv
    <2> QED
      BY <2>1, <2>2, NodeFacts
  <1>10. GivenInv' /\ ThroughInv'
    BY <1>0, LayoutKept DEF ExchangeInv, GivenInv, ThroughInv
  <1>11. PairedByPosition'
    BY <1>0, LayoutKept DEF ExchangeInv, PairedByPosition
  <1> QED
    BY <1>8, <1>9, <1>10, <1>11 DEF ExchangeInv

LEMMA TailElements ==
  ASSUME NEW S, NEW s \in Seq(S), s # <<>>
  PROVE  /\ Head(s) = s[1] /\ 1 \in 1 .. Len(s) /\ Len(s) \in Nat
         /\ Len(Tail(s)) = Len(s) - 1
         /\ \A i \in 1 .. Len(Tail(s)) : i + 1 \in 1 .. Len(s) /\ Tail(s)[i] = s[i + 1]
  OBVIOUS

LEMMA RecvInfoExchange ==
  ASSUME TypeOK, ExchangeInv, NEW d \in Node, RecvInfo(d)
  PROVE  ExchangeInv'
  <1>1. CASE Die(d)
    BY <1>1, DieExchange
  <1>2. CASE ~Die(d)
    <2> DEFINE head == Head(wire[d])
    <2>0. /\ host' = host /\ UNCHANGED <<sch, peer>> /\ pc[d] = "recv"
          /\ \A n \in Node : pc'[n] = IF n = d THEN "connect" ELSE pc[n]
          /\ \A n \in Node : given'[n] = IF n = d THEN head.sch ELSE given[n]
          /\ \A n \in Node : wire'[n] = IF n = d THEN Tail(wire[d]) ELSE wire[n]
          /\ head.size = Width(d)
      BY <1>2, Typed DEF RecvInfo, linkVars
    <2>1. wire[d] \in Seq(Message) /\ wire[d] # <<>>
      BY Typed DEF RecvInfo
    <2>2. /\ head = wire[d][1] /\ 1 \in 1 .. Len(wire[d]) /\ Len(wire[d]) \in Nat
          /\ Len(wire'[d]) = Len(wire[d]) - 1
          /\ \A i \in 1 .. Len(wire'[d]) : i + 1 \in 1 .. Len(wire[d]) /\ wire'[d][i] = wire[d][i + 1]
      <3>1. wire'[d] = Tail(wire[d])
        BY <2>0
      <3> QED
        BY <2>1, <3>1, TailElements
    <2>3. head # Terminate
      BY <2>0, LayoutTyped, Typed DEF Terminate
    <2>4. Received(d) = sch[d] /\ Talking(d) /\ sch[d] \in Nat
      BY <2>0, LayoutTyped, Typed DEF Received, Talking
    <2>5. head = [sch |-> sch[d], size |-> Width(Other[d])] /\ sch[d] \in Sch(Other[d])
      <3>1. head = [sch |-> sch[d] + 1 - 1, size |-> Width(Other[d])] /\ sch[d] + 1 - 1 \in Sch(Other[d])
        BY <2>2, <2>3, <2>4 DEF ExchangeInv, WordInv
      <3> QED
        BY <2>4, <3>1
    <2>6. \A n \in Node : /\ Talking(n)' = Talking(n) /\ Sent(n)' = Sent(n)
                          /\ Received(n)' = IF n = d THEN sch[d] + 1 ELSE Received(n)
                          /\ pc[n] \in Past <=> pc'[n] \in Past
      BY <2>0 DEF Talking, Sent, Received, Past
    <2>7. WordInv'
      <3> SUFFICES ASSUME NEW n \in Node, NEW i \in 1 .. Len(wire'[n])
                   PROVE  /\ wire'[n][i] = Terminate => pc'[Other[n]] \in Past
                          /\ Talking(n)' /\ wire'[n][i] # Terminate =>
                               /\ wire'[n][i] = [sch |-> Received(n)' + i - 1, size |-> Width(Other[n])]
                               /\ Received(n)' + i - 1 \in Sch(Other[n])
        BY <2>0, LayoutKept DEF WordInv, Terminate
      <3>1. CASE n # d
        BY <2>0, <2>6, <3>1, NodeFacts DEF ExchangeInv, WordInv
      <3>2. CASE n = d
        <4>1. /\ wire[d][i + 1] = Terminate => pc[Other[d]] \in Past
              /\ wire[d][i + 1] # Terminate =>
                   /\ wire[d][i + 1] = [sch |-> sch[d] + (i + 1) - 1, size |-> Width(Other[d])]
                   /\ sch[d] + (i + 1) - 1 \in Sch(Other[d])
          BY <2>2, <2>4, <3>2 DEF ExchangeInv, WordInv
        <4>2. sch[d] + (i + 1) - 1 = (sch[d] + 1) + i - 1
          BY <2>4
        <4> QED
          BY <2>2, <2>6, <3>2, <4>1, <4>2, NodeFacts
      <3> QED
        BY <3>1, <3>2
    <2>8. CountInv'
      <3> SUFFICES ASSUME NEW n \in Node, Talking(n), Talking(Other[n])
                   PROVE  Received(n)' + Len(wire'[n]) = Sent(Other[n])
        BY <2>6, NodeFacts DEF CountInv
      <3>1. Received(n) + Len(wire[n]) = Sent(Other[n])
        BY DEF ExchangeInv, CountInv
      <3>2. CASE n = d
        <4>1. Len(wire'[d]) = Len(wire[d]) - 1 /\ Len(wire[d]) \in Nat
          BY <2>2
        <4>2. Received(d)' = sch[d] + 1 /\ Received(d) = sch[d] /\ sch[d] \in Nat
          BY <2>4, <2>6
        <4>3. sch[d] + Len(wire[d]) = Sent(Other[d])
          BY <3>1, <3>2, <4>2
        <4>4. (sch[d] + 1) + (Len(wire[d]) - 1) = sch[d] + Len(wire[d])
          BY <4>1, <4>2
        <4> QED
          BY <3>2, <4>1, <4>2, <4>3, <4>4
      <3>3. CASE n # d
        BY <2>0, <2>6, <3>1, <3>3
      <3> QED
        BY <3>2, <3>3
    <2>9. GivenInv'
      <3>1. given'[d] = sch[d] /\ Width(d) = Width(Other[d])
        BY <2>0, <2>5
      <3> QED
        BY <2>0, <2>5, <3>1, LayoutKept DEF ExchangeInv, GivenInv
    <2>10. ThroughInv' /\ PairedByPosition'
      BY <2>0, LayoutKept DEF ExchangeInv, ThroughInv, PairedByPosition
    <2> QED
      BY <2>7, <2>8, <2>9, <2>10 DEF ExchangeInv
  <1> QED
    BY <1>1, <1>2

LEMMA ConnectContextExchange ==
  ASSUME TypeOK, ExchangeInv, NEW d \in Node, ConnectContext(d)
  PROVE  ExchangeInv'
  <1> DEFINE c == <<sch[d], next[d]>>
  <1>1. CASE Die(d)
    BY <1>1, DieExchange
  <1>2. CASE ~Die(d)
    <2>0. /\ host' = host /\ UNCHANGED <<given, wire>> /\ pc[d] = "connect" /\ AfterConnect(d)
          /\ peer' = [peer EXCEPT ![d][c] = <<given[d], next[d]>>]
      BY <1>2 DEF ConnectContext
    <2>1. /\ sch[d] \in Sch(d) /\ sch[d] \in Nat /\ next[d] \in 0 .. Width(d) - 1
          /\ given[d] = sch[d] /\ sch[d] \in Sch(Other[d]) /\ Width(d) = Width(Other[d])
      BY <2>0, LayoutTyped, Typed DEF ExchangeInv, GivenInv
    <2>2. /\ \A n \in Node : n # d => pc'[n] = pc[n] /\ sch'[n] = sch[n]
          /\ \/ pc'[d] = "connect" /\ sch'[d] = sch[d]
             \/ pc'[d] = "send" /\ sch'[d] = sch[d] + 1
             \/ pc'[d] \in {"submit", "await"} /\ sch'[d] = sch[d] /\ sch[d] + 1 \notin Sch(d)
      BY <2>0, Typed DEF AfterConnect
    <2>3. \A n \in Node : /\ Talking(n)' = Talking(n) /\ Sent(n)' = Sent(n)
                          /\ Received(n)' = Received(n)
                          /\ pc[n] \in Past <=> pc'[n] \in Past
      BY <2>0, <2>2 DEF Talking, Sent, Received, Past
    <2>4. WordInv' /\ CountInv'
      BY <2>0, <2>3, LayoutKept, NodeFacts DEF ExchangeInv, WordInv, CountInv, Terminate
    <2>5. GivenInv'
      BY <2>0, <2>1, <2>2, LayoutKept DEF ExchangeInv, GivenInv
    <2>6. ThroughInv'
      <3>1. ASSUME sch[d] + 1 \notin Sch(d)
            PROVE  sch[d] + 1 = Schedulers(d) /\ Schedulers(d) <= Schedulers(Other[d])
        <4>1. Schedulers(d) \in Nat /\ Schedulers(Other[d]) \in Nat
          BY LayoutTyped, NodeFacts
        <4> QED
          BY <2>1, <3>1, <4>1 DEF Sch
      <3> QED
        BY <2>0, <2>2, <3>1, LayoutKept DEF ExchangeInv, ThroughInv
    <2>7. PairedByPosition'
      <3> SUFFICES ASSUME NEW n \in Node, NEW x \in Context(n), peer'[n][x] # NULL
                   PROVE  peer'[n][x] = x /\ x \in Context(Other[n])
        BY <2>0, LayoutKept DEF PairedByPosition
      <3>1. CASE n = d /\ x = c
        BY <2>0, <2>1, <3>1, Typed DEF Context
      <3>2. CASE ~(n = d /\ x = c)
        BY <2>0, <3>2, Typed DEF ExchangeInv, PairedByPosition
      <3> QED
        BY <3>1, <3>2
    <2> QED
      BY <2>4, <2>5, <2>6, <2>7 DEF ExchangeInv
  <1> QED
    BY <1>1, <1>2

LEMMA SayTerminateExchange ==
  ASSUME TypeOK, ExchangeInv, SayTerminate
  PROVE  ExchangeInv'
  <1>0. /\ host' = host /\ UNCHANGED <<sch, given, peer>> /\ pc["initiator"] = "wait"
        /\ pc'["initiator"] = "check" /\ pc'["target"] = pc["target"]
        /\ wire'["initiator"] = wire["initiator"]
        /\ wire'["target"] = Append(wire["target"], Terminate)
    BY NodeFacts, Typed DEF SayTerminate, buildVars, linkVars, readVars
  <1>1. \A n \in Node : n = "initiator" \/ n = "target"
    BY DEF Node
  <1>2. Other["initiator"] = "target" /\ Other["target"] = "initiator"
    BY DEF Other
  <1>3. /\ ~Talking("initiator")' /\ Talking("target")' = Talking("target")
        /\ Received("target")' = Received("target")
        /\ pc'["initiator"] \in Past /\ (pc["target"] \in Past <=> pc'["target"] \in Past)
    BY <1>0 DEF Talking, Received, Past
  <1>4. \A i \in 1 .. Len(wire'["target"]) :
          \/ i \in 1 .. Len(wire["target"]) /\ wire'["target"][i] = wire["target"][i]
          \/ wire'["target"][i] = Terminate
    <2>1. wire["target"] \in Seq(Message) /\ Terminate \in Message
      BY NodeFacts, Typed DEF Message
    <2> HIDE DEF Terminate
    <2> QED
      BY <1>0, <2>1
  <1>5. WordInv'
    <2> SUFFICES ASSUME NEW n \in Node, NEW i \in 1 .. Len(wire'[n])
                 PROVE  /\ wire'[n][i] = Terminate => pc'[Other[n]] \in Past
                        /\ Talking(n)' /\ wire'[n][i] # Terminate =>
                             /\ wire'[n][i] = [sch |-> Received(n)' + i - 1, size |-> Width(Other[n])]
                             /\ Received(n)' + i - 1 \in Sch(Other[n])
      BY <1>0, LayoutKept DEF WordInv, Terminate
    <2>1. CASE n = "initiator"
      <3>1. wire["initiator"][i] = Terminate => pc["target"] \in Past
        BY <1>0, <1>2, <2>1, NodeFacts DEF ExchangeInv, WordInv
      <3> QED
        BY <1>0, <1>2, <1>3, <2>1, <3>1
    <2>2. CASE n = "target"
      BY <1>2, <1>3, <1>4, <2>2, NodeFacts DEF ExchangeInv, WordInv
    <2> QED
      BY <1>1, <2>1, <2>2
  <1>6. CountInv'
    BY <1>1, <1>2, <1>3 DEF CountInv
  <1>7. GivenInv' /\ ThroughInv'
    BY <1>0, <1>1, LayoutKept DEF ExchangeInv, GivenInv, ThroughInv
  <1>8. PairedByPosition'
    BY <1>0, LayoutKept DEF ExchangeInv, PairedByPosition
  <1> QED
    BY <1>5, <1>6, <1>7, <1>8 DEF ExchangeInv

LEMMA AwaitExchange ==
  ASSUME TypeOK, ExchangeInv, Await
  PROVE  ExchangeInv'
  <1>0. /\ host' = host /\ UNCHANGED <<sch, given, peer>> /\ pc["target"] = "await"
        /\ pc'["target"] = "delete" /\ pc'["initiator"] = pc["initiator"]
        /\ wire'["initiator"] = wire["initiator"]
        /\ wire'["target"] = Tail(wire["target"]) /\ wire["target"] # <<>>
    BY NodeFacts, Typed DEF Await, buildVars, linkVars, readVars
  <1>1. \A n \in Node : n = "initiator" \/ n = "target"
    BY DEF Node
  <1>2. Other["initiator"] = "target" /\ Other["target"] = "initiator"
    BY DEF Other
  <1>3. /\ ~Talking("target")' /\ Talking("initiator")' = Talking("initiator")
        /\ Received("initiator")' = Received("initiator")
        /\ pc'["target"] \in Past /\ (pc["initiator"] \in Past <=> pc'["initiator"] \in Past)
    BY <1>0 DEF Talking, Received, Past
  <1>4. \A i \in 1 .. Len(wire'["target"]) :
          i + 1 \in 1 .. Len(wire["target"]) /\ wire'["target"][i] = wire["target"][i + 1]
    <2>1. wire["target"] \in Seq(Message)
      BY NodeFacts, Typed
    <2> QED
      BY <1>0, <2>1, TailElements
  <1>5. WordInv'
    <2> SUFFICES ASSUME NEW n \in Node, NEW i \in 1 .. Len(wire'[n])
                 PROVE  /\ wire'[n][i] = Terminate => pc'[Other[n]] \in Past
                        /\ Talking(n)' /\ wire'[n][i] # Terminate =>
                             /\ wire'[n][i] = [sch |-> Received(n)' + i - 1, size |-> Width(Other[n])]
                             /\ Received(n)' + i - 1 \in Sch(Other[n])
      BY <1>0, LayoutKept DEF WordInv, Terminate
    <2>1. CASE n = "initiator"
      BY <1>0, <1>2, <1>3, <2>1, NodeFacts DEF ExchangeInv, WordInv
    <2>2. CASE n = "target"
      <3>1. i + 1 \in 1 .. Len(wire["target"]) /\ wire'["target"][i] = wire["target"][i + 1]
        BY <1>4, <2>2
      <3>2. wire["target"][i + 1] = Terminate => pc["initiator"] \in Past
        BY <1>2, <3>1, NodeFacts DEF ExchangeInv, WordInv
      <3> QED
        BY <1>2, <1>3, <2>2, <3>1, <3>2
    <2> QED
      BY <1>1, <2>1, <2>2
  <1>6. CountInv'
    BY <1>1, <1>2, <1>3 DEF CountInv
  <1>7. GivenInv'
    BY <1>0, <1>1, LayoutKept DEF ExchangeInv, GivenInv
  <1>8. ThroughInv'
    BY <1>0, <1>1, LayoutKept DEF ExchangeInv, ThroughInv
  <1>9. PairedByPosition'
    BY <1>0, LayoutKept DEF ExchangeInv, PairedByPosition
  <1> QED
    BY <1>5, <1>6, <1>7, <1>8, <1>9 DEF ExchangeInv

LEMMA ExchangeStep == TypeOK /\ ExchangeInv /\ [Next]_vars => ExchangeInv'
  <1> SUFFICES ASSUME TypeOK, ExchangeInv, [Next]_vars PROVE ExchangeInv'
    OBVIOUS
  <1>0. host' = host
    BY HostKept
  <1>1. CASE UNCHANGED vars
    BY <1>0, <1>1, ExchangeFrame DEF vars, buildVars, linkVars
  <1>2. CASE Submit \/ NextRound
    <2>1. /\ wire' = wire /\ UNCHANGED <<sch, given, peer>>
          /\ \/ pc["initiator"] = "submit" /\ pc'["initiator"] \in {"submit", "wait"}
             \/ pc["initiator"] = "wait" /\ pc'["initiator"] = "submit"
          /\ \A n \in Node : n # "initiator" => pc'[n] = pc[n]
      BY <1>2, NodeFacts, Typed DEF Submit, NextRound, buildVars, linkVars
    <2> QED
      BY <1>0, <2>1, ExchangeFrame
  <1>3. CASE Check
    <2>1. CASE Die("initiator")
      BY <2>1, DieExchange, NodeFacts
    <2>2. CASE ~Die("initiator")
      <3>1. /\ wire' = wire /\ UNCHANGED <<sch, given, peer>>
            /\ pc["initiator"] = "check" /\ pc'["initiator"] = "delete"
            /\ \A n \in Node : n # "initiator" => pc'[n] = pc[n]
        BY <1>3, <2>2, NodeFacts, Typed DEF Check, buildVars, linkVars
      <3> QED
        BY <1>0, <3>1, ExchangeFrame
    <2> QED
      BY <2>1, <2>2
  <1>4. ASSUME NEW n \in Node, Delete(n) \/ DeleteHangs(n)
        PROVE  ExchangeInv'
    BY <1>0, <1>4, ExchangeFrame, Typed DEF Delete, DeleteHangs, buildVars
  <1>5. CASE HwStep
    BY <1>0, <1>5, ExchangeFrame DEF HwStep, Succeed, Fail, Flush, buildVars, linkVars
  <1> QED
    BY <1>1, <1>2, <1>3, <1>4, <1>5, ConstructExchange, SendInfoExchange, RecvInfoExchange,
       ConnectContextExchange, SayTerminateExchange, AwaitExchange
    DEF Next, NodeStep

LEMMA ExchangeInvariance == Spec => []ExchangeInv
  BY ExchangeInit, ExchangeStep, SchedulerTypes, PTL DEF Spec

(* A connected context is connected to the one of the same position, and    *)
(* there is one, for any two hosts, though nothing in a description says    *)
(* whose it is: the two ends take turns, and each checks the number of      *)
(* contexts (rdma_scheduler.cpp:67-76, scheduler_bench.cpp:121-130).        *)
THEOREM ConnectedByPosition == Spec => []PairedByPosition
  BY ExchangeInvariance, PTL DEF ExchangeInv

-----------------------------------------------------------------------------
(* The shutdown.                                                            *)

(* Reads are under way only while the initiator submits or waits, and a     *)
(* target that has heard a word leaves an initiator that is past waiting,   *)
(* or one that can never begin.                                             *)
ShutdownInv ==
  /\ \A c \in Context("initiator") : pending[c] > 0 => pc["initiator"] \in {"submit", "wait"}
  /\ pc["target"] \in {"delete", "done", "stuck"} =>
       pc["initiator"] \in Past \/ Schedulers("initiator") > Schedulers("target")

LEMMA ShutdownStep == TypeOK /\ ExchangeInv /\ ShutdownInv /\ [Next]_vars => ShutdownInv'
  <1> SUFFICES ASSUME TypeOK, ExchangeInv, ShutdownInv, [Next]_vars PROVE ShutdownInv'
    OBVIOUS
  <1>0. host' = host
    BY HostKept
  <1> DEFINE Reading == \A c \in Context("initiator") :
               pending'[c] > 0 => pc'["initiator"] \in {"submit", "wait"}
             Leaving == pc'["target"] \in {"delete", "done", "stuck"} =>
               pc'["initiator"] \in Past \/ Schedulers("initiator") > Schedulers("target")
  <1> SUFFICES Reading /\ Leaving
    BY <1>0, LayoutKept DEF ShutdownInv
  <1>1. ASSUME pc' = pc, \A c \in Context("initiator") : pending'[c] > 0 => pending[c] > 0
        PROVE  Reading /\ Leaving
    BY <1>1, Typed DEF ShutdownInv
  <1>2. ASSUME NEW n \in Node, Die(n)
        PROVE  Reading /\ Leaving
    <2>1. \A m \in Node : pc'[m] = IF m = n THEN "dead" ELSE pc[m]
      BY <1>2, Typed DEF Die
    <2>2. pending' = IF n = "initiator" THEN [c \in DOMAIN pending |-> 0] ELSE pending
      BY <1>2 DEF Die
    <2>3. Reading
      BY <2>1, <2>2, NodeFacts, Typed DEF ShutdownInv
    <2>4. Leaving
      BY <2>1, NodeFacts DEF ShutdownInv, Past
    <2> QED
      BY <2>3, <2>4
  <1>3. ASSUME NEW n \in Node, ~Die(n),
               Construct(n) \/ SendInfo(n) \/ RecvInfo(n) \/ ConnectContext(n)
        PROVE  Reading /\ Leaving
    <2>1. /\ pending' = pending /\ \A m \in Node : m # n => pc'[m] = pc[m]
          /\ pc[n] \in {"build", "send", "recv", "connect"} /\ pc'[n] \notin {"delete", "done", "stuck"}
      <3>1. /\ pending' = pending /\ pc[n] \in {"build", "send", "recv", "connect"}
            /\ \/ pc' = pc
               \/ \E p \in {"send", "recv", "connect", "submit", "await"} : pc' = [pc EXCEPT ![n] = p]
        <4>1. CASE Construct(n) \/ SendInfo(n)
          BY <1>3, <4>1 DEF Construct, SendInfo, readVars
        <4>2. CASE RecvInfo(n) \/ ConnectContext(n)
          BY <1>3, <4>2 DEF RecvInfo, ConnectContext, AfterConnect, readVars
        <4> QED
          BY <1>3, <4>1, <4>2
      <3> QED
        BY <3>1, Typed
    <2> QED
      BY <2>1, NodeFacts DEF ShutdownInv, Past
  <1>4. CASE Submit
    BY <1>4, NodeFacts, Typed DEF Submit, ShutdownInv, Past
  <1>5. CASE NextRound \/ SayTerminate
    BY <1>5, NodeFacts, Typed DEF NextRound, SayTerminate, Waited, ShutdownInv, Past, readVars
  <1>6. CASE Check /\ ~Die("initiator")
    BY <1>6, NodeFacts, Typed DEF Check, ShutdownInv, Past, readVars
  <1>7. CASE Await
    <2>1. /\ pending' = pending /\ pc'["initiator"] = pc["initiator"]
          /\ pc["target"] = "await" /\ wire["target"] # <<>> /\ Other["target"] = "initiator"
      BY <1>7, NodeFacts, Typed DEF Await, readVars, Other
    <2>2. pc["initiator"] \in Past \/ Schedulers("initiator") > Schedulers("target")
      <3>1. 1 \in 1 .. Len(wire["target"])
        BY <2>1, NodeFacts, Typed
      <3>2. Talking("target") /\ Received("target") = Schedulers("target")
        BY <2>1, NodeFacts DEF Talking, Received, ExchangeInv, ThroughInv
      <3>3. CASE wire["target"][1] = Terminate
        BY <2>1, <3>1, <3>3, NodeFacts DEF ExchangeInv, WordInv
      <3>4. CASE wire["target"][1] # Terminate
        <4>1. Schedulers("target") + 1 - 1 \in Sch("initiator")
          BY <2>1, <3>1, <3>2, <3>4, NodeFacts DEF ExchangeInv, WordInv
        <4> QED
          BY <4>1, LayoutTyped, NodeFacts, Typed DEF Sch
      <3> QED
        BY <3>3, <3>4
    <2> QED
      BY <2>1, <2>2 DEF ShutdownInv
  <1>8. ASSUME NEW n \in Node, Delete(n) \/ DeleteHangs(n)
        PROVE  Reading /\ Leaving
    <2>1. /\ pending' = pending /\ \A m \in Node : m # n => pc'[m] = pc[m]
          /\ pc[n] = "delete" /\ pc'[n] \in {"done", "stuck"}
      BY <1>8, Typed DEF Delete, DeleteHangs, readVars
    <2> QED
      BY <2>1, NodeFacts, Typed DEF ShutdownInv, Past
  <1>9. CASE HwStep
    <2>1. PICK c \in Context("initiator") : Succeed(c) \/ Fail(c) \/ Flush(c)
      BY <1>9 DEF HwStep
    <2>2. pc' = pc /\ pending' = [pending EXCEPT ![c] = @ - 1]
      BY <2>1 DEF Succeed, Fail, Flush, Called
    <2> QED
      BY <1>1, <2>2, Typed
  <1>10. CASE UNCHANGED vars
    BY <1>1, <1>10, Typed DEF vars, readVars
  <1> QED
    BY <1>2, <1>3, <1>4, <1>5, <1>6, <1>7, <1>8, <1>9, <1>10, NodeFacts DEF Next, NodeStep

LEMMA ShutdownInvariance == Spec => []ShutdownInv
  <1>1. Init => ShutdownInv
    BY NodeFacts DEF Init, ShutdownInv
  <1> QED
    BY <1>1, ShutdownStep, SchedulerTypes, ExchangeInvariance, PTL DEF Spec

(* The target does not take its memory away while a read is under way, for  *)
(* any two hosts: whichever message ends its wait (scheduler_bench.cpp:     *)
(* 212-215, 293-311).                                                       *)
THEOREM TargetsOutliveReads == Spec => []TargetOutlivesReads
  <1>1. TypeOK /\ ExchangeInv /\ ShutdownInv => TargetOutlivesReads
    <2> SUFFICES ASSUME TypeOK, ExchangeInv, ShutdownInv, pc["target"] \in {"delete", "done", "stuck"},
                        NEW c \in Context("initiator"), pending[c] # 0
                 PROVE  FALSE
      BY DEF TargetOutlivesReads
    <2>1. pc["initiator"] \in {"submit", "wait"}
      BY Typed DEF ShutdownInv
    <2>2. Schedulers("initiator") > Schedulers("target")
      BY <2>1 DEF ShutdownInv, Past
    <2>3. Schedulers("initiator") <= Schedulers("target")
      BY <2>1, NodeFacts DEF ExchangeInv, ThroughInv, Other
    <2> QED
      BY <2>2, <2>3, LayoutTyped, NodeFacts, Typed
  <1> QED
    BY <1>1, ShutdownInvariance, SchedulerTypes, ExchangeInvariance, PTL

-----------------------------------------------------------------------------
(* Reads before the peer has connected.                                     *)

(* The contexts that n has connected, by its position in the loops.         *)
Behind(n) ==
  {c \in Context(n) :
     \/ c[1] < sch[n]
     \/ c[1] = sch[n] /\ pc[n] = "connect" /\ c[2] < next[n]
     \/ c[1] = sch[n] /\ pc[n] \notin {"send", "recv", "connect"}}

Linked(n, c) == peer[n][c] # NULL /\ ctx[n][c] \notin {"new", "ready", "broken"}

PositionInv ==
  \A n \in Node : pc[n] \notin {"build", "dead"} => \A c \in Behind(n) : Linked(n, c)

(* A step that leaves the position of a process, and its links as good.     *)
LEMMA PositionFrame ==
  ASSUME TypeOK, PositionInv, host' = host, NEW n \in Node,
         sch'[n] = sch[n], pc'[n] = pc[n], next'[n] = next[n],
         \A c \in Context(n) : Linked(n, c) => Linked(n, c)'
  PROVE  pc'[n] \notin {"build", "dead"} => \A c \in Behind(n)' : Linked(n, c)'
  <1>1. Behind(n)' = Behind(n)
    BY LayoutKept DEF Behind
  <1>2. Behind(n) \subseteq Context(n)
    BY DEF Behind
  <1> QED
    BY <1>1, <1>2 DEF PositionInv

(* A step of one process leaves the other's position and links.             *)
LEMMA OtherPosition ==
  ASSUME TypeOK, PositionInv, [Next]_vars, NEW n \in Node, NEW d \in Node, n # d,
         NodeStep(d)
  PROVE  /\ sch'[n] = sch[n] /\ pc'[n] = pc[n] /\ next'[n] = next[n]
         /\ ctx'[n] = ctx[n] /\ peer'[n] = peer[n]
  <1> USE Typed
  <1>1. CASE Die(d)
    BY <1>1 DEF Die, buildVars
  <1>2. CASE ~Die(d) /\ Construct(d)
    BY <1>2 DEF Construct
  <1>3. CASE SendInfo(d) \/ Delete(d) \/ DeleteHangs(d)
    BY <1>3 DEF SendInfo, Delete, DeleteHangs, buildVars, linkVars
  <1>4. CASE ~Die(d) /\ RecvInfo(d)
    BY <1>4 DEF RecvInfo, linkVars
  <1>5. CASE ~Die(d) /\ ConnectContext(d)
    <2>1. UNCHANGED host /\ AfterConnect(d)
          /\ \E state \in {"running"} \union (IF "modify" \in Faults THEN {"idle", "half"} ELSE {}) :
               ctx' = [ctx EXCEPT ![d][<<sch[d], next[d]>>] = state]
          /\ peer' = [peer EXCEPT ![d][<<sch[d], next[d]>>] = <<given[d], next[d]>>]
      BY <1>5 DEF ConnectContext
    <2>2. ctx'[n] = ctx[n] /\ peer'[n] = peer[n]
      BY <2>1
    <2>3. sch'[n] = sch[n] /\ pc'[n] = pc[n] /\ next'[n] = next[n]
      BY <2>1 DEF AfterConnect
    <2> QED
      BY <2>2, <2>3
  <1>6. CASE d = "initiator" /\ (Submit \/ NextRound \/ SayTerminate \/ (Check /\ ~Die(d)))
    BY <1>6 DEF Submit, NextRound, SayTerminate, Check, buildVars, linkVars
  <1>7. CASE d = "target" /\ Await
    BY <1>7 DEF Await, buildVars, linkVars
  <1> QED
    BY <1>1, <1>2, <1>3, <1>4, <1>5, <1>6, <1>7 DEF NodeStep

(* A process that goes on among the states where all is connected.          *)
LEMMA ThroughPosition ==
  ASSUME TypeOK, PositionInv, host' = host, NEW n \in Node, sch'[n] = sch[n],
         {pc[n], pc'[n]} \subseteq {"submit", "wait", "check", "await", "delete", "done", "stuck"},
         \A c \in Context(n) : Linked(n, c) => Linked(n, c)'
  PROVE  \A c \in Behind(n)' : Linked(n, c)'
  <1>1. Behind(n)' = Behind(n) /\ Behind(n) \subseteq Context(n)
    BY LayoutKept DEF Behind
  <1> QED
    BY <1>1 DEF PositionInv

LEMMA OwnPosition ==
  ASSUME TypeOK, PositionInv, host' = host, NEW n \in Node, NodeStep(n)
  PROVE  pc'[n] \notin {"build", "dead"} => \A c \in Behind(n)' : Linked(n, c)'
  <1> DEFINE Goal == pc'[n] \notin {"build", "dead"} => \A c \in Behind(n)' : Linked(n, c)'
  <1>0. Context(n)' = Context(n) /\ Width(n) \in Nat /\ Sch(n) \subseteq Nat
        /\ \A c \in Context(n) : c[1] \in Nat /\ c[2] \in Nat
    BY LayoutKept, LayoutTyped DEF Context
  <1>1. CASE Die(n)
    BY <1>1, Typed DEF Die
  <1>2. CASE ~Die(n) /\ Construct(n)
    <2>1. \/ sch' = [sch EXCEPT ![n] = @ + 1] /\ pc' = pc
          \/ sch' = [sch EXCEPT ![n] = 0] /\ pc' = [pc EXCEPT ![n] = "send"]
      BY <1>2 DEF Construct
    <2>2. pc[n] = "build"
      BY <1>2 DEF Construct
    <2>3. CASE pc'[n] = "send" /\ sch'[n] = 0
      <3>1. Behind(n)' = {}
        BY <1>0, <2>3 DEF Behind
      <3> QED
        BY <3>1
    <2> QED
      BY <2>1, <2>2, <2>3, Typed
  <1>3. CASE SendInfo(n)
    <2>1. /\ sch' = sch /\ ctx' = ctx /\ peer' = peer
          /\ pc[n] = "send" /\ pc'[n] = "recv"
      BY <1>3, Typed DEF SendInfo, buildVars, linkVars
    <2>2. Behind(n)' = Behind(n)
      BY <1>0, <2>1 DEF Behind
    <2> QED
      BY <2>1, <2>2 DEF PositionInv, Linked
  <1>4. CASE ~Die(n) /\ RecvInfo(n)
    <2>1. /\ sch' = sch /\ ctx' = ctx /\ peer' = peer
          /\ pc[n] = "recv" /\ pc'[n] = "connect" /\ next'[n] = 0
      BY <1>4, Typed DEF RecvInfo, linkVars
    <2>2. Behind(n)' = Behind(n)
      BY <1>0, <2>1 DEF Behind
    <2> QED
      BY <2>1, <2>2 DEF PositionInv, Linked
  <1>5. CASE ~Die(n) /\ ConnectContext(n)
    <2>0. PICK x : x = <<sch[n], next[n]>>
      OBVIOUS
    <2>1. /\ pc[n] = "connect" /\ AfterConnect(n)
          /\ \E state \in {"running"} \union (IF "modify" \in Faults THEN {"idle", "half"} ELSE {}) :
               ctx' = [ctx EXCEPT ![n][x] = state]
          /\ peer' = [peer EXCEPT ![n][x] = <<given[n], next[n]>>]
      BY <1>5, <2>0 DEF ConnectContext
    <2>2. x \in Context(n) /\ sch[n] \in Nat /\ next[n] \in 0 .. Width(n) - 1
      BY <1>0, <2>0, Typed DEF Context
    <2>3. <<given[n], next[n]>> # NULL
      BY <1>0, <2>2, Typed, SchedulerAssumption
    <2>4. /\ peer'[n][x] # NULL /\ ctx'[n][x] \in {"running", "idle", "half"}
          /\ \A c \in Context(n) : c # x => peer'[n][c] = peer[n][c] /\ ctx'[n][c] = ctx[n][c]
      <3>1. PICK state \in {"running", "idle", "half"} : ctx' = [ctx EXCEPT ![n][x] = state]
        BY <2>1
      <3> DEFINE p == <<given[n], next[n]>>
      <3>2. peer' = [peer EXCEPT ![n][x] = p] /\ p # NULL
        BY <2>1, <2>3
      <3>3. x \in Context(n)
        BY <2>2
      <3> HIDE DEF p
      <3> QED
        BY <3>1, <3>2, <3>3, Typed
    <2>5. Linked(n, x)' /\ \A c \in Context(n) : c # x /\ Linked(n, c) => Linked(n, c)'
      BY <2>4 DEF Linked
    <2>6. \/ sch'[n] = sch[n] /\ next'[n] = next[n] + 1 /\ pc'[n] = "connect"
          \/ next[n] + 1 >= Width(n) /\ sch'[n] = sch[n] + 1 /\ pc'[n] = "send"
          \/ next[n] + 1 >= Width(n) /\ sch'[n] = sch[n] /\ pc'[n] \in {"submit", "await"}
      BY <1>0, <2>1, <2>2, Typed DEF AfterConnect
    <2>7. Behind(n)' \subseteq Behind(n) \union {x}
      <3> SUFFICES ASSUME NEW c \in Behind(n)', c # x PROVE c \in Behind(n)
        OBVIOUS
      <3>1. /\ c \in Context(n) /\ c[1] \in Nat /\ c[2] \in 0 .. Width(n) - 1
            /\ c = <<c[1], c[2]>>
        BY <1>0 DEF Behind, Context
      <3>2. c[1] # sch[n] \/ c[2] # next[n]
        BY <2>0, <3>1
      <3>3. \/ c[1] < sch'[n]
            \/ c[1] = sch'[n] /\ pc'[n] = "connect" /\ c[2] < next'[n]
            \/ c[1] = sch'[n] /\ pc'[n] \notin {"send", "recv", "connect"}
        BY DEF Behind
      <3>4. c[1] < sch[n] \/ (c[1] = sch[n] /\ c[2] < next[n])
        BY <1>0, <2>2, <2>6, <3>1, <3>2, <3>3
      <3> QED
        BY <2>1, <3>1, <3>4 DEF Behind
    <2>8. Behind(n) \subseteq Context(n)
      BY DEF Behind
    <2>9. \A c \in Behind(n) : Linked(n, c)
      BY <2>1 DEF PositionInv
    <2> SUFFICES ASSUME NEW c \in Behind(n)' PROVE Linked(n, c)'
      OBVIOUS
    <2>10. CASE c = x
      BY <2>5, <2>10
    <2>11. CASE c # x
      <3>1. c \in Behind(n) /\ c \in Context(n)
        BY <2>7, <2>8, <2>11
      <3> QED
        BY <2>5, <2>9, <2>11, <3>1
    <2> QED
      BY <2>10, <2>11
  <1>6. CASE \/ Delete(n)
             \/ DeleteHangs(n)
             \/ n = "initiator" /\ (Submit \/ NextRound \/ SayTerminate \/ (Check /\ ~Die(n)))
             \/ n = "target" /\ Await
    <2>1. /\ sch' = sch /\ peer' = peer
          /\ {pc[n], pc'[n]} \subseteq {"submit", "wait", "check", "await", "delete", "done", "stuck"}
      BY <1>6, Typed
      DEF Delete, DeleteHangs, Submit, NextRound, SayTerminate, Check, Await, buildVars, linkVars
    <2>3. \A c \in Context(n) : ctx'[n][c] \in {ctx[n][c], "stopped"}
      <3>1. CASE Delete(n)
        BY <3>1, Typed DEF Delete, Stopped
      <3>2. CASE DeleteHangs(n)
        BY <3>2, Typed DEF DeleteHangs
      <3>3. CASE ~Delete(n) /\ ~DeleteHangs(n)
        BY <1>6, <3>3 DEF Submit, NextRound, SayTerminate, Check, Await, linkVars
      <3> QED
        BY <3>1, <3>2, <3>3
    <2>2. \A c \in Context(n) : Linked(n, c) => Linked(n, c)'
      BY <2>1, <2>3 DEF Linked
    <2> QED
      BY <2>1, <2>2, ThroughPosition
  <1> QED
    BY <1>1, <1>2, <1>3, <1>4, <1>5, <1>6 DEF NodeStep

LEMMA PositionStep == TypeOK /\ PositionInv /\ [Next]_vars => PositionInv'
  <1> SUFFICES ASSUME TypeOK, PositionInv, [Next]_vars, NEW n \in Node
               PROVE  pc'[n] \notin {"build", "dead"} => \A c \in Behind(n)' : Linked(n, c)'
    BY DEF PositionInv
  <1>0. host' = host
    BY HostKept
  <1>1. ASSUME NEW d \in Node, NodeStep(d), d # n
        PROVE  pc'[n] \notin {"build", "dead"} => \A c \in Behind(n)' : Linked(n, c)'
    <2>1. /\ sch'[n] = sch[n] /\ pc'[n] = pc[n] /\ next'[n] = next[n]
          /\ ctx'[n] = ctx[n] /\ peer'[n] = peer[n]
      BY <1>1, OtherPosition
    <2>2. \A c \in Context(n) : Linked(n, c) => Linked(n, c)'
      BY <2>1 DEF Linked
    <2> QED
      BY <1>0, <2>1, <2>2, PositionFrame
  <1>2. CASE NodeStep(n)
    BY <1>0, <1>2, OwnPosition
  <1>3. CASE HwStep
    <2>1. PICK x \in Context("initiator") : Succeed(x) \/ Fail(x) \/ Flush(x)
      BY <1>3 DEF HwStep
    <2>2. /\ sch' = sch /\ pc' = pc /\ next' = next /\ peer' = peer
          /\ \/ ctx' = ctx
             \/ ctx' = [ctx EXCEPT !["initiator"][x] = "error"]
      BY <2>1 DEF Succeed, Fail, Flush, buildVars, linkVars
    <2>3. \A c \in Context(n) : ctx'[n][c] = ctx[n][c] \/ ctx'[n][c] = "error"
      <3>1. CASE n = "initiator"
        <4>1. ctx'[n] = ctx[n] \/ ctx'[n] = [ctx[n] EXCEPT ![x] = "error"]
          BY <2>2, <3>1, Typed
        <4> QED
          BY <4>1, Typed
      <3>2. CASE n # "initiator"
        BY <2>2, <3>2, Typed
      <3> QED
        BY <3>1, <3>2
    <2>4. \A c \in Context(n) : Linked(n, c) => Linked(n, c)'
      BY <2>2, <2>3 DEF Linked
    <2> QED
      BY <1>0, <2>2, <2>4, PositionFrame
  <1>4. CASE UNCHANGED vars
    <2>1. \A c \in Context(n) : Linked(n, c) => Linked(n, c)'
      BY <1>4 DEF Linked, vars, linkVars
    <2> QED
      BY <1>0, <1>4, <2>1, PositionFrame DEF vars, buildVars
  <1> QED
    BY <1>1, <1>2, <1>3, <1>4 DEF Next

(* A read is before its peer's connect only on the last scheduler, for any  *)
(* two hosts: a process that reads has received every description, and the  *)
(* other sends one only when the schedulers before it are connected         *)
(* (scheduler_bench.cpp:121-130, 261-264).                                  *)
THEOREM EarlyReadsAreOfTheLast == Spec => []EarlyReadsOnlyLast
  <1>1. Init => PositionInv
    BY DEF Init, PositionInv
  <1>2. TypeOK /\ ExchangeInv /\ ShutdownInv /\ PositionInv => EarlyReadsOnlyLast
    <2> SUFFICES ASSUME TypeOK, ExchangeInv, ShutdownInv, PositionInv,
                        NEW c \in Context("initiator"), pending[c] > 0, pc["target"] # "dead",
                        ctx["target"][peer["initiator"][c]] \in {"ready", "broken"}
                 PROVE  c[1] = Schedulers("initiator") - 1
      BY DEF EarlyReadsOnlyLast
    <2>1. pc["initiator"] \in {"submit", "wait"}
      BY DEF ShutdownInv
    <2>2. sch["initiator"] + 1 = Schedulers("initiator")
      BY <2>1, NodeFacts DEF ExchangeInv, ThroughInv
    <2>3. /\ c[1] \in 0 .. Schedulers("initiator") - 1 /\ c[1] \in Nat
          /\ Schedulers("initiator") \in Nat /\ sch["initiator"] \in Nat /\ sch["target"] \in Nat
      BY LayoutTyped, NodeFacts, Typed DEF Context, Sch
    <2>4. c \in Behind("initiator")
      BY <2>1, <2>2, <2>3 DEF Behind
    <2>5. peer["initiator"][c] # NULL
      BY <2>1, <2>4, NodeFacts DEF PositionInv, Linked
    <2>6. peer["initiator"][c] = c /\ c \in Context("target")
      BY <2>5, NodeFacts DEF ExchangeInv, PairedByPosition, Other
    <2>7. pc["target"] # "build" => c \notin Behind("target")
      BY <2>6, NodeFacts DEF PositionInv, Linked
    <2>8. CASE Talking("target")
      <3>1. Received("initiator") = Schedulers("initiator") /\ Talking("initiator")
        BY <2>1, <2>2 DEF Received, Talking
      <3>2. Schedulers("initiator") + Len(wire["initiator"]) = Sent("target")
        BY <2>8, <3>1, NodeFacts DEF ExchangeInv, CountInv, Other
      <3>3. Len(wire["initiator"]) \in Nat
        BY NodeFacts, Typed
      <3>4. Sent("target") >= Schedulers("initiator") /\ Schedulers("initiator") > 0
        BY <2>2, <2>3, <3>2, <3>3
      <3>5. pc["target"] # "build" /\ sch["target"] + 1 >= Schedulers("initiator")
        BY <2>3, <3>4 DEF Sent
      <3>6. ~(c[1] < sch["target"])
        BY <2>6, <2>7, <3>5 DEF Behind
      <3>7. sch["target"] + 1 >= Schedulers("initiator") /\ sch["target"] <= c[1]
        BY <2>3, <3>5, <3>6
      <3>8. c[1] <= Schedulers("initiator") - 1
        BY <2>3
      <3> QED
        BY <2>3, <3>7, <3>8
    <2>9. CASE ~Talking("target")
      <3>1. pc["target"] \in {"delete", "done", "stuck"}
        BY <2>9, NodeFacts DEF Talking, TypeOK, PcTypeOK
      <3>2. sch["target"] + 1 = Schedulers("target")
        BY <3>1, NodeFacts DEF ExchangeInv, ThroughInv
      <3>3. c[1] <= sch["target"]
        BY <2>3, <2>6, <3>2 DEF Context, Sch
      <3>4. c \in Behind("target")
        BY <2>3, <2>6, <3>1, <3>3 DEF Behind
      <3> QED
        BY <2>7, <3>1, <3>4
    <2> QED
      BY <2>8, <2>9
  <1> QED
    BY <1>1, <1>2, PositionStep, SchedulerTypes, ExchangeInvariance, ShutdownInvariance, PTL
    DEF Spec

-----------------------------------------------------------------------------
(* The search for a GID.                                                    *)

(* Every nonempty set of numbers has a least one: induction over data, in   *)
(* the form in which it needs no predicate as a parameter.                  *)
LEMMA LeastNumber ==
  ASSUME NEW S, S \subseteq Nat, S # {}
  PROVE  \E m \in S : \A k \in S : m <= k
  <1>1. IsWellFoundedOn(OpToRel(<, Nat), Nat)
    BY NatLessThanWellFounded
  <1>2. PICK m \in S : \A k \in S : <<k, m>> \notin OpToRel(<, Nat)
    BY <1>1, WFMin
  <1>3. \A k \in S : ~(k < m)
    BY <1>2 DEF OpToRel
  <1> QED
    BY <1>3

(* The recursion of FindSgidType, as an equation for a function.            *)
Solves(table, try) ==
  try = [i \in 1 .. Len(table) + 1 |->
          [sgid_family \in {"none", "inet"} |->
            IF i > Len(table) \/ table[i].type = "other" THEN -1
            ELSE LET family == IF table[i].zero THEN "inet" ELSE sgid_family IN
                 IF table[i].type = "v2" /\ family = "inet" THEN i - 1
                 ELSE try[i + 1][family]]]

LEMMA SearchSolves ==
  ASSUME NEW table
  PROVE  FindSgidType(table) = (CHOOSE t : Solves(table, t))[1]["none"]
  <1> DEFINE try[i \in 1 .. Len(table) + 1] ==
               [sgid_family \in {"none", "inet"} |->
                 IF i > Len(table) \/ table[i].type = "other" THEN -1
                 ELSE LET family == IF table[i].zero THEN "inet" ELSE sgid_family IN
                      IF table[i].type = "v2" /\ family = "inet" THEN i - 1
                      ELSE try[i + 1][family]]
  <1>1. FindSgidType(table) = try[1]["none"]
    BY DEF FindSgidType
  <1>2. try = CHOOSE t : Solves(table, t)
    BY DEF Solves
  <1> HIDE DEF try
  <1> QED
    BY <1>1, <1>2

(* Where the search ends when it is at entry i and has met family f: at the *)
(* end of the table, at an entry that cannot be read, or at one that it     *)
(* takes for the one asked for.                                             *)
Ends(table, i, f) ==
  {j \in i .. Len(table) + 1 :
     \/ j = Len(table) + 1
     \/ table[j].type = "other"
     \/ table[j].type = "v2" /\ (f = "inet" \/ \E k \in i .. j : table[k].zero)}

EndsFirst(table, i, f) == CHOOSE j \in Ends(table, i, f) : \A k \in Ends(table, i, f) : j <= k

Answer(table, j) == IF j > Len(table) \/ table[j].type = "other" THEN -1 ELSE j - 1

LEMMA FirstEnd ==
  ASSUME NEW table \in Seq(GidEntry), NEW i \in 1 .. Len(table) + 1, NEW f \in {"none", "inet"}
  PROVE  /\ EndsFirst(table, i, f) \in Ends(table, i, f)
         /\ \A k \in Ends(table, i, f) : EndsFirst(table, i, f) <= k
  <1>1. Len(table) + 1 \in Ends(table, i, f) /\ Ends(table, i, f) \subseteq Nat
    BY DEF Ends
  <1>2. \E m \in Ends(table, i, f) : \A k \in Ends(table, i, f) : m <= k
    BY <1>1, LeastNumber
  <1> QED
    BY <1>2 DEF EndsFirst

(* It ends at i, or goes on from i + 1 with the family that it has met.     *)
LEMMA EndsStep ==
  ASSUME NEW table \in Seq(GidEntry), NEW i \in 1 .. Len(table), NEW f \in {"none", "inet"},
         NEW g, g = IF table[i].zero THEN "inet" ELSE f
  PROVE  /\ table[i].type = "other" \/ (table[i].type = "v2" /\ g = "inet")
              => EndsFirst(table, i, f) = i
         /\ table[i].type # "other" /\ ~(table[i].type = "v2" /\ g = "inet")
              => EndsFirst(table, i, f) = EndsFirst(table, i + 1, g)
  <1>0. /\ Len(table) \in Nat /\ i \in Nat /\ i + 1 \in 1 .. Len(table) + 1
        /\ i \in 1 .. Len(table) + 1 /\ g \in {"none", "inet"}
    OBVIOUS
  <1>1. \A j \in i .. Len(table) + 1 : j = i \/ j \in i + 1 .. Len(table) + 1
    BY <1>0
  <1>2. i \in Ends(table, i, f) <=> table[i].type = "other" \/ (table[i].type = "v2" /\ g = "inet")
    <2>1. (\E k \in i .. i : table[k].zero) <=> table[i].zero
      BY <1>0
    <2>2. i \in i .. Len(table) + 1 /\ i # Len(table) + 1
      BY <1>0
    <2>3. g = "inet" <=> table[i].zero \/ f = "inet"
      OBVIOUS
    <2> QED
      BY <2>1, <2>2, <2>3 DEF Ends
  <1>3. ASSUME i \in Ends(table, i, f) PROVE EndsFirst(table, i, f) = i
    <2>1. EndsFirst(table, i, f) \in Ends(table, i, f) /\ EndsFirst(table, i, f) <= i
      BY <1>0, <1>3, FirstEnd
    <2>2. EndsFirst(table, i, f) \in i .. Len(table) + 1
      BY <2>1 DEF Ends
    <2> QED
      BY <1>0, <2>1, <2>2
  <1>4. ASSUME i \notin Ends(table, i, f) PROVE Ends(table, i, f) = Ends(table, i + 1, g)
    <2>1. ASSUME NEW j \in i + 1 .. Len(table) + 1
          PROVE  (f = "inet" \/ \E k \in i .. j : table[k].zero)
                   <=> (g = "inet" \/ \E k \in i + 1 .. j : table[k].zero)
      <3>1. \A k \in i .. j : k = i \/ k \in i + 1 .. j
        BY <1>0
      <3>2. i \in i .. j /\ \A k \in i + 1 .. j : k \in i .. j
        BY <1>0
      <3>3. g = "inet" <=> table[i].zero \/ f = "inet"
        OBVIOUS
      <3> QED
        BY <3>1, <3>2, <3>3
    <2>2. \A j : j \in i + 1 .. Len(table) + 1 => j \in i .. Len(table) + 1
      BY <1>0
    <2>3. \A j \in i + 1 .. Len(table) + 1 : j \in Ends(table, i, f) <=> j \in Ends(table, i + 1, g)
      BY <2>1, <2>2 DEF Ends
    <2>4. \A j \in Ends(table, i, f) : j \in i + 1 .. Len(table) + 1
      BY <1>1, <1>4 DEF Ends
    <2>5. \A j \in Ends(table, i + 1, g) : j \in i + 1 .. Len(table) + 1
      BY DEF Ends
    <2> QED
      BY <2>3, <2>4, <2>5
  <1>5. i \notin Ends(table, i, f) => EndsFirst(table, i, f) = EndsFirst(table, i + 1, g)
    BY <1>4 DEF EndsFirst
  <1> QED
    BY <1>2, <1>3, <1>5

LEMMA EndsLast ==
  ASSUME NEW table \in Seq(GidEntry), NEW f \in {"none", "inet"}
  PROVE  EndsFirst(table, Len(table) + 1, f) = Len(table) + 1
  <1>1. Len(table) + 1 \in 1 .. Len(table) + 1
    OBVIOUS
  <1>2. EndsFirst(table, Len(table) + 1, f) \in Ends(table, Len(table) + 1, f)
    BY <1>1, FirstEnd
  <1>3. EndsFirst(table, Len(table) + 1, f) \in Len(table) + 1 .. Len(table) + 1
    BY <1>2 DEF Ends
  <1> QED
    BY <1>3

(* The equation has a solution,                                             *)
LEMMA SolutionExists ==
  ASSUME NEW table \in Seq(GidEntry)
  PROVE  \E try : Solves(table, try)
  <1> DEFINE try == [i \in 1 .. Len(table) + 1 |-> [f \in {"none", "inet"} |->
                       Answer(table, EndsFirst(table, i, f))]]
             Body(i, f) ==
               IF i > Len(table) \/ table[i].type = "other" THEN -1
               ELSE LET family == IF table[i].zero THEN "inet" ELSE f IN
                    IF table[i].type = "v2" /\ family = "inet" THEN i - 1
                    ELSE try[i + 1][family]
  <1>1. ASSUME NEW i \in 1 .. Len(table) + 1, NEW f \in {"none", "inet"}
        PROVE  Answer(table, EndsFirst(table, i, f)) = Body(i, f)
    <2>1. CASE i > Len(table)
      <3>1. i = Len(table) + 1
        BY <2>1
      <3>2. EndsFirst(table, i, f) = i
        BY <3>1, EndsLast
      <3> QED
        BY <2>1, <3>2 DEF Answer
    <2>2. CASE ~(i > Len(table))
      <3> DEFINE g == IF table[i].zero THEN "inet" ELSE f
      <3>1. i \in 1 .. Len(table) /\ g \in {"none", "inet"} /\ i + 1 \in 1 .. Len(table) + 1
        BY <2>2
      <3>2. CASE table[i].type = "other"
        BY <2>2, <3>1, <3>2, EndsStep DEF Answer
      <3>3. CASE table[i].type = "v2" /\ g = "inet"
        BY <2>2, <3>1, <3>3, EndsStep DEF Answer
      <3>4. CASE table[i].type # "other" /\ ~(table[i].type = "v2" /\ g = "inet")
        <4>1. EndsFirst(table, i, f) = EndsFirst(table, i + 1, g)
          BY <3>1, <3>4, EndsStep
        <4>2. try[i + 1][g] = Answer(table, EndsFirst(table, i + 1, g))
          BY <3>1
        <4>3. Body(i, f) = try[i + 1][g]
          BY <2>2, <3>4
        <4> QED
          BY <4>1, <4>2, <4>3
      <3> QED
        BY <3>2, <3>3, <3>4
    <2> QED
      BY <2>1, <2>2
  <1>2. try = [i \in 1 .. Len(table) + 1 |-> [f \in {"none", "inet"} |-> Body(i, f)]]
    BY <1>1
  <1>3. Solves(table, try)
    BY <1>2 DEF Solves
  <1> HIDE DEF try
  <1> QED
    BY <1>3

(* and only one: the answer is that of the first entry where it ends.       *)
LEMMA SolutionIs ==
  ASSUME NEW table \in Seq(GidEntry), NEW try, Solves(table, try),
         NEW i \in 1 .. Len(table) + 1, NEW f \in {"none", "inet"}
  PROVE  try[i][f] = Answer(table, EndsFirst(table, i, f))
  <1> DEFINE Good(j) == \A h \in {"none", "inet"} : try[j][h] = Answer(table, EndsFirst(table, j, h))
             Bad == {n \in 0 .. Len(table) : ~Good(Len(table) + 1 - n)}
  <1>1. \A j \in 1 .. Len(table) + 1, h \in {"none", "inet"} :
          try[j][h] = IF j > Len(table) \/ table[j].type = "other" THEN -1
                      ELSE LET family == IF table[j].zero THEN "inet" ELSE h IN
                           IF table[j].type = "v2" /\ family = "inet" THEN j - 1
                           ELSE try[j + 1][family]
    BY DEF Solves
  <1>2. Good(Len(table) + 1)
    <2>1. Len(table) + 1 \in 1 .. Len(table) + 1 /\ Len(table) + 1 > Len(table)
      OBVIOUS
    <2> QED
      BY <1>1, <2>1, EndsLast DEF Answer
  <1>3. ASSUME NEW j \in 1 .. Len(table), Good(j + 1) PROVE Good(j)
    <2> SUFFICES ASSUME NEW h \in {"none", "inet"}
                 PROVE  try[j][h] = Answer(table, EndsFirst(table, j, h))
      OBVIOUS
    <2> DEFINE g == IF table[j].zero THEN "inet" ELSE h
    <2>1. /\ j \in 1 .. Len(table) + 1 /\ j + 1 \in 1 .. Len(table) + 1 /\ ~(j > Len(table))
          /\ g \in {"none", "inet"}
      OBVIOUS
    <2>2. try[j][h] = IF table[j].type = "other" THEN -1
                      ELSE IF table[j].type = "v2" /\ g = "inet" THEN j - 1
                      ELSE try[j + 1][g]
      BY <1>1, <2>1
    <2>3. try[j + 1][g] = Answer(table, EndsFirst(table, j + 1, g))
      BY <1>3, <2>1
    <2>4. CASE table[j].type = "other" \/ (table[j].type = "v2" /\ g = "inet")
      <3>1. EndsFirst(table, j, h) = j
        BY <2>4, EndsStep
      <3> QED
        BY <2>1, <2>2, <2>4, <3>1 DEF Answer
    <2>5. CASE table[j].type # "other" /\ ~(table[j].type = "v2" /\ g = "inet")
      <3>1. EndsFirst(table, j, h) = EndsFirst(table, j + 1, g)
        BY <2>5, EndsStep
      <3> QED
        BY <2>2, <2>3, <2>5, <3>1
    <2> QED
      BY <2>4, <2>5
  <1> HIDE DEF Good
  <1>4. Bad = {}
    <2> SUFFICES ASSUME Bad # {} PROVE FALSE
      OBVIOUS
    <2>1. Bad \subseteq Nat
      OBVIOUS
    <2>2. PICK n \in Bad : \A k \in Bad : n <= k
      BY <2>1, LeastNumber
    <2>3. n \in 0 .. Len(table) /\ ~Good(Len(table) + 1 - n)
      BY <2>2
    <2>4. n # 0
      BY <1>2, <2>3
    <2>5. n - 1 \in 0 .. Len(table) /\ ~(n <= n - 1) /\ Len(table) + 1 - n \in 1 .. Len(table)
          /\ Len(table) + 1 - (n - 1) = (Len(table) + 1 - n) + 1
      BY <2>3, <2>4
    <2>6. Good(Len(table) + 1 - (n - 1))
      BY <2>2, <2>5
    <2> QED
      BY <1>3, <2>3, <2>5, <2>6
  <1>5. Len(table) + 1 - i \in 0 .. Len(table) /\ Len(table) + 1 - (Len(table) + 1 - i) = i
    OBVIOUS
  <1>6. Good(i)
    BY <1>4, <1>5
  <1> QED
    BY <1>6 DEF Good

(* What FindSgidType computes, for every table.                             *)
LEMMA SearchFinds ==
  ASSUME NEW table \in Seq(GidEntry)
  PROVE  FindSgidType(table) = Answer(table, EndsFirst(table, 1, "none"))
  <1>1. Solves(table, CHOOSE t : Solves(table, t))
    BY SolutionExists
  <1>2. 1 \in 1 .. Len(table) + 1
    OBVIOUS
  <1> QED
    BY <1>1, <1>2, SearchSolves, SolutionIs

(* The search is right on any table.                                        *)
LEMMA SearchIsRight ==
  ASSUME NEW table \in Seq(GidEntry)
  PROVE  GidSearch(table)
  <1> DEFINE m == EndsFirst(table, 1, "none")
             found == FindSgidType(table) + 1
             Readable(i) == \A j \in 1 .. i : table[j].type # "other"
  <1>0. Len(table) \in Nat /\ DOMAIN table = 1 .. Len(table)
        /\ \A i \in 1 .. Len(table) : table[i] \in GidEntry
    OBVIOUS
  <1>1. /\ m \in 1 .. Len(table) + 1
        /\ m = Len(table) + 1 \/ table[m].type = "other"
             \/ (table[m].type = "v2" /\ \E k \in 1 .. m : table[k].zero)
    <2>1. 1 \in 1 .. Len(table) + 1
      BY <1>0
    <2>2. m \in Ends(table, 1, "none")
      BY <2>1, FirstEnd
    <2> QED
      BY <2>2 DEF Ends
  <1>2. ASSUME NEW i \in 1 .. Len(table), i < m
        PROVE  /\ table[i].type # "other"
               /\ table[i].type = "v2" => \A k \in 1 .. i : ~table[k].zero
    <2>1. 1 \in 1 .. Len(table) + 1
      BY <1>0
    <2>2. i \notin Ends(table, 1, "none")
      BY <1>0, <1>1, <1>2, <2>1, FirstEnd
    <2>3. i \in 1 .. Len(table) + 1 /\ i # Len(table) + 1
      BY <1>0
    <2> QED
      BY <2>2, <2>3 DEF Ends
  <1> HIDE DEF m
  <1>3. found = IF m > Len(table) \/ table[m].type = "other" THEN 0 ELSE m
    <2>1. FindSgidType(table) = Answer(table, m)
      BY SearchFinds DEF m
    <2> QED
      BY <1>0, <1>1, <2>1 DEF Answer
  <1> HIDE DEF found
  <1>4. \A i \in 1 .. Len(table) : Readable(i) => i < m \/ (found = m /\ m <= i)
    <2> SUFFICES ASSUME NEW i \in 1 .. Len(table), Readable(i), ~(i < m)
                 PROVE  found = m
      BY <1>0, <1>1
    <2>1. m \in 1 .. i /\ ~(m > Len(table))
      BY <1>0, <1>1
    <2> QED
      BY <1>3, <2>1
  <1>5. \A i \in Wanted(table) : Readable(i) => found \in 1 .. i
    <2> SUFFICES ASSUME NEW i \in Wanted(table), Readable(i) PROVE found \in 1 .. i
      OBVIOUS
    <2>1. i \in 1 .. Len(table) /\ table[i].type = "v2" /\ table[i].zero /\ i \in 1 .. i
      BY <1>0 DEF Wanted
    <2>2. ~(i < m)
      BY <1>2, <2>1
    <2>3. found = m /\ m <= i
      BY <1>4, <2>1, <2>2
    <2> QED
      BY <1>0, <1>1, <2>1, <2>3
  <1>6. ASSUME found # 0
        PROVE  /\ table[found].type = "v2" /\ Readable(found)
               /\ found \notin Wanted(table) =>
                    \E j \in 1 .. found - 1 : table[j] = [type |-> "v1", zero |-> TRUE]
    <2>1. /\ found = m /\ m \in 1 .. Len(table) /\ table[m].type # "other"
          /\ table[m].type = "v2"
      BY <1>0, <1>1, <1>3, <1>6
    <2>2. PICK k \in 1 .. m : table[k].zero
      BY <1>0, <1>1, <2>1
    <2>3. Readable(m)
      <3>1. ASSUME NEW j \in 1 .. m PROVE table[j].type # "other"
        <4>1. CASE j = m
          BY <2>1, <4>1
        <4>2. CASE j # m
          <5>1. j \in 1 .. Len(table) /\ j < m
            BY <1>0, <2>1, <4>2
          <5> QED
            BY <1>2, <5>1
        <4> QED
          BY <4>1, <4>2
      <3> QED
        BY <3>1
    <2>4. ASSUME m \notin Wanted(table)
          PROVE  \E j \in 1 .. m - 1 : table[j] = [type |-> "v1", zero |-> TRUE]
      <3>1. ~table[m].zero
        <4>1. table[m] \in GidEntry
          BY <1>0, <2>1
        <4> QED
          BY <1>0, <2>1, <2>4, <4>1 DEF Wanted, GidEntry
      <3>2. k \in 1 .. Len(table) /\ k < m /\ k \in 1 .. m - 1
        BY <1>0, <2>1, <2>2, <3>1
      <3>3. table[k].type # "other" /\ table[k].type # "v2"
        <4>1. k \in 1 .. k
          BY <3>2
        <4> QED
          BY <1>2, <2>2, <3>2, <4>1
      <3>4. table[k] = [type |-> "v1", zero |-> TRUE]
        <4>1. table[k] \in GidEntry
          BY <1>0, <3>2
        <4> QED
          BY <2>2, <3>3, <4>1 DEF GidEntry
      <3> QED
        BY <3>2, <3>4
    <2> QED
      BY <2>1, <2>3, <2>4
  <1>7. ASSUME found = 0, NEW i \in DOMAIN table, Readable(i), table[i].type = "v2"
        PROVE  \A j \in 1 .. i : ~table[j].zero
    <2>1. i \in 1 .. Len(table) /\ i < m
      BY <1>0, <1>1, <1>4, <1>7
    <2> QED
      BY <1>2, <1>7, <2>1
  <1> QED
    BY <1>5, <1>6, <1>7 DEF GidSearch, found

(* Whatever the tables of the devices of both hosts hold, the index that    *)
(* init gives to ibv_modify_qp is the one that was asked for, or that of a  *)
(* v2 entry behind an IPv4 or empty entry (ibv_helper.cpp:109-127).         *)
THEOREM GidSearchIsCorrect == Spec => []GidSearchCorrect
  <1>1. TypeOK => GidSearchCorrect
    <2> SUFFICES ASSUME TypeOK, NEW n \in Node, NEW d \in DOMAIN host[n].gids
                 PROVE  GidSearch(host[n].gids[d])
      BY DEF GidSearchCorrect
    <2>1. host \in [initiator : Hosts["initiator"], target : Hosts["target"]]
      BY DEF TypeOK, BuildTypeOK
    <2>2. host[n].gids \in Seq(Seq(GidEntry))
      BY <2>1, HostType, SchedulerAssumption
    <2>3. host[n].gids[d] \in Seq(GidEntry)
      BY <2>2
    <2> QED
      BY <2>3, SearchIsRight
  <1> QED
    BY <1>1, SchedulerTypes, PTL
=============================================================================
