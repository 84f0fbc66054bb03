----------------------- MODULE RDMAContextServiceProofs -----------------------
(***************************************************************************)
(* RDMAContext keeps exact accounts of the room in its send queues, is a    *)
(* ReadService for its callers, and is quiet once stop_future has returned; *)
(* for every set of callers and requests, every number of queue pairs and   *)
(* every depth of the send queue.                                           *)
(***************************************************************************)
EXTENDS RDMAContextCallbackProofs, FiniteSetTheorems, FunctionTheorems

-----------------------------------------------------------------------------
(* The content of pieces.                                                   *)

(* A piece holds as many Assignments as it is charged for.                  *)
LEMMA ItemsCount ==
  ASSUME NEW p \in Piece
  PROVE  /\ IsFiniteSet(Items(p, PieceSize(p)))
         /\ Cardinality(Items(p, PieceSize(p))) = PieceSize(p)
  <1> DEFINE a == FirstOf(p)
             n == PieceSize(p)
             f == [e \in a .. a + n - 1 |-> <<p[1], e>>]
             I == Items(p, n)
  <1>1. a \in Nat /\ n \in Nat /\ n >= 1
    BY PieceShape
  <1>2. I = {<<p[1], e>> : e \in a .. a + n - 1}
    BY DEF Items
  <1>3. f \in Bijection(a .. a + n - 1, I)
    <2>1. f \in [a .. a + n - 1 -> I]
      BY <1>2
    <2>2. \A x, y \in a .. a + n - 1 : f[x] = f[y] => x = y
      OBVIOUS
    <2>3. \A t \in I : \E x \in a .. a + n - 1 : f[x] = t
      BY <1>2
    <2> QED
      BY <2>1, <2>2, <2>3, Fun_IsBij
  <1>4. IsFiniteSet(a .. a + n - 1) /\ Cardinality(a .. a + n - 1) = n
    <2> HIDE DEF a, n
    <2>1. a + n - 1 \in Int /\ a \in Int /\ ~(a > a + n - 1) /\ (a + n - 1) - a + 1 = n
      BY <1>1
    <2> QED
      BY <2>1, FS_Interval
  <1> QED
    BY <1>3, <1>4, FS_Bijection DEF ExistsBijection

(* No Assignment is in two pieces.                                          *)
LEMMA ItemsDisjoint ==
  ASSUME NEW p \in Piece, NEW o \in Piece, p # o
  PROVE  Items(p, PieceSize(p)) \cap Items(o, PieceSize(o)) = {}
  <1>1. /\ p = <<p[1], p[2]>> /\ o = <<o[1], o[2]>>
        /\ p[1] \in Request /\ p[2] \in 1 .. NumPieces(p[1])
        /\ o[1] \in Request /\ o[2] \in 1 .. NumPieces(o[1])
    BY DEF Piece
  <1>2. p[2] \in Nat /\ o[2] \in Nat /\ p[2] >= 1 /\ o[2] >= 1
    BY <1>1, PieceOfRead
  <1>3. /\ FirstOf(p) \in Nat /\ PieceSize(p) \in Nat /\ PieceSize(p) <= SplitStep
        /\ FirstOf(o) \in Nat /\ PieceSize(o) \in Nat /\ PieceSize(o) <= SplitStep
        /\ SplitStep \in Nat
    BY PieceShape, SplitStepType
  <1>4. ASSUME NEW a \in Nat, NEW b \in Nat, a < b, a >= 1
        PROVE  (a - 1) * SplitStep + 1 + SplitStep <= (b - 1) * SplitStep + 1
    <2>1. a \in Nat /\ b - 1 \in Nat /\ a <= b - 1 /\ SplitStep \in Nat
      BY <1>3, <1>4
    <2>2. a * SplitStep <= (b - 1) * SplitStep
      BY <2>1, TimesMonotonic
    <2>3. (a - 1) * SplitStep = a * SplitStep - SplitStep
      BY <1>3
    <2>4. a * SplitStep \in Nat /\ (b - 1) * SplitStep \in Nat
      BY <2>1, TimesMonotonic
    <2> QED
      BY <1>3, <2>2, <2>3, <2>4
  <1>5. CASE p[1] # o[1]
    BY <1>5 DEF Items
  <1>6. CASE p[1] = o[1] /\ p[2] < o[2]
    <2>1. FirstOf(p) + SplitStep <= FirstOf(o)
      BY <1>2, <1>4, <1>6 DEF FirstOf
    <2> QED
      BY <1>3, <2>1 DEF Items
  <1>7. CASE p[1] = o[1] /\ o[2] < p[2]
    <2>1. FirstOf(o) + SplitStep <= FirstOf(p)
      BY <1>2, <1>4, <1>7 DEF FirstOf
    <2> QED
      BY <1>3, <2>1 DEF Items
  <1> QED
    BY <1>1, <1>2, <1>5, <1>6, <1>7

(* One piece more is as many Assignments more.                              *)
LEMMA ContentAdd ==
  ASSUME NEW S \in SUBSET Piece, NEW h \in Piece, h \notin S, IsFiniteSet(Content(S))
  PROVE  /\ IsFiniteSet(Content(S \union {h}))
         /\ Cardinality(Content(S \union {h})) = Cardinality(Content(S)) + PieceSize(h)
  <1> DEFINE H == Items(h, PieceSize(h))
  <1>1. IsFiniteSet(H) /\ Cardinality(H) = PieceSize(h) /\ PieceSize(h) \in Nat
    BY ItemsCount, PieceShape
  <1>2. Content(S \union {h}) = Content(S) \union H
    BY DEF Content
  <1>3. Content(S) \cap H = {}
    BY ItemsDisjoint DEF Content
  <1>4. Cardinality(Content(S)) \in Nat
    BY FS_CardinalityType
  <1>5. /\ IsFiniteSet(Content(S) \union H)
        /\ Cardinality(Content(S) \union H)
             = Cardinality(Content(S)) + Cardinality(H) - Cardinality(Content(S) \cap H)
    BY <1>1, FS_Union
  <1>6. Cardinality(Content(S) \cap H) = 0
    BY <1>3, FS_EmptySet
  <1>7. Cardinality(Content(S) \union H) = Cardinality(Content(S)) + PieceSize(h)
    <2>1. PICK n, c, k, m : /\ n = Cardinality(Content(S) \union H) /\ c = Cardinality(Content(S))
                            /\ k = Cardinality(H) /\ m = Cardinality(Content(S) \cap H)
      OBVIOUS
    <2> HIDE DEF H
    <2>2. n = c + k - m /\ m = 0 /\ c \in Nat /\ k \in Nat /\ k = PieceSize(h)
      BY <1>1, <1>4, <1>5, <1>6, <2>1
    <2>3. n = c + k
      BY <2>2
    <2> QED
      BY <2>1, <2>2, <2>3
  <1> QED
    BY <1>2, <1>5, <1>7

(* One piece less is as many less.                                          *)
LEMMA ContentRemove ==
  ASSUME NEW S \in SUBSET Piece, NEW h \in S, IsFiniteSet(Content(S))
  PROVE  /\ IsFiniteSet(Content(S \ {h}))
         /\ Cardinality(Content(S \ {h})) = Cardinality(Content(S)) - PieceSize(h)
  <1>1. PICK R : R = S \ {h}
    OBVIOUS
  <1>2. R \in SUBSET Piece /\ h \notin R /\ R \union {h} = S /\ h \in Piece
    BY <1>1
  <1>3. Content(R) \subseteq Content(S)
    BY <1>1 DEF Content
  <1>4. IsFiniteSet(Content(R))
    BY <1>3, FS_Subset
  <1>5. Cardinality(Content(S)) = Cardinality(Content(R)) + PieceSize(h)
    BY <1>2, <1>4, ContentAdd
  <1>6. Cardinality(Content(R)) \in Nat /\ PieceSize(h) \in Nat
    BY <1>2, <1>4, FS_CardinalityType, PieceShape
  <1> QED
    BY <1>1, <1>4, <1>5, <1>6

-----------------------------------------------------------------------------
(* What a queue still holds is the newest part of what was pushed to it.    *)

(* How many of the pieces pushed to q have been charged, and which.         *)
Edge(q) ==
  Len(pushed[q]) - Len(assign_queue_[q]) + IF wq[q] \in {"post", "pop"} THEN 1 ELSE 0

Started(p, q) == \E k \in 1 .. Edge(q) : pushed[q][k] = p

QueueInv ==
  \A q \in QPI :
    /\ Len(assign_queue_[q]) <= Len(pushed[q])
    /\ \A i \in 1 .. Len(assign_queue_[q]) :
         assign_queue_[q][i] = pushed[q][Len(pushed[q]) - Len(assign_queue_[q]) + i]
    /\ \A j, k \in 1 .. Len(pushed[q]) : pushed[q][j] = pushed[q][k] => j = k

(* The steps that change a queue or a counter, and the others.              *)
Resting ==
  /\ UNCHANGED <<assign_queue_, pushed, outstanding_rdma_reads_>>
  /\ \A q \in QPI : wq'[q] \in {"post", "pop"} <=> wq[q] \in {"post", "pop"}

LEMMA QueueSteps ==
  ASSUME TypeOK, ThreadInv, Reliable, [Next]_vars
  PROVE  \/ Resting
         \/ \E t \in Client : SubmitPush(t)
         \/ \E q \in QPI : WqCharge(q) \/ WqPop(q)
         \/ CqRelease
  <1>1. CASE LaunchFuture
    BY <1>1, Typed DEF LaunchFuture, ThreadInv, Resting
  <1>2. ASSUME NEW t \in Client, NEW r \in Request, SubmitSelect(t, r) \/ SubmitStore(t) \/ WaitReturn(t)
        PROVE  Resting
    BY <1>2 DEF SubmitSelect, SubmitStore, WaitReturn, queueVars, Resting
  <1>3. ASSUME NEW q \in QPI, WqStep(q) \/ WqSpurious(q), ~WqCharge(q), ~WqPop(q)
        PROVE  Resting
    <2>1. UNCHANGED <<assign_queue_, pushed, outstanding_rdma_reads_>>
      BY <1>3 DEF WqStep, WqSpurious, WqTop, WqPredicate, WqPark, WqWake, WqDrained, WqReserve,
                  WqPost, WqPostFails
    <2>2. \/ wq[q] = "post" /\ wq' = [wq EXCEPT ![q] = "pop"]
          \/ \E from, to \in {"top", "pred", "park", "parked", "wake", "drain", "charge", "exit"} :
               wq[q] = from /\ wq' = [wq EXCEPT ![q] = to]
      <3>1. CASE WqTop(q) \/ WqPredicate(q) \/ WqPark(q) \/ WqWake(q) \/ WqSpurious(q)
        BY <3>1 DEF WqTop, WqPredicate, WqPark, WqWake, WqSpurious, WqGoto
      <3>2. CASE WqDrained(q) \/ WqReserve(q) \/ WqPost(q)
        BY <3>2 DEF WqDrained, WqReserve, WqPost, WqGoto
      <3> QED
        BY <1>3, <3>1, <3>2 DEF WqStep, WqPostFails, Reliable
    <2> QED
      BY <2>1, <2>2, Typed DEF Resting
  <1>4. CASE CqTop \/ CqEvent \/ CqArm \/ CqPoll \/ CqSkip \/ CqCall
    BY <1>4 DEF CqTop, CqEvent, CqArm, CqPoll, CqSkip, CqCall, queueVars, Resting
  <1>5. CASE StopBegin \/ StopWqFlag \/ StopWqJoin \/ StopCqFlag \/ StopCqArm \/ StopCqPost \/ StopCqJoin
    BY <1>5 DEF StopBegin, StopWqFlag, StopWqJoin, StopCqFlag, StopCqArm, StopCqPost, StopCqJoin,
                queueVars, Resting
  <1>6. CASE StopWqNotify
    <2>1. /\ UNCHANGED <<assign_queue_, pushed, outstanding_rdma_reads_>>
          /\ wq' = IF wq[stopper.qpi] = "parked" THEN [wq EXCEPT ![stopper.qpi] = "wake"] ELSE wq
      BY <1>6 DEF StopWqNotify, Notified
    <2> QED
      BY <2>1, Typed DEF Resting
  <1>7. CASE UNCHANGED vars
    BY <1>7 DEF vars, queueVars, Resting
  <1>8. CASE \E q \in QPI : HwStep(q)
    BY <1>8 DEF HwStep, HwComplete, HwFail, HwFlush, HwReceive, queueVars, Resting
  <1>9. CASE \E t \in Client : (\E r \in Request : SubmitSelect(t, r)) \/ ClientStep(t)
    BY <1>2, <1>9, ConstantsAssumption DEF ClientStep
  <1>10. CASE \E q \in QPI : WqStep(q) \/ WqSpurious(q)
    BY <1>3, <1>10
  <1>11. CASE CqStep \/ StopStep
    BY <1>4, <1>5, <1>6, <1>11 DEF CqStep, StopStep
  <1> QED
    BY <1>1, <1>5, <1>7, <1>8, <1>9, <1>10, <1>11 DEF Next

(* What a push, a charge and a pop do to them.                              *)
LEMMA PushQueues ==
  ASSUME TypeOK, OwnerInv, NEW t \in Client, SubmitPush(t)
  PROVE  \E r \in Request, d \in QPI :
           /\ Fresh(r) /\ Pieces(r) \in Seq(Piece)
           /\ assign_queue_' = [assign_queue_ EXCEPT ![d] = @ \o Pieces(r)]
           /\ pushed' = [pushed EXCEPT ![d] = @ \o Pieces(r)]
           /\ outstanding_rdma_reads_' = outstanding_rdma_reads_
           /\ \A q \in QPI : wq'[q] \in {"post", "pop"} <=> wq[q] \in {"post", "pop"}
  <1>1. PICK r, d : r = client[t].req /\ d = client[t].qpi
    OBVIOUS
  <1>2. /\ client[t].pc = "push" /\ r \in Request /\ d \in QPI
    BY <1>1 DEF SubmitPush, TypeOK, ClientTypeOK
  <1>3. Fresh(r)
    BY <1>1, <1>2 DEF OwnerInv, Submitting
  <1>4. /\ assign_queue_' = [assign_queue_ EXCEPT ![d] = @ \o Pieces(r)]
        /\ pushed' = [pushed EXCEPT ![d] = @ \o Pieces(r)]
        /\ outstanding_rdma_reads_' = outstanding_rdma_reads_
        /\ wq' = IF wq[d] = "parked" THEN [wq EXCEPT ![d] = "wake"] ELSE wq
    BY <1>1 DEF SubmitPush, Notified
  <1>5. \A q \in QPI : wq'[q] \in {"post", "pop"} <=> wq[q] \in {"post", "pop"}
    BY <1>4, Typed
  <1> QED
    BY <1>2, <1>3, <1>4, <1>5, PiecesType

(* The other two leave all queues but their own alone.                      *)
LEMMA ChargeQueues ==
  ASSUME Inv, NEW d \in QPI, WqCharge(d) \/ WqPop(d)
  PROVE  /\ pushed' = pushed /\ assign_queue_[d] # <<>> /\ Head(assign_queue_[d]) = assign_queue_[d][1]
         /\ Len(assign_queue_[d]) \in Nat /\ Len(assign_queue_[d]) >= 1
         /\ \A q \in QPI : q # d => wq'[q] = wq[q] /\ assign_queue_'[q] = assign_queue_[q]
                                    /\ outstanding_rdma_reads_'[q] = outstanding_rdma_reads_[q]
         /\ WqCharge(d) => /\ wq[d] = "charge" /\ wq'[d] = "post" /\ assign_queue_' = assign_queue_
                           /\ outstanding_rdma_reads_'[d] =
                                outstanding_rdma_reads_[d] + PieceSize(assign_queue_[d][1])
         /\ WqPop(d) => /\ wq[d] = "pop" /\ wq'[d] = "drain"
                        /\ Len(assign_queue_'[d]) = Len(assign_queue_[d]) - 1
                        /\ \A i \in 1 .. Len(assign_queue_'[d]) : assign_queue_'[d][i] = assign_queue_[d][i + 1]
                        /\ outstanding_rdma_reads_' = outstanding_rdma_reads_
  <1>0. TypeOK /\ FlowControl
    BY DEF Inv
  <1>1. wq[d] \in {"charge", "pop"} /\ pushed' = pushed
    BY DEF WqCharge, WqPop, WqGoto
  <1>2. assign_queue_[d] # <<>>
    BY <1>0, <1>1 DEF FlowControl
  <1>3. assign_queue_[d] \in Seq(Piece) /\ DOMAIN assign_queue_ = QPI /\ DOMAIN wq = QPI
    BY <1>0, Typed
  <1>4. DOMAIN outstanding_rdma_reads_ = QPI
    BY <1>0 DEF TypeOK, QueueTypeOK
  <1>5. /\ Head(assign_queue_[d]) = assign_queue_[d][1]
        /\ Len(assign_queue_[d]) \in Nat /\ Len(assign_queue_[d]) >= 1
    BY <1>2, <1>3
  <1>6. ASSUME WqCharge(d)
        PROVE  /\ wq[d] = "charge" /\ wq' = [wq EXCEPT ![d] = "post"] /\ assign_queue_' = assign_queue_
               /\ outstanding_rdma_reads_' =
                    [outstanding_rdma_reads_ EXCEPT ![d] = @ + PieceSize(assign_queue_[d][1])]
    BY <1>5, <1>6 DEF WqCharge, WqGoto
  <1>7. ASSUME WqPop(d)
        PROVE  /\ wq[d] = "pop" /\ wq' = [wq EXCEPT ![d] = "drain"]
               /\ assign_queue_' = [assign_queue_ EXCEPT ![d] = Tail(@)]
               /\ outstanding_rdma_reads_' = outstanding_rdma_reads_
    BY <1>7 DEF WqPop, WqGoto
  <1>8. /\ Len(Tail(assign_queue_[d])) = Len(assign_queue_[d]) - 1
        /\ \A i \in 1 .. Len(Tail(assign_queue_[d])) : Tail(assign_queue_[d])[i] = assign_queue_[d][i + 1]
    BY <1>2, <1>3, HeadTailProperties
  <1>9. \A q \in QPI : q # d => wq'[q] = wq[q] /\ assign_queue_'[q] = assign_queue_[q]
                                 /\ outstanding_rdma_reads_'[q] = outstanding_rdma_reads_[q]
    BY <1>3, <1>4, <1>6, <1>7
  <1> QED
    BY <1>1, <1>2, <1>3, <1>4, <1>5, <1>6, <1>7, <1>8, <1>9

(* The three parts of the invariant, for one queue.                         *)
LEMMA QueueFacts ==
  ASSUME QueueInv, NEW q \in QPI
  PROVE  /\ Len(assign_queue_[q]) <= Len(pushed[q])
         /\ \A i \in 1 .. Len(assign_queue_[q]) :
              assign_queue_[q][i] = pushed[q][Len(pushed[q]) - Len(assign_queue_[q]) + i]
         /\ \A j, k \in 1 .. Len(pushed[q]) : pushed[q][j] = pushed[q][k] => j = k
  BY DEF QueueInv

(* The queues and what was pushed to them go on agreeing.                   *)
LEMMA QueueInvPush ==
  ASSUME TypeOK, OwnerInv, QueueInv, NEW t \in Client, SubmitPush(t)
  PROVE  QueueInv'
  <1>1. PICK r \in Request, d \in QPI :
           /\ Fresh(r) /\ Pieces(r) \in Seq(Piece)
           /\ assign_queue_' = [assign_queue_ EXCEPT ![d] = @ \o Pieces(r)]
           /\ pushed' = [pushed EXCEPT ![d] = @ \o Pieces(r)]
    BY PushQueues
  <1> DEFINE a == assign_queue_[d]
             b == pushed[d]
             c == Pieces(r)
  <1>2. a \in Seq(Piece) /\ b \in Seq(Piece) /\ c \in Seq(Piece)
    BY <1>1, Typed
  <1>3. /\ assign_queue_'[d] = a \o c /\ pushed'[d] = b \o c
        /\ \A q \in QPI : q # d => assign_queue_'[q] = assign_queue_[q] /\ pushed'[q] = pushed[q]
    BY <1>1, Typed
  <1>4. Len(a) \in Nat /\ Len(b) \in Nat /\ Len(c) \in Nat /\ Len(a) <= Len(b)
    <2>1. Len(a) <= Len(b)
      BY QueueFacts
    <2> HIDE DEF a, b, c
    <2> QED
      BY <1>2, <2>1
  <1>5. /\ Len(a \o c) = Len(a) + Len(c) /\ Len(b \o c) = Len(b) + Len(c)
        /\ \A i \in 1 .. Len(a) + Len(c) : (a \o c)[i] = IF i <= Len(a) THEN a[i] ELSE c[i - Len(a)]
        /\ \A i \in 1 .. Len(b) + Len(c) : (b \o c)[i] = IF i <= Len(b) THEN b[i] ELSE c[i - Len(b)]
    BY <1>2, ConcatProperties
  <1>6. /\ \A i \in 1 .. Len(a) : a[i] = b[Len(b) - Len(a) + i]
        /\ \A j, k \in 1 .. Len(b) : b[j] = b[k] => j = k
    BY QueueFacts
  <1>7. ASSUME NEW k \in 1 .. Len(c)
        PROVE  c[k] = <<r, k>> /\ \A j \in 1 .. Len(b) : b[j] # c[k]
    <2>1. c = [i \in 1 .. NumPieces(r) |-> <<r, i>>] /\ NumPieces(r) \in Nat
      BY PieceOfRead DEF Pieces
    <2>2. Len(c) = NumPieces(r)
      BY <2>1
    <2>3. c[k] = <<r, k>> /\ c[k] \in Piece
      BY <2>1, <2>2, PieceOfRead
    <2> QED
      <3>1. \A p \in Piece : (\E j \in 1 .. Len(b) : b[j] = p) => p[1] # r
        BY <1>1 DEF Fresh, On
      <3>2. PICK p \in Piece : p = c[k] /\ p[1] = r
        BY <2>3
      <3> QED
        BY <2>3, <3>1, <3>2
  <1> HIDE DEF a, b, c
  <1>8. \A i \in 1 .. Len(a) + Len(c) : (a \o c)[i] = (b \o c)[Len(b) + Len(c) - (Len(a) + Len(c)) + i]
    <2> TAKE i \in 1 .. Len(a) + Len(c)
    <2>1. PICK j : j = Len(b) - Len(a) + i
      OBVIOUS
    <2>2. /\ j \in 1 .. Len(b) + Len(c) /\ (j <= Len(b) <=> i <= Len(a))
          /\ j - Len(b) = i - Len(a) /\ Len(b) + Len(c) - (Len(a) + Len(c)) + i = j
      BY <1>4, <2>1
    <2>3. i <= Len(a) => a[i] = b[j]
      BY <1>4, <1>6, <2>1
    <2> QED
      BY <1>5, <2>2, <2>3
  <1>9. ASSUME NEW j \in 1 .. Len(b) + Len(c), NEW k \in 1 .. Len(b) + Len(c), j < k
        PROVE  (b \o c)[j] # (b \o c)[k]
    <2>1. CASE k <= Len(b)
      BY <1>4, <1>5, <1>6, <1>9, <2>1
    <2>2. CASE j <= Len(b) /\ ~(k <= Len(b))
      <3>1. k - Len(b) \in 1 .. Len(c) /\ j \in 1 .. Len(b)
        BY <1>4, <2>2
      <3>2. (b \o c)[j] = b[j] /\ (b \o c)[k] = c[k - Len(b)]
        BY <1>5, <2>2
      <3> QED
        BY <1>7, <3>1, <3>2
    <2>3. CASE ~(j <= Len(b))
      <3>1. /\ k - Len(b) \in 1 .. Len(c) /\ j - Len(b) \in 1 .. Len(c)
            /\ ~(k <= Len(b)) /\ k - Len(b) # j - Len(b)
        BY <1>4, <1>9, <2>3
      <3>2. (b \o c)[j] = c[j - Len(b)] /\ (b \o c)[k] = c[k - Len(b)]
        BY <1>5, <2>3, <3>1
      <3> QED
        BY <1>7, <3>1, <3>2
    <2> QED
      BY <2>1, <2>2, <2>3
  <1>10. \A j, k \in 1 .. Len(b) + Len(c) : (b \o c)[j] = (b \o c)[k] => j = k
    BY <1>4, <1>9
  <1>11. Len(a) + Len(c) <= Len(b) + Len(c)
    BY <1>4
  <1>12. ASSUME NEW q \in QPI
         PROVE  /\ Len(assign_queue_'[q]) <= Len(pushed'[q])
                /\ \A i \in 1 .. Len(assign_queue_'[q]) :
                     assign_queue_'[q][i] = pushed'[q][Len(pushed'[q]) - Len(assign_queue_'[q]) + i]
                /\ \A j, k \in 1 .. Len(pushed'[q]) : pushed'[q][j] = pushed'[q][k] => j = k
    <2>1. CASE q = d
      <3>1. /\ assign_queue_'[q] = a \o c /\ pushed'[q] = b \o c
            /\ Len(assign_queue_'[q]) = Len(a) + Len(c) /\ Len(pushed'[q]) = Len(b) + Len(c)
        BY <1>3, <1>5, <2>1
      <3>2. Len(assign_queue_'[q]) <= Len(pushed'[q])
        BY <1>11, <3>1
      <3>3. \A j, k \in 1 .. Len(pushed'[q]) : pushed'[q][j] = pushed'[q][k] => j = k
        BY <1>10, <3>1
      <3>4. \A i \in 1 .. Len(assign_queue_'[q]) :
              assign_queue_'[q][i] = pushed'[q][Len(pushed'[q]) - Len(assign_queue_'[q]) + i]
        <4> TAKE i \in 1 .. Len(assign_queue_'[q])
        <4>1. i \in 1 .. Len(a) + Len(c)
          BY <3>1
        <4>2. (a \o c)[i] = (b \o c)[Len(b) + Len(c) - (Len(a) + Len(c)) + i]
          BY <1>8, <4>1
        <4>3. Len(pushed'[q]) - Len(assign_queue_'[q]) + i = Len(b) + Len(c) - (Len(a) + Len(c)) + i
          BY <3>1
        <4> QED
          BY <3>1, <4>2, <4>3, Zenon
      <3> QED
        BY <3>2, <3>3, <3>4
    <2>2. CASE q # d
      <3>1. assign_queue_'[q] = assign_queue_[q] /\ pushed'[q] = pushed[q]
        BY <1>3, <2>2
      <3>2. Len(assign_queue_[q]) <= Len(pushed[q])
        BY QueueFacts
      <3>3. \A j, k \in 1 .. Len(pushed[q]) : pushed[q][j] = pushed[q][k] => j = k
        BY QueueFacts
      <3>4. \A i \in 1 .. Len(assign_queue_[q]) :
              assign_queue_[q][i] = pushed[q][Len(pushed[q]) - Len(assign_queue_[q]) + i]
        BY QueueFacts
      <3> QED
        BY <3>1, <3>2, <3>3, <3>4
    <2> QED
      BY <2>1, <2>2
  <1> QED
    BY <1>12 DEF QueueInv

(* A pop is the other step that matters.                                    *)
LEMMA QueueInvStep ==
  ASSUME Inv, ThreadInv, OwnerInv, QueueInv, Reliable, [Next]_vars
  PROVE  QueueInv'
  <1>0. TypeOK
    BY DEF Inv
  <1>1. ASSUME UNCHANGED <<assign_queue_, pushed>>
        PROVE  QueueInv'
    BY <1>1 DEF QueueInv
  <1>2. ASSUME NEW d \in QPI, WqPop(d)
        PROVE  QueueInv'
    <2>1. /\ pushed' = pushed /\ Len(assign_queue_[d]) \in Nat
          /\ Len(assign_queue_'[d]) = Len(assign_queue_[d]) - 1
          /\ \A i \in 1 .. Len(assign_queue_'[d]) : assign_queue_'[d][i] = assign_queue_[d][i + 1]
          /\ \A q \in QPI : q # d => assign_queue_'[q] = assign_queue_[q]
      BY <1>2, ChargeQueues
    <2>2. Len(pushed[d]) \in Nat
      BY <1>0, Typed
    <2>3. /\ Len(assign_queue_[d]) <= Len(pushed[d])
          /\ \A i \in 1 .. Len(assign_queue_[d]) :
               assign_queue_[d][i] = pushed[d][Len(pushed[d]) - Len(assign_queue_[d]) + i]
      BY QueueFacts
    <2>4. Len(assign_queue_'[d]) <= Len(pushed[d])
      BY <2>1, <2>2, <2>3
    <2>5. ASSUME NEW i \in 1 .. Len(assign_queue_'[d])
          PROVE  assign_queue_'[d][i] = pushed[d][Len(pushed[d]) - Len(assign_queue_'[d]) + i]
      <3>1. /\ i + 1 \in 1 .. Len(assign_queue_[d])
            /\ Len(pushed[d]) - Len(assign_queue_'[d]) + i = Len(pushed[d]) - Len(assign_queue_[d]) + (i + 1)
        <4>1. PICK x, y, z : x = Len(pushed[d]) /\ y = Len(assign_queue_[d]) /\ z = Len(assign_queue_'[d])
          OBVIOUS
        <4>2. x \in Nat /\ y \in Nat /\ z = y - 1 /\ i \in 1 .. z
          BY <2>1, <2>2, <4>1
        <4>3. i + 1 \in 1 .. y /\ x - z + i = x - y + (i + 1)
          BY <4>2
        <4> QED
          BY <4>1, <4>3
      <3>2. assign_queue_'[d][i] = assign_queue_[d][i + 1]
        BY <2>1
      <3>3. assign_queue_[d][i + 1] = pushed[d][Len(pushed[d]) - Len(assign_queue_[d]) + (i + 1)]
        BY <2>3, <3>1
      <3> QED
        BY <3>1, <3>2, <3>3
    <2>6. ASSUME NEW q \in QPI
          PROVE  /\ Len(assign_queue_'[q]) <= Len(pushed[q])
                 /\ \A i \in 1 .. Len(assign_queue_'[q]) :
                      assign_queue_'[q][i] = pushed[q][Len(pushed[q]) - Len(assign_queue_'[q]) + i]
                 /\ \A j, k \in 1 .. Len(pushed[q]) : pushed[q][j] = pushed[q][k] => j = k
      <3>1. CASE q = d
        BY <2>4, <2>5, <3>1, QueueFacts
      <3>2. CASE q # d
        <4>1. assign_queue_'[q] = assign_queue_[q]
          BY <2>1, <3>2
        <4> QED
          BY <4>1, QueueFacts
      <3> QED
        BY <3>1, <3>2
    <2> QED
      BY <2>1, <2>6 DEF QueueInv
  <1>3. ASSUME NEW d \in QPI, WqCharge(d)
        PROVE  QueueInv'
    BY <1>1, <1>3, ChargeQueues
  <1>4. CqRelease => UNCHANGED <<assign_queue_, pushed>>
    BY DEF CqRelease
  <1> QED
    BY <1>0, <1>1, <1>2, <1>3, <1>4, QueueSteps, QueueInvPush DEF Resting

(* The edge lies within what was pushed.                                    *)
LEMMA EdgeBounds ==
  ASSUME Inv, QueueInv, NEW q \in QPI
  PROVE  /\ Edge(q) \in Nat /\ Edge(q) <= Len(pushed[q]) /\ Len(pushed[q]) \in Nat
         /\ Len(assign_queue_[q]) \in Nat /\ Len(assign_queue_[q]) <= Len(pushed[q])
         /\ pushed[q] \in Seq(Piece)
  <1>1. TypeOK /\ FlowControl
    BY DEF Inv
  <1>2. pushed[q] \in Seq(Piece) /\ assign_queue_[q] \in Seq(Piece)
    BY <1>1, Typed
  <1>3. Len(pushed[q]) \in Nat /\ Len(assign_queue_[q]) \in Nat /\ Len(assign_queue_[q]) <= Len(pushed[q])
    <2>1. Len(assign_queue_[q]) <= Len(pushed[q])
      BY QueueFacts
    <2> QED
      BY <1>2, <2>1
  <1>4. wq[q] \in {"post", "pop"} => Len(assign_queue_[q]) >= 1
    BY <1>1, <1>2 DEF FlowControl
  <1>5. PICK x, y, u : /\ x = Len(pushed[q]) /\ y = Len(assign_queue_[q])
                       /\ u = IF wq[q] \in {"post", "pop"} THEN 1 ELSE 0
    OBVIOUS
  <1>6. Edge(q) = x - y + u
    BY <1>5 DEF Edge
  <1>7. x \in Nat /\ y \in Nat /\ y <= x /\ (u = 0 \/ (u = 1 /\ y >= 1))
    BY <1>3, <1>4, <1>5
  <1>8. Edge(q) \in Nat /\ Edge(q) <= x
    BY <1>6, <1>7
  <1> QED
    BY <1>2, <1>3, <1>5, <1>8

(* Only a charge moves the edge, by the front piece.                        *)
LEMMA StartedStep ==
  ASSUME Inv, ThreadInv, OwnerInv, QueueInv, Reliable, [Next]_vars, NEW q \in QPI
  PROVE  /\ WqCharge(q) => \A p : Started(p, q)' <=> Started(p, q) \/ p = Head(assign_queue_[q])
         /\ ~WqCharge(q) => \A p : Started(p, q)' <=> Started(p, q)
  <1>0. TypeOK /\ FlowControl
    BY DEF Inv
  <1>1. /\ Edge(q) \in Nat /\ Edge(q) <= Len(pushed[q]) /\ Len(pushed[q]) \in Nat
        /\ Len(assign_queue_[q]) \in Nat /\ Len(assign_queue_[q]) <= Len(pushed[q])
        /\ pushed[q] \in Seq(Piece)
    BY EdgeBounds
  <1>2. ASSUME WqCharge(q)
        PROVE  \A p : Started(p, q)' <=> Started(p, q) \/ p = Head(assign_queue_[q])
    <2>1. /\ pushed' = pushed /\ assign_queue_' = assign_queue_ /\ wq[q] = "charge" /\ wq'[q] = "post"
          /\ Head(assign_queue_[q]) = assign_queue_[q][1] /\ Len(assign_queue_[q]) >= 1
      BY <1>2, ChargeQueues
    <2>2. Edge(q) = Len(pushed[q]) - Len(assign_queue_[q]) /\ Edge(q)' = Edge(q) + 1
      BY <1>1, <2>1 DEF Edge
    <2>3. assign_queue_[q][1] = pushed[q][Edge(q) + 1]
      BY <1>1, <2>1, <2>2, 1 \in 1 .. Len(assign_queue_[q]), QueueFacts
    <2>4. \A k \in Nat : k \in 1 .. Edge(q) + 1 <=> k \in 1 .. Edge(q) \/ k = Edge(q) + 1
      BY <1>1
    <2>5. ASSUME NEW p
          PROVE  Started(p, q)' <=> Started(p, q) \/ p = pushed[q][Edge(q) + 1]
      <3>1. Started(p, q)' <=> \E k \in 1 .. Edge(q) + 1 : pushed[q][k] = p
        BY <2>1, <2>2 DEF Started
      <3>2. Edge(q) + 1 \in Nat /\ \A k \in 1 .. Edge(q) + 1 : k \in Nat
        BY <1>1
      <3>3. \A k \in 1 .. Edge(q) : k \in Nat
        BY <1>1
      <3> QED
        BY <2>4, <3>1, <3>2, <3>3 DEF Started
    <2> QED
      BY <2>1, <2>3, <2>5
  <1>3. ASSUME Edge(q)' = Edge(q), \A k \in 1 .. Edge(q) : pushed'[q][k] = pushed[q][k]
        PROVE  \A p : Started(p, q)' <=> Started(p, q)
    BY <1>3 DEF Started
  <1>4. ASSUME Resting \/ CqRelease \/ (\E d \in QPI : d # q /\ (WqCharge(d) \/ WqPop(d)))
        PROVE  \A p : Started(p, q)' <=> Started(p, q)
    <2>1. /\ pushed' = pushed /\ assign_queue_'[q] = assign_queue_[q]
          /\ wq'[q] \in {"post", "pop"} <=> wq[q] \in {"post", "pop"}
      <3>1. CASE Resting \/ CqRelease
        BY <3>1 DEF Resting, CqRelease
      <3>2. CASE \E d \in QPI : d # q /\ (WqCharge(d) \/ WqPop(d))
        BY <3>2, ChargeQueues
      <3> QED
        BY <1>4, <3>1, <3>2
    <2>2. Edge(q)' = Edge(q)
      BY <2>1 DEF Edge
    <2> QED
      BY <1>3, <2>1, <2>2
  <1>5. ASSUME WqPop(q)
        PROVE  \A p : Started(p, q)' <=> Started(p, q)
    <2>1. /\ pushed' = pushed /\ wq[q] = "pop" /\ wq'[q] = "drain"
          /\ Len(assign_queue_'[q]) = Len(assign_queue_[q]) - 1
      BY <1>5, ChargeQueues
    <2>2. Edge(q)' = Edge(q)
      BY <1>1, <2>1 DEF Edge
    <2> QED
      BY <1>3, <2>1, <2>2
  <1>6. ASSUME \E t \in Client : SubmitPush(t)
        PROVE  \A p : Started(p, q)' <=> Started(p, q)
    <2>1. PICK r \in Request, d \in QPI :
             /\ Pieces(r) \in Seq(Piece)
             /\ assign_queue_' = [assign_queue_ EXCEPT ![d] = @ \o Pieces(r)]
             /\ pushed' = [pushed EXCEPT ![d] = @ \o Pieces(r)]
             /\ wq'[q] \in {"post", "pop"} <=> wq[q] \in {"post", "pop"}
      BY <1>0, <1>6, PushQueues
    <2>2. CASE q # d
      <3>1. assign_queue_'[q] = assign_queue_[q] /\ pushed'[q] = pushed[q]
        BY <1>0, <2>1, <2>2, Typed
      <3>2. Edge(q)' = Edge(q)
        BY <2>1, <3>1 DEF Edge
      <3> QED
        BY <1>3, <3>1, <3>2
    <2>3. CASE q = d
      <3>1. assign_queue_'[q] = assign_queue_[q] \o Pieces(r) /\ pushed'[q] = pushed[q] \o Pieces(r)
        BY <1>0, <2>1, <2>3, Typed
      <3>2. assign_queue_[q] \in Seq(Piece)
        BY <1>0, Typed
      <3>3. /\ Len(assign_queue_'[q]) = Len(assign_queue_[q]) + Len(Pieces(r))
            /\ Len(pushed'[q]) = Len(pushed[q]) + Len(Pieces(r)) /\ Len(Pieces(r)) \in Nat
            /\ \A k \in 1 .. Len(pushed[q]) : pushed'[q][k] = pushed[q][k]
        <4>1. PICK a, b, c \in Seq(Piece) : a = assign_queue_[q] /\ b = pushed[q] /\ c = Pieces(r)
          BY <1>1, <2>1, <3>2
        <4>2. /\ Len(a \o c) = Len(a) + Len(c) /\ Len(b \o c) = Len(b) + Len(c)
              /\ Len(b) \in Nat /\ Len(c) \in Nat
              /\ \A k \in 1 .. Len(b) + Len(c) : (b \o c)[k] = IF k <= Len(b) THEN b[k] ELSE c[k - Len(b)]
          BY ConcatProperties
        <4>3. \A k \in 1 .. Len(b) : k \in 1 .. Len(b) + Len(c) /\ k <= Len(b)
          BY <4>2
        <4>4. \A k \in 1 .. Len(b) : (b \o c)[k] = b[k]
          BY <4>2, <4>3
        <4> QED
          BY <3>1, <4>1, <4>2, <4>4
      <3>4. Edge(q)' = Edge(q)
        <4>1. PICK x, y, z, u : /\ x = Len(pushed[q]) /\ y = Len(assign_queue_[q]) /\ z = Len(Pieces(r))
                                /\ u = IF wq[q] \in {"post", "pop"} THEN 1 ELSE 0
          OBVIOUS
        <4>2. u = IF wq'[q] \in {"post", "pop"} THEN 1 ELSE 0
          BY <2>1, <4>1
        <4>3. Edge(q) = x - y + u /\ Edge(q)' = (x + z) - (y + z) + u
          BY <3>3, <4>1, <4>2 DEF Edge
        <4>4. x \in Nat /\ y \in Nat /\ z \in Nat /\ u \in Nat
          BY <1>1, <3>3, <4>1
        <4> QED
          BY <4>3, <4>4
      <3>5. \A k \in 1 .. Edge(q) : pushed'[q][k] = pushed[q][k]
        <4>1. \A k \in 1 .. Edge(q) : k \in 1 .. Len(pushed[q])
          BY <1>1
        <4> QED
          BY <3>3, <4>1
      <3> QED
        BY <1>3, <3>4, <3>5
    <2> QED
      BY <2>2, <2>3
  <1> QED
    BY <1>0, <1>2, <1>4, <1>5, <1>6, QueueSteps

-----------------------------------------------------------------------------
(* What is charged.                                                         *)

(* A piece is charged from when it is started, a read until the completion  *)
(* thread has let go of it.                                                 *)
ChargedMeans(q) ==
  /\ ChargedPieces(q) \subseteq Piece
  /\ \A p \in Piece :
       p \in ChargedPieces(q) <=> Started(p, q) /\ (p \in ReadPiece => Placed(p))

(* The sends and receives that are started.                                 *)
LEMMA SpentMeans ==
  ASSUME Inv, QueueInv, NEW q \in QPI
  PROVE  Spent(q) \subseteq Piece /\ \A p \in Piece : p \in Spent(q) <=> Started(p, q) /\ p \notin ReadPiece
  <1>1. /\ Edge(q) \in Nat /\ Edge(q) <= Len(pushed[q]) /\ Len(pushed[q]) \in Nat
        /\ pushed[q] \in Seq(Piece)
    BY EdgeBounds
  <1>2. Begun(q) = SubSeq(pushed[q], 1, Edge(q))
    BY DEF Begun, Edge
  <1>3. \A k \in 1 .. Edge(q) : k \in 1 .. Len(pushed[q])
    BY <1>1
  <1>4. DOMAIN Begun(q) = 1 .. Edge(q) /\ \A k \in 1 .. Edge(q) : Begun(q)[k] = pushed[q][k]
    <2>1. PICK n \in Nat, s \in Seq(Piece) : n = Edge(q) /\ s = pushed[q] /\ n <= Len(s)
      BY <1>1
    <2>2. SubSeq(s, 1, n) = [k \in 1 .. n |-> s[k]]
      BY <2>1
    <2> QED
      BY <1>2, <2>1, <2>2
  <1>5. \A k \in 1 .. Edge(q) : pushed[q][k] \in Piece
    BY <1>1, <1>3
  <1> QED
    BY <1>4, <1>5 DEF Spent, Started, ReadPiece

(* The front piece is the one that is being posted.                         *)
LEMMA FrontStarted ==
  ASSUME Inv, QueueInv, NEW q \in QPI, wq[q] \in {"charge", "post", "pop"}
  PROVE  /\ Head(assign_queue_[q]) \in Piece
         /\ wq[q] \in {"post", "pop"} => Started(Head(assign_queue_[q]), q)
         /\ wq[q] = "charge" => ~Started(Head(assign_queue_[q]), q)
         /\ wq[q] # "pop" => At(Head(assign_queue_[q]), 1, q, 1)
  <1>0. TypeOK /\ FlowControl
    BY DEF Inv
  <1>1. assign_queue_[q] \in Seq(Piece) /\ assign_queue_[q] # <<>>
    BY <1>0, Typed DEF FlowControl
  <1>2. PICK h : h = Head(assign_queue_[q])
    OBVIOUS
  <1>3. /\ h \in Piece /\ h = assign_queue_[q][1] /\ 1 \in 1 .. Len(assign_queue_[q])
        /\ Len(assign_queue_[q]) \in Nat /\ Len(assign_queue_[q]) >= 1
    BY <1>1, <1>2
  <1>4. PICK n : n = Len(pushed[q]) - Len(assign_queue_[q]) + 1
    OBVIOUS
  <1>5. pushed[q][n] = h
    BY <1>3, <1>4, QueueFacts
  <1>6. /\ n \in 1 .. Len(pushed[q])
        /\ wq[q] \in {"post", "pop"} => n \in 1 .. Edge(q)
        /\ wq[q] = "charge" => Edge(q) = n - 1 /\ Edge(q) \in Nat
    <2>1. PICK x, y : x = Len(pushed[q]) /\ y = Len(assign_queue_[q])
      OBVIOUS
    <2>2. x \in Nat /\ y \in Nat /\ y >= 1 /\ y <= x /\ n = x - y + 1
      BY <1>3, <1>4, <2>1, EdgeBounds
    <2>3. Edge(q) = x - y + IF wq[q] \in {"post", "pop"} THEN 1 ELSE 0
      BY <2>1 DEF Edge
    <2>4. wq[q] \in {"post", "pop"} => Edge(q) = n
      BY <2>2, <2>3
    <2>5. wq[q] = "charge" => Edge(q) = n - 1 /\ Edge(q) \in Nat
      BY <2>2, <2>3
    <2>6. n \in 1 .. x
      BY <2>2
    <2>7. n \in 1 .. n
      BY <2>2
    <2> QED
      BY <2>1, <2>4, <2>5, <2>6, <2>7
  <1>7. wq[q] = "charge" => ~Started(h, q)
    <2> SUFFICES ASSUME wq[q] = "charge", NEW k \in 1 .. Edge(q), pushed[q][k] = h PROVE FALSE
      BY DEF Started
    <2>1. k \in 1 .. Len(pushed[q]) /\ k # n
      BY <1>6, EdgeBounds
    <2>2. \A j, l \in 1 .. Len(pushed[q]) : pushed[q][j] = pushed[q][l] => j = l
      BY QueueFacts
    <2>3. n \in 1 .. Len(pushed[q])
      BY <1>6
    <2> QED
      BY <1>5, <2>1, <2>2, <2>3
  <1>8. wq[q] # "pop" => At(h, 1, q, 1)
    BY <1>3 DEF At
  <1> QED
    BY <1>2, <1>3, <1>5, <1>6, <1>7, <1>8 DEF Started

(* A piece that is queued and started is the one that is being posted; one  *)
(* that was pushed and is not started is queued.                            *)
LEMMA QueuedStarted ==
  ASSUME Inv, QueueInv, NEW q \in QPI, NEW p, NEW i \in Nat, At(p, 1, q, i), Started(p, q)
  PROVE  wq[q] = "post" /\ p = Head(assign_queue_[q])
  <1>1. /\ Edge(q) \in Nat /\ Edge(q) <= Len(pushed[q]) /\ Len(pushed[q]) \in Nat
        /\ Len(assign_queue_[q]) \in Nat /\ Len(assign_queue_[q]) <= Len(pushed[q])
    BY EdgeBounds
  <1>2. i \in 1 .. Len(assign_queue_[q]) /\ assign_queue_[q][i] = p /\ (wq[q] = "pop" => i # 1)
    BY DEF At
  <1>3. PICK k \in 1 .. Edge(q) : pushed[q][k] = p
    BY DEF Started
  <1>4. PICK x, y, u : /\ x = Len(pushed[q]) /\ y = Len(assign_queue_[q])
                       /\ u = IF wq[q] \in {"post", "pop"} THEN 1 ELSE 0
    OBVIOUS
  <1>5. x \in Nat /\ y \in Nat /\ y <= x /\ i \in 1 .. y /\ k \in 1 .. x
    BY <1>1, <1>2, <1>3, <1>4
  <1>6. pushed[q][x - y + i] = p
    BY <1>2, <1>4, QueueFacts
  <1>7. x - y + i \in 1 .. x
    BY <1>5
  <1>8. x - y + i = k
    <2>1. \A j, l \in 1 .. x : pushed[q][j] = pushed[q][l] => j = l
      BY <1>4, QueueFacts
    <2> QED
      BY <1>3, <1>5, <1>6, <1>7, <2>1
  <1>9. Edge(q) = x - y + u /\ (u = 0 \/ u = 1)
    BY <1>4 DEF Edge
  <1>10. u = 1 /\ i = 1
    BY <1>3, <1>5, <1>8, <1>9
  <1>11. wq[q] = "post"
    BY <1>2, <1>4, <1>10
  <1>12. TypeOK
    BY DEF Inv
  <1>13. assign_queue_[q] \in Seq(Piece)
    BY <1>12, Typed
  <1> QED
    BY <1>2, <1>10, <1>11, <1>13

LEMMA OnQueued ==
  ASSUME Inv, QueueInv, NEW q \in QPI, NEW p, On(p, q), ~Started(p, q)
  PROVE  \E i \in Nat : At(p, 1, q, i)
  <1>1. /\ Edge(q) \in Nat /\ Edge(q) <= Len(pushed[q]) /\ Len(pushed[q]) \in Nat
        /\ Len(assign_queue_[q]) \in Nat /\ Len(assign_queue_[q]) <= Len(pushed[q])
    BY EdgeBounds
  <1>2. PICK k \in 1 .. Len(pushed[q]) : pushed[q][k] = p
    BY DEF On
  <1>3. ~(k <= Edge(q))
    BY <1>1, <1>2 DEF Started
  <1>4. PICK x, y, u : /\ x = Len(pushed[q]) /\ y = Len(assign_queue_[q])
                       /\ u = IF wq[q] \in {"post", "pop"} THEN 1 ELSE 0
    OBVIOUS
  <1>5. x \in Nat /\ y \in Nat /\ y <= x /\ k \in 1 .. x /\ (u = 0 \/ u = 1)
    BY <1>1, <1>4
  <1>6. Edge(q) = x - y + u
    BY <1>4 DEF Edge
  <1>7. PICK i : i = k - (x - y)
    OBVIOUS
  <1>8. i \in Nat /\ i \in 1 .. y /\ x - y + i = k /\ (u = 1 => i # 1)
    BY <1>3, <1>5, <1>6, <1>7
  <1>9. assign_queue_[q][i] = p
    <2>1. assign_queue_[q][i] = pushed[q][x - y + i]
      BY <1>4, <1>8, QueueFacts
    <2> QED
      BY <1>2, <1>8, <2>1
  <1>10. wq[q] = "pop" => i # 1
    BY <1>4, <1>8
  <1> QED
    BY <1>4, <1>8, <1>9, <1>10 DEF At

(* The reads of q that are posted, completed or polled.                     *)
Busy(q) ==
  {e \in {sq[q][i] : i \in DOMAIN sq[q]}
           \union {cq[i].info : i \in {j \in DOMAIN cq : cq[j].qpi = q}}
           \union {wc[i].info : i \in {j \in DOMAIN wc : wc[j].qpi = q}} : IsRead(e)}

(* They have one of three places.                                           *)
LEMMA BusyMeans ==
  ASSUME TypeOK, NEW q \in QPI
  PROVE  \A p : p \in Busy(q) <=> p \in ReadPiece /\ \E s \in 2 .. 4, i \in Nat : At(p, s, q, i)
  <1>1. /\ sq[q] \in Seq(Piece \union {NULL}) /\ cq \in Seq(Cqe) /\ wc \in Seq(Cqe)
    BY Typed
  <1>2. /\ DOMAIN sq[q] = 1 .. Len(sq[q]) /\ DOMAIN cq = 1 .. Len(cq) /\ DOMAIN wc = 1 .. Len(wc)
        /\ Len(sq[q]) \in Nat /\ Len(cq) \in Nat /\ Len(wc) \in Nat
    BY <1>1
  <1>3. /\ \A i \in 1 .. Len(sq[q]) : sq[q][i] \in Piece \union {NULL}
        /\ \A i \in 1 .. Len(cq) : cq[i].info \in Piece \union {NULL}
        /\ \A i \in 1 .. Len(wc) : wc[i].info \in Piece \union {NULL}
    <2>1. \A c \in Cqe : c.info \in Piece \union {NULL}
      BY DEF Cqe
    <2> QED
      BY <1>1, <1>2, <2>1
  <1>4. ASSUME NEW p
        PROVE  p \in Busy(q) <=>
                 /\ IsRead(p)
                 /\ \/ \E i \in 1 .. Len(sq[q]) : sq[q][i] = p
                    \/ \E i \in 1 .. Len(cq) : cq[i].qpi = q /\ cq[i].info = p
                    \/ \E i \in 1 .. Len(wc) : wc[i].qpi = q /\ wc[i].info = p
    BY <1>2 DEF Busy
  <1>5. ASSUME NEW p
        PROVE  /\ (\E i \in 1 .. Len(sq[q]) : sq[q][i] = p) <=> \E i \in Nat : At(p, 2, q, i)
               /\ (\E i \in 1 .. Len(cq) : cq[i].qpi = q /\ cq[i].info = p) <=> \E i \in Nat : At(p, 3, q, i)
               /\ (\E i \in 1 .. Len(wc) : wc[i].qpi = q /\ wc[i].info = p) <=> \E i \in Nat : At(p, 4, q, i)
    BY <1>2 DEF At
  <1>6. ASSUME NEW p
        PROVE  (\E s \in 2 .. 4, i \in Nat : At(p, s, q, i)) <=>
                 \/ \E i \in Nat : At(p, 2, q, i)
                 \/ \E i \in Nat : At(p, 3, q, i)
                 \/ \E i \in Nat : At(p, 4, q, i)
    <2>1. \A s \in 2 .. 4 : s = 2 \/ s = 3 \/ s = 4
      OBVIOUS
    <2>2. 2 \in 2 .. 4 /\ 3 \in 2 .. 4 /\ 4 \in 2 .. 4
      OBVIOUS
    <2> QED
      BY <2>1, <2>2
  <1>7. ASSUME NEW p, p \in Busy(q)
        PROVE  p \in ReadPiece
    BY <1>3, <1>4, <1>7 DEF IsRead, ReadPiece
  <1>8. \A p \in ReadPiece : IsRead(p)
    BY ReadPieceFacts
  <1> QED
    BY <1>4, <1>5, <1>6, <1>7, <1>8

(* The meaning of what is charged.                                          *)
LEMMA ChargedShape ==
  ASSUME Inv, PushInv, PlaceInv, QueueInv, NEW q \in QPI
  PROVE  ChargedMeans(q)
  <1>0. TypeOK
    BY DEF Inv
  <1> DEFINE front == IF wq[q] = "post" THEN {Head(assign_queue_[q])} ELSE {}
  <1>1. ChargedPieces(q) = Spent(q) \union Busy(q) \union front
    BY DEF ChargedPieces, Busy
  <1>2. Spent(q) \subseteq Piece /\ \A p \in Piece : p \in Spent(q) <=> Started(p, q) /\ p \notin ReadPiece
    BY SpentMeans
  <1>3. \A p : p \in Busy(q) <=> p \in ReadPiece /\ \E s \in 2 .. 4, i \in Nat : At(p, s, q, i)
    BY <1>0, BusyMeans
  <1>4. ASSUME NEW p \in front
        PROVE  p \in Piece /\ Started(p, q) /\ At(p, 1, q, 1)
    BY <1>4, FrontStarted
  <1> HIDE DEF front
  <1>5. ASSUME NEW p \in ReadPiece, NEW s \in 2 .. 4, NEW i \in Nat, At(p, s, q, i)
        PROVE  Started(p, q) /\ Placed(p)
    <2>1. s \in 1 .. 4 /\ s # 1
      OBVIOUS
    <2>2. On(p, q) /\ Placed(p)
      BY <1>5, <2>1 DEF PlaceInv, Placed
    <2>3. \A j \in Nat : ~At(p, 1, q, j)
      BY <1>5, <2>1, 1 \in 1 .. 4 DEF PlaceInv
    <2> QED
      BY <2>2, <2>3, OnQueued
  <1>6. ASSUME NEW p \in ReadPiece, Started(p, q), Placed(p)
        PROVE  p \in Busy(q) \/ p \in front
    <2>1. PICK s \in 1 .. 4, d \in QPI, i \in Nat : At(p, s, d, i)
      BY <1>6 DEF Placed
    <2>2. On(p, d)
      BY <2>1 DEF PlaceInv
    <2>3. On(p, q)
      <3>1. \A k \in 1 .. Edge(q) : k \in 1 .. Len(pushed[q])
        BY EdgeBounds
      <3> QED
        BY <1>6, <3>1 DEF Started, On
    <2>4. d = q
      BY <2>2, <2>3, ReadPieceFacts DEF PushInv
    <2>5. CASE s = 1
      BY <1>6, <2>1, <2>4, <2>5, QueuedStarted DEF front
    <2>6. CASE s # 1
      <3>1. s \in 2 .. 4
        BY <2>6
      <3> QED
        BY <1>3, <2>1, <2>4, <3>1
    <2> QED
      BY <2>5, <2>6
  <1>7. \A p \in ReadPiece : p \in Piece
    BY ReadPieceFacts
  <1>8. ChargedPieces(q) \subseteq Piece
    BY <1>1, <1>2, <1>3, <1>4, <1>7
  <1>9. ASSUME NEW p \in Piece, p \in ReadPiece
        PROVE  p \in ChargedPieces(q) <=> Started(p, q) /\ Placed(p)
    <2>1. p \in front => Started(p, q) /\ Placed(p)
      BY <1>4, 1 \in 1 .. 4 DEF Placed
    <2>2. p \notin Spent(q)
      BY <1>2, <1>9
    <2>3. p \in Busy(q) => Started(p, q) /\ Placed(p)
      BY <1>3, <1>5
    <2> QED
      BY <1>1, <1>6, <1>9, <2>1, <2>2, <2>3
  <1>10. ASSUME NEW p \in Piece, p \notin ReadPiece
         PROVE  p \in ChargedPieces(q) <=> Started(p, q)
    BY <1>1, <1>2, <1>3, <1>4, <1>10
  <1> QED
    BY <1>8, <1>9, <1>10 DEF ChargedMeans

ChargedInv == \A q \in QPI : ChargedMeans(q)

LEMMA ChargedAlways == CallbackInv /\ QueueInv => ChargedInv
  BY ChargedShape DEF CallbackInv, ChargedInv

(* Where a step leaves the reads.                                           *)
LEMMA PlacedStep ==
  ASSUME CallbackInv, [Next]_vars
  PROVE  \/ \E t \in Client : SubmitPush(t)
         \/ CqRelease
         \/ \A p \in ReadPiece : Placed(p)' <=> Placed(p)
  <1>0. TypeOK /\ FlowControl /\ Reliable /\ ThreadInv /\ PushInv /\ PlaceInv
    BY DEF CallbackInv, Inv
  <1>1. Still \/ Moving
    BY <1>0, StillOrMoving
  <1>2. CASE Still \/ Carrying
    BY <1>0, <1>2, PlacedCarry
  <1>3. CASE CqSkip
    <2>1. Head(wc).info = NULL
      BY <1>3 DEF CqSkip
    <2> QED
      BY <1>0, <1>3, <2>1, PlacedDrop, ReadPieceFacts
  <1> QED
    BY <1>1, <1>2, <1>3 DEF Moving, Carrying

(* Only what was pushed is started.                                         *)
LEMMA StartedOn ==
  ASSUME Inv, QueueInv, NEW q \in QPI, NEW p, Started(p, q)
  PROVE  On(p, q)
  <1>1. \A k \in 1 .. Edge(q) : k \in 1 .. Len(pushed[q])
    BY EdgeBounds
  <1> QED
    BY <1>1 DEF Started, On

(* A charge adds the piece that is about to be posted ...                   *)
LEMMA ChargeAdds ==
  ASSUME CallbackInv, QueueInv, ChargedInv, ChargedInv', [Next]_vars, NEW q \in QPI, WqCharge(q)
  PROVE  \E h \in Piece :
           /\ h \notin ChargedPieces(q) /\ ChargedPieces(q)' = ChargedPieces(q) \union {h}
           /\ outstanding_rdma_reads_'[q] = outstanding_rdma_reads_[q] + PieceSize(h)
  <1>0. Inv /\ Reliable /\ ThreadInv /\ OwnerInv /\ TypeOK /\ FlowControl
    BY DEF CallbackInv, Inv
  <1>1. PICK h : h = Head(assign_queue_[q])
    OBVIOUS
  <1>2. /\ wq[q] = "charge"
        /\ outstanding_rdma_reads_'[q] = outstanding_rdma_reads_[q] + PieceSize(h)
    BY <1>0, <1>1, ChargeQueues
  <1>3. h \in Piece /\ ~Started(h, q) /\ At(h, 1, q, 1)
    BY <1>0, <1>1, <1>2, FrontStarted
  <1>4. Placed(h)
    BY <1>3, 1 \in 1 .. 4 DEF Placed
  <1>5. \A p : Started(p, q)' <=> Started(p, q) \/ p = h
    BY <1>0, <1>1, StartedStep
  <1>6. \A p \in ReadPiece : Placed(p)' <=> Placed(p)
    <2>1. Still
      <3>1. /\ UNCHANGED <<assign_queue_, pushed, sq, cq, wc>>
            /\ wq' = [wq EXCEPT ![q] = "post"]
        BY DEF WqCharge, WqGoto, cqVars, hwVars
      <3> QED
        BY <1>0, <1>2, <3>1, Typed DEF Still
    <2> QED
      BY <1>0, <2>1, PlacedCarry
  <1>7. /\ ChargedPieces(q) \subseteq Piece /\ ChargedPieces(q)' \subseteq Piece
        /\ \A p \in Piece : p \in ChargedPieces(q) <=> Started(p, q) /\ (p \in ReadPiece => Placed(p))
        /\ \A p \in Piece : p \in ChargedPieces(q)' <=> Started(p, q)' /\ (p \in ReadPiece => Placed(p)')
    BY DEF ChargedInv, ChargedMeans
  <1>8. \A p \in Piece : p \in ChargedPieces(q)' <=> p \in ChargedPieces(q) \/ p = h
    BY <1>4, <1>5, <1>6, <1>7
  <1> QED
    BY <1>2, <1>3, <1>7, <1>8

(* ... a release takes away the one that was called back ...                *)
LEMMA ReleaseRemoves ==
  ASSUME CallbackInv, QueueInv, ChargedInv, ChargedInv', [Next]_vars, CqRelease
  PROVE  \E h \in ReadPiece, d \in QPI :
           /\ h \in ChargedPieces(d) /\ ChargedPieces(d)' = ChargedPieces(d) \ {h}
           /\ outstanding_rdma_reads_'[d] = outstanding_rdma_reads_[d] - PieceSize(h)
           /\ \A q \in QPI : q # d => /\ ChargedPieces(q)' = ChargedPieces(q)
                                      /\ outstanding_rdma_reads_'[q] = outstanding_rdma_reads_[q]
  <1>0. Inv /\ Reliable /\ ThreadInv /\ OwnerInv /\ TypeOK /\ FlowControl /\ PushInv /\ PlaceInv /\ InfoInv
    BY DEF CallbackInv, Inv
  <1>1. PICK h, d : h = Head(wc).info /\ d = Head(wc).qpi
    OBVIOUS
  <1>2. 1 \in 1 .. Len(wc) /\ Head(wc) = wc[1] /\ wc[1] \in Cqe /\ h # NULL
    <2>1. 1 \in 1 .. Len(wc) /\ Head(wc) = wc[1]
      BY <1>0, DropPlaces
    <2>2. wc \in Seq(Cqe)
      BY <1>0, Typed
    <2>3. cqPc = "release"
      BY DEF CqRelease
    <2> QED
      BY <1>0, <1>1, <2>1, <2>2, <2>3 DEF TypeOK, CqTypeOK
  <1>3. h \in ReadPiece /\ d \in QPI
    BY <1>0, <1>1, <1>2 DEF InfoInv, Cqe
  <1>4. At(h, 4, d, 1)
    BY <1>1, <1>2 DEF At
  <1>5. h \in ChargedPieces(d)
    <2>1. h \in Busy(d)
      BY <1>0, <1>3, <1>4, BusyMeans, 4 \in 2 .. 4, 1 \in Nat
    <2> QED
      BY <2>1 DEF ChargedPieces, Busy
  <1>6. outstanding_rdma_reads_' = [outstanding_rdma_reads_ EXCEPT ![d] = @ - PieceSize(h)]
    <2>1. record[h] = h
      BY <1>0, <1>3 DEF ReadPiece, TypeOK, RecordTypeOK, Reliable
    <2> QED
      BY <1>1, <2>1 DEF CqRelease
  <1>7. DOMAIN outstanding_rdma_reads_ = QPI
    BY <1>0 DEF TypeOK, QueueTypeOK
  <1>8. \A p \in ReadPiece : Placed(p)' <=> Placed(p) /\ p # h
    BY <1>0, <1>1, PlacedDrop
  <1>9. \A q \in QPI : ~WqCharge(q)
    <2> SUFFICES ASSUME NEW q \in QPI, WqCharge(q) PROVE FALSE
      OBVIOUS
    <2>1. wq[q] = "charge" /\ wq'[q] = "post"
      BY <1>0, ChargeQueues
    <2> QED
      BY <2>1 DEF CqRelease
  <1>10. \A q \in QPI : \A p : Started(p, q)' <=> Started(p, q)
    BY <1>0, <1>9, StartedStep
  <1>11. ASSUME NEW q \in QPI
         PROVE  /\ ChargedPieces(q) \subseteq Piece /\ ChargedPieces(q)' \subseteq Piece
                /\ \A p \in Piece : p \in ChargedPieces(q) <=> Started(p, q) /\ (p \in ReadPiece => Placed(p))
                /\ \A p \in Piece : p \in ChargedPieces(q)' <=> Started(p, q)' /\ (p \in ReadPiece => Placed(p)')
    BY DEF ChargedInv, ChargedMeans
  <1>12. ASSUME NEW q \in QPI
         PROVE  ChargedPieces(q)' = ChargedPieces(q) \ {h}
    <2>1. \A p \in Piece : p \in ChargedPieces(q)' <=> p \in ChargedPieces(q) /\ p # h
      BY <1>3, <1>8, <1>10, <1>11
    <2> QED
      BY <1>11, <2>1
  <1>13. ASSUME NEW q \in QPI, q # d
         PROVE  h \notin ChargedPieces(q)
    <2> SUFFICES ASSUME h \in ChargedPieces(q) PROVE FALSE
      OBVIOUS
    <2>1. On(h, q)
      BY <1>0, <1>3, <1>11, ReadPieceFacts, StartedOn
    <2>2. On(h, d)
      BY <1>0, <1>3, <1>4, 4 \in 1 .. 4, 1 \in Nat DEF PlaceInv
    <2> QED
      BY <1>0, <1>3, <1>13, <2>1, <2>2, ReadPieceFacts DEF PushInv
  <1>14. ASSUME NEW q \in QPI, q # d
         PROVE  ChargedPieces(q)' = ChargedPieces(q) /\ outstanding_rdma_reads_'[q] = outstanding_rdma_reads_[q]
    BY <1>6, <1>7, <1>12, <1>13, <1>14
  <1>15. outstanding_rdma_reads_'[d] = outstanding_rdma_reads_[d] - PieceSize(h)
    BY <1>3, <1>6, <1>7
  <1> QED
    BY <1>3, <1>5, <1>12, <1>14, <1>15

(* ... and nothing else matters.                                            *)
LEMMA ChargedElse ==
  ASSUME CallbackInv, QueueInv, ChargedInv, ChargedInv', [Next]_vars, NEW q \in QPI,
         ~WqCharge(q), ~CqRelease
  PROVE  ChargedPieces(q)' = ChargedPieces(q) /\ outstanding_rdma_reads_'[q] = outstanding_rdma_reads_[q]
  <1>0. Inv /\ Reliable /\ ThreadInv /\ OwnerInv /\ TypeOK
    BY DEF CallbackInv, Inv
  <1>1. \A p : Started(p, q)' <=> Started(p, q)
    BY <1>0, StartedStep
  <1>2. outstanding_rdma_reads_'[q] = outstanding_rdma_reads_[q]
    <2>1. CASE Resting
      BY <2>1 DEF Resting
    <2>2. CASE \E t \in Client : SubmitPush(t)
      BY <1>0, <2>2, PushQueues
    <2>3. ASSUME NEW d \in QPI, WqCharge(d) \/ WqPop(d)
          PROVE  outstanding_rdma_reads_'[q] = outstanding_rdma_reads_[q]
      BY <1>0, <2>3, ChargeQueues
    <2> QED
      BY <1>0, <2>1, <2>2, <2>3, QueueSteps
  <1>3. ASSUME NEW p \in ReadPiece, Started(p, q)
        PROVE  Placed(p)' <=> Placed(p)
    <2>1. ASSUME NEW t \in Client, SubmitPush(t)
          PROVE  Placed(p)' <=> Placed(p)
      <3>1. On(p, q) /\ p \in Piece
        BY <1>0, <1>3, StartedOn, ReadPieceFacts
      <3>2. PICK r \in Request : r = client[t].req /\ (Placed(p)' <=> Placed(p) \/ p[1] = r)
        BY <1>0, <2>1, PlacedPush
      <3>3. Fresh(r)
        BY <1>0, <2>1, <3>2 DEF OwnerInv, Submitting, SubmitPush
      <3> QED
        BY <3>1, <3>2, <3>3 DEF Fresh
    <2> QED
      BY <2>1, PlacedStep
  <1>4. /\ ChargedPieces(q) \subseteq Piece /\ ChargedPieces(q)' \subseteq Piece
        /\ \A p \in Piece : p \in ChargedPieces(q) <=> Started(p, q) /\ (p \in ReadPiece => Placed(p))
        /\ \A p \in Piece : p \in ChargedPieces(q)' <=> Started(p, q)' /\ (p \in ReadPiece => Placed(p)')
    BY DEF ChargedInv, ChargedMeans
  <1>5. \A p \in Piece : p \in ChargedPieces(q)' <=> p \in ChargedPieces(q)
    BY <1>1, <1>3, <1>4
  <1> QED
    BY <1>2, <1>4, <1>5

-----------------------------------------------------------------------------
(* The accounts.                                                            *)
AccInv ==
  \A q \in QPI :
    /\ IsFiniteSet(Content(ChargedPieces(q)))
    /\ outstanding_rdma_reads_[q] = Cardinality(Content(ChargedPieces(q)))

LEMMA AccStep ==
  ASSUME CallbackInv, QueueInv, ChargedInv, ChargedInv', AccInv, [Next]_vars
  PROVE  AccInv'
  <1> DEFINE S(q) == ChargedPieces(q)
             T(q) == ChargedPieces(q)'
             Right(q) == /\ IsFiniteSet(Content(T(q)))
                         /\ outstanding_rdma_reads_'[q] = Cardinality(Content(T(q)))
  <1>1. ASSUME NEW q \in QPI
        PROVE  /\ S(q) \subseteq Piece /\ IsFiniteSet(Content(S(q)))
               /\ outstanding_rdma_reads_[q] = Cardinality(Content(S(q)))
    BY DEF ChargedInv, ChargedMeans, AccInv
  <1> SUFFICES ASSUME NEW q \in QPI PROVE Right(q)
    BY DEF AccInv, Content
  <1>2. CASE WqCharge(q)
    <2>1. PICK h \in Piece : /\ h \notin S(q) /\ T(q) = S(q) \union {h}
                             /\ outstanding_rdma_reads_'[q] = outstanding_rdma_reads_[q] + PieceSize(h)
      BY <1>2, ChargeAdds
    <2> HIDE DEF S, T
    <2>2. /\ IsFiniteSet(Content(S(q) \union {h}))
          /\ Cardinality(Content(S(q) \union {h})) = Cardinality(Content(S(q))) + PieceSize(h)
      BY <1>1, <2>1, ContentAdd
    <2> QED
      BY <1>1, <2>1, <2>2
  <1>3. CASE CqRelease
    <2>1. PICK h \in ReadPiece, d \in QPI :
             /\ h \in S(d) /\ T(d) = S(d) \ {h}
             /\ outstanding_rdma_reads_'[d] = outstanding_rdma_reads_[d] - PieceSize(h)
             /\ q # d => T(q) = S(q) /\ outstanding_rdma_reads_'[q] = outstanding_rdma_reads_[q]
      BY <1>3, ReleaseRemoves
    <2> HIDE DEF S, T
    <2>2. CASE q = d
      <3>1. /\ IsFiniteSet(Content(S(d) \ {h}))
            /\ Cardinality(Content(S(d) \ {h})) = Cardinality(Content(S(d))) - PieceSize(h)
        BY <1>1, <2>1, ContentRemove
      <3> QED
        BY <1>1, <2>1, <2>2, <3>1
    <2>3. CASE q # d
      BY <1>1, <2>1, <2>3
    <2> QED
      BY <2>2, <2>3
  <1>4. CASE ~WqCharge(q) /\ ~CqRelease
    <2>1. T(q) = S(q) /\ outstanding_rdma_reads_'[q] = outstanding_rdma_reads_[q]
      BY <1>4, ChargedElse
    <2> HIDE DEF S, T
    <2> QED
      BY <1>1, <2>1
  <1> QED
    BY <1>2, <1>3, <1>4

AccountInv == CallbackInv /\ QueueInv /\ AccInv

LEMMA AccountInvInit == Reliable /\ Init => AccountInv
  <1> SUFFICES ASSUME Reliable, Init PROVE AccountInv
    OBVIOUS
  <1>1. CallbackInv
    BY CallbackInvInit
  <1>2. /\ \A q \in QPI : /\ assign_queue_[q] = <<>> /\ pushed[q] = <<>> /\ sq[q] = <<>> /\ wq[q] = "none"
                          /\ outstanding_rdma_reads_[q] = 0
        /\ cq = <<>> /\ wc = <<>>
    BY DEF Init
  <1>3. QueueInv
    <2>1. \A q \in QPI : Len(assign_queue_[q]) = 0 /\ Len(pushed[q]) = 0
      BY <1>2
    <2>2. \A n : n = 0 => 1 .. n = {} /\ n <= n
      OBVIOUS
    <2>3. ASSUME NEW q \in QPI
          PROVE  /\ Len(assign_queue_[q]) <= Len(pushed[q])
                 /\ 1 .. Len(assign_queue_[q]) = {} /\ 1 .. Len(pushed[q]) = {}
      BY <2>1, <2>2
    <2> QED
      BY <2>3 DEF QueueInv
  <1>4. ASSUME NEW q \in QPI
        PROVE  ChargedPieces(q) = {}
    <2>1. ChargedMeans(q)
      BY <1>1, <1>3, ChargedAlways DEF ChargedInv
    <2>2. Edge(q) = 0
      <3>1. Len(pushed[q]) = 0 /\ Len(assign_queue_[q]) = 0 /\ ~(wq[q] \in {"post", "pop"})
        BY <1>2
      <3> QED
        BY <3>1 DEF Edge
    <2> QED
      BY <2>1, <2>2 DEF ChargedMeans, Started
  <1>5. Content({}) = {}
    BY DEF Content
  <1>6. AccInv
    BY <1>2, <1>4, <1>5, FS_EmptySet DEF AccInv
  <1> QED
    BY <1>1, <1>3, <1>6 DEF AccountInv

LEMMA AccountInvStep == AccountInv /\ [Next]_vars => AccountInv'
  <1>1. CallbackInv /\ [Next]_vars => CallbackInv'
    BY CallbackInvStep
  <1>2. CallbackInv /\ QueueInv /\ [Next]_vars => QueueInv'
    BY QueueInvStep DEF CallbackInv
  <1>3. CallbackInv /\ QueueInv => ChargedInv
    BY ChargedAlways
  <1>4. CallbackInv' /\ QueueInv' => ChargedInv'
    BY <1>3, PTL
  <1>5. CallbackInv /\ QueueInv /\ ChargedInv /\ ChargedInv' /\ AccInv /\ [Next]_vars => AccInv'
    BY AccStep
  <1> QED
    BY <1>1, <1>2, <1>3, <1>4, <1>5 DEF AccountInv

LEMMA AccountInvariance == Reliable /\ Spec => []AccountInv
  BY AccountInvInit, AccountInvStep, PTL DEF Spec

(* The counter of the room in a send queue, which the dispatcher adds to    *)
(* before it posts and the completion thread subtracts from without a lock, *)
(* is always the number of work requests that are on their way, plus those  *)
(* of the sends and receives: a batch that succeeds, fails or is flushed    *)
(* gives back exactly the room it took.                                     *)
THEOREM AccountsAreRight == Reliable /\ Spec => []Accounting
  <1>1. AccountInv => Accounting
    BY DEF AccountInv, AccInv, Accounting
  <1> QED
    BY <1>1, AccountInvariance, PTL

-----------------------------------------------------------------------------
(* More of what the implementation of a read service rests on.              *)

(* The pieces of a read leave in order.                                     *)
LaterInv ==
  \A p, o \in ReadPiece : Placed(p) /\ p[1] = o[1] /\ p[2] <= o[2] => Placed(o)

(* A read has a status once it was called back.                             *)
CodeInv == \A r \in Reads : code[r] = "none" <=> finished_[r] = 0

(* A stop_future that has returned leaves no completion thread behind.      *)
StopInv == stopper.pc = "done" => cqPc = "exit"

LEMMA LaterStep == CallbackInv /\ LaterInv /\ [Next]_vars => LaterInv'
  <1> SUFFICES ASSUME CallbackInv, LaterInv, [Next]_vars PROVE LaterInv'
    OBVIOUS
  <1>0. TypeOK /\ PlaceInv /\ PushInv /\ InfoInv /\ OwnerInv
    BY DEF CallbackInv, Inv
  <1> SUFFICES ASSUME NEW p \in ReadPiece, NEW o \in ReadPiece, Placed(p)', p[1] = o[1], p[2] <= o[2]
               PROVE  Placed(o)'
    BY DEF LaterInv
  <1>1. CASE \A x \in ReadPiece : Placed(x)' <=> Placed(x)
    BY <1>1 DEF LaterInv
  <1>2. CASE \E t \in Client : SubmitPush(t)
    <2>1. PICK r \in Request : \A x \in ReadPiece : Placed(x)' <=> Placed(x) \/ x[1] = r
      BY <1>0, <1>2, PlacedPush
    <2> QED
      BY <2>1 DEF LaterInv
  <1>3. CASE CqRelease
    <2>1. \A x \in ReadPiece : Placed(x)' <=> Placed(x) /\ Head(wc).info # x
      BY <1>0, <1>3, PlacedDrop
    <2>2. Placed(p) /\ Head(wc).info # p /\ Placed(o)
      BY <2>1 DEF LaterInv
    <2> SUFFICES ASSUME Head(wc).info = o PROVE FALSE
      BY <2>1, <2>2
    <2>3. PICK s \in 1 .. 4, d \in QPI, i \in Nat : At(p, s, d, i)
      BY <2>2 DEF Placed
    <2>4. 1 \in 1 .. Len(wc) /\ Head(wc) = wc[1]
      BY <1>0, <1>3, DropPlaces
    <2>5. PICK q : q = wc[1].qpi
      OBVIOUS
    <2>6. At(o, 4, q, 1)
      BY <2>4, <2>5 DEF At
    <2>7. q \in QPI
      <3>1. wc \in Seq(Cqe)
        BY <1>0, Typed
      <3>2. wc[1] \in Cqe
        BY <2>4, <3>1
      <3> QED
        BY <2>5, <3>2 DEF Cqe
    <2>8. d = q
      <3>1. On(p, d)
        BY <1>0, <2>3 DEF PlaceInv
      <3>2. On(o, q)
        BY <1>0, <2>6, <2>7, 4 \in 1 .. 4, 1 \in Nat DEF PlaceInv
      <3> QED
        BY <1>0, <2>7, <3>1, <3>2, ReadPieceFacts DEF PushInv
    <2>9. p[2] < o[2]
      <3>1. p[2] # o[2]
        BY <2>2, ReadPieceFacts
      <3>2. p[2] \in Nat /\ o[2] \in Nat
        BY PieceOfRead, ReadPieceFacts DEF Reads
      <3> QED
        BY <3>1, <3>2
    <2>10. Ahead(s, i, 4, 1)
      BY <1>0, <2>3, <2>6, <2>7, <2>8, <2>9, 4 \in 1 .. 4, 1 \in Nat DEF PlaceInv
    <2>11. i >= 1
      BY <1>0, <2>3, AtBounds
    <2> QED
      BY <2>10, <2>11 DEF Ahead
  <1> QED
    BY <1>1, <1>2, <1>3, PlacedStep

(* What a callback does.                                                    *)
LEMMA CallEffect ==
  ASSUME CallbackInv, CqCall
  PROVE  \E h \in ReadPiece, q \in QPI :
           /\ h = Head(wc).info /\ Head(wc) = wc[1] /\ 1 \in 1 .. Len(wc) /\ At(h, 4, q, 1)
           /\ Head(wc).status \in {"SUCCESS", "FAILED"}
           /\ cqPc = "call" /\ moved' = moved /\ unsent' = unsent /\ stopper' = stopper
           /\ UNCHANGED queueVars
           /\ IF IsLast(h)
                THEN /\ finished_' = [finished_ EXCEPT ![h[1]] = @ + 1]
                     /\ code' = [code EXCEPT ![h[1]] = Head(wc).status]
                ELSE UNCHANGED <<finished_, code>>
  <1>0. TypeOK /\ InfoInv /\ Reliable
    BY DEF CallbackInv, Inv
  <1>1. PICK h, q : h = Head(wc).info /\ q = Head(wc).qpi
    OBVIOUS
  <1>2. wc # <<>> /\ h # NULL /\ cqPc = "call"
    BY <1>0, <1>1 DEF CqCall, TypeOK, CqTypeOK
  <1>3. wc[1] = Head(wc) /\ 1 \in 1 .. Len(wc) /\ wc[1] \in Cqe
    BY <1>0, <1>2, Typed
  <1>4. h \in ReadPiece
    BY <1>0, <1>1, <1>2, <1>3 DEF InfoInv
  <1>5. q \in QPI /\ Head(wc).status \in {"SUCCESS", "FAILED"}
    BY <1>1, <1>3 DEF Cqe
  <1>6. record[h] = h
    BY <1>0, <1>4 DEF ReadPiece, TypeOK, RecordTypeOK, Reliable
  <1>7. At(h, 4, q, 1)
    BY <1>1, <1>3 DEF At
  <1>8. IF IsLast(h)
          THEN /\ finished_' = [finished_ EXCEPT ![h[1]] = @ + 1]
               /\ code' = [code EXCEPT ![h[1]] = Head(wc).status]
          ELSE UNCHANGED <<finished_, code>>
    BY <1>1, <1>6 DEF CqCall
  <1>9. moved' = moved /\ unsent' = unsent /\ stopper' = stopper /\ UNCHANGED queueVars
    BY DEF CqCall, hwVars, stopVars
  <1> QED
    BY <1>1, <1>2, <1>3, <1>4, <1>5, <1>7, <1>8, <1>9

LEMMA CodeStep == CallbackInv /\ CodeInv /\ [Next]_vars => CodeInv'
  <1> SUFFICES ASSUME CallbackInv, CodeInv, [Next]_vars PROVE CodeInv'
    OBVIOUS
  <1>0. Inv /\ TypeOK /\ ThreadInv /\ Reliable
    BY DEF CallbackInv, Inv
  <1>1. ASSUME UNCHANGED <<finished_, code>>
        PROVE  CodeInv'
    BY <1>1 DEF CodeInv
  <1>2. CASE CqCall
    <2>1. PICK h \in ReadPiece :
            /\ Head(wc).status \in {"SUCCESS", "FAILED"}
            /\ IF IsLast(h)
                 THEN /\ finished_' = [finished_ EXCEPT ![h[1]] = @ + 1]
                      /\ code' = [code EXCEPT ![h[1]] = Head(wc).status]
                 ELSE UNCHANGED <<finished_, code>>
      BY <1>2, CallEffect
    <2>2. CASE IsLast(h)
      <3>1. finished_ \in [Request -> Nat] /\ DOMAIN code = Request
        BY <1>0 DEF TypeOK, CqTypeOK
      <3> SUFFICES ASSUME NEW r \in Reads PROVE code'[r] = "none" <=> finished_'[r] = 0
        BY DEF CodeInv
      <3>2. r \in Request /\ finished_[r] \in Nat
        BY <3>1 DEF Reads
      <3>3. CASE r = h[1]
        <4>1. finished_'[r] = finished_[r] + 1 /\ code'[r] = Head(wc).status
          BY <2>1, <2>2, <3>1, <3>2, <3>3
        <4> QED
          BY <2>1, <3>2, <4>1
      <3>4. CASE r # h[1]
        <4>1. finished_'[r] = finished_[r] /\ code'[r] = code[r]
          BY <2>1, <2>2, <3>1, <3>2, <3>4
        <4> QED
          BY <4>1 DEF CodeInv
      <3> QED
        BY <3>3, <3>4
    <2> QED
      BY <1>1, <2>1, <2>2
  <1>3. Quiet \/ (\E t \in Client : SubmitPush(t)) \/ CqSkip \/ CqRelease => UNCHANGED <<finished_, code>>
    BY DEF Quiet, SubmitPush, cqVars, CqSkip, CqRelease
  <1> QED
    BY <1>0, <1>1, <1>2, <1>3, QuietOrNot

LEMMA StopInvStep == TypeOK /\ StopInv /\ [Next]_vars => StopInv'
  <1> SUFFICES ASSUME TypeOK, StopInv, [Next]_vars PROVE StopInv'
    OBVIOUS
  <1> USE DEF StopInv
  <1>0. stopper \in [pc : {"idle", "wq_flag", "wq_notify", "wq_join", "cq_flag",
                           "cq_arm", "cq_post", "cq_join", "done"}, qpi : QPI]
    BY DEF TypeOK, StopTypeOK
  <1>1. ASSUME stopper' = stopper, cqPc = "exit" => cqPc' = "exit"
        PROVE  StopInv'
    BY <1>1
  <1>2. CASE LaunchFuture
    BY <1>1, <1>2 DEF LaunchFuture, stopVars
  <1>3. ASSUME NEW t \in Client, NEW r \in Request, SubmitSelect(t, r) \/ ClientStep(t)
        PROVE  StopInv'
    BY <1>1, <1>3 DEF SubmitSelect, ClientStep, SubmitStore, SubmitPush, WaitReturn, cqVars, stopVars
  <1>4. ASSUME NEW q \in QPI, WqStep(q) \/ WqSpurious(q)
        PROVE  StopInv'
    BY <1>1, <1>4 DEF WqStep, WqSpurious, WqTop, WqPredicate, WqPark, WqWake, WqDrained, WqReserve,
                      WqCharge, WqPost, WqPostFails, WqPop, cqVars, stopVars
  <1>5. CASE CqStep
    BY <1>1, <1>5 DEF CqStep, CqTop, CqEvent, CqArm, CqPoll, CqSkip, CqCall, CqRelease, stopVars
  <1>6. ASSUME NEW q \in QPI, HwStep(q)
        PROVE  StopInv'
    BY <1>1, <1>6 DEF HwStep, HwComplete, HwFail, HwFlush, HwReceive, cqVars, stopVars
  <1>7. CASE StopCqJoin
    BY <1>7 DEF StopCqJoin, cqVars
  <1>8. CASE StopBegin \/ StopWqFlag \/ StopWqNotify \/ StopCqFlag \/ StopCqArm \/ StopCqPost
    <2>1. stopper'.pc # "done"
      BY <1>0, <1>8 DEF StopBegin, StopWqFlag, StopWqNotify, StopCqFlag, StopCqArm, StopCqPost, StopGoto
    <2> QED
      BY <2>1
  <1>9. CASE StopWqJoin
    BY <1>9 DEF StopWqJoin
  <1>10. CASE UNCHANGED vars
    BY <1>1, <1>10 DEF vars, cqVars, stopVars
  <1> QED
    BY <1>2, <1>3, <1>4, <1>5, <1>6, <1>7, <1>8, <1>9, <1>10, ConstantsAssumption DEF Next, StopStep

-----------------------------------------------------------------------------
(* The phases of the service.                                               *)

(* What is spent, and stays so.                                             *)
SpentShape ==
  \A q \in QPI :
    /\ Spent(q) \subseteq Piece
    /\ \A p \in Piece : p \in Spent(q) <=> Started(p, q) /\ p \notin ReadPiece

LEMMA SpentAlways == Inv /\ QueueInv => SpentShape
  BY SpentMeans DEF SpentShape

(* Room that sends and receives have used up stays used up.                 *)
LEMMA ExhaustedStays ==
  ASSUME AccountInv, SpentShape', [Next]_vars, NEW q \in QPI, Exhausted(q)
  PROVE  Exhausted(q)'
  <1>0. /\ CallbackInv /\ QueueInv /\ AccInv /\ Inv /\ TypeOK /\ ThreadInv /\ OwnerInv /\ Reliable
    BY DEF AccountInv, CallbackInv, Inv
  <1>1. PICK n, c, o : /\ n = PieceSize(Head(assign_queue_[q])) /\ c = Cardinality(Content(Spent(q)))
                       /\ o = outstanding_rdma_reads_[q]
    OBVIOUS
  <1>2. wq[q] = "drain" /\ assign_queue_[q] # <<>> /\ n + c >= MAX_SEND_WR
    BY <1>1 DEF Exhausted
  <1>3. assign_queue_[q] \in Seq(Piece) /\ Head(assign_queue_[q]) \in Piece
    BY <1>0, <1>2, Typed
  <1>4. n \in Nat /\ MAX_SEND_WR \in Nat
    BY <1>1, <1>3, PieceShape, ConstantsAssumption
  <1>5. c \in Nat /\ o \in Nat /\ c <= o
    <2>1. Content(Spent(q)) \subseteq Content(ChargedPieces(q))
      BY DEF ChargedPieces, Content
    <2>2. IsFiniteSet(Content(ChargedPieces(q))) /\ o = Cardinality(Content(ChargedPieces(q)))
      BY <1>0, <1>1 DEF AccInv
    <2> QED
      BY <1>1, <2>1, <2>2, FS_Subset, FS_CardinalityType
  <1>6. ~WqReserve(q) /\ ~WqDrained(q) /\ ~WqCharge(q)
    <2>1. ~HasRoom(q)
      BY <1>1, <1>2, <1>4, <1>5 DEF HasRoom, Fits
    <2> QED
      BY <1>2, <2>1 DEF WqReserve, WqDrained, WqCharge, WqGoto
  <1>7. wq'[q] = "drain"
    <2>0. DOMAIN wq = QPI
      BY <1>0, Typed
    <2>1. ASSUME wq' = wq
          PROVE  wq'[q] = "drain"
      BY <1>2, <2>1
    <2>2. CASE LaunchFuture
      BY <1>0, <1>2, <2>2 DEF LaunchFuture, ThreadInv
    <2>3. ASSUME NEW t \in Client, NEW r \in Request, SubmitSelect(t, r) \/ SubmitStore(t) \/ WaitReturn(t)
          PROVE  wq'[q] = "drain"
      BY <2>1, <2>3 DEF SubmitSelect, SubmitStore, WaitReturn, queueVars
    <2>4. ASSUME NEW t \in Client, SubmitPush(t)
          PROVE  wq'[q] = "drain"
      BY <1>2, <2>0, <2>4 DEF SubmitPush, Notified
    <2>5. ASSUME NEW d \in QPI, WqStep(d) \/ WqSpurious(d)
          PROVE  wq'[q] = "drain"
      <3>1. d # q
        <4>1. wq[q] \notin {"top", "pred", "park", "wake", "parked", "charge", "post", "pop"}
          BY <1>2
        <4> QED
          BY <1>6, <2>5, <4>1 DEF WqStep, WqSpurious, WqTop, WqPredicate, WqPark, WqWake, WqPost,
                                  WqPostFails, WqPop, WqGoto
      <3>2. \E to : wq' = [wq EXCEPT ![d] = to]
        BY <2>5 DEF WqStep, WqSpurious, WqTop, WqPredicate, WqPark, WqWake, WqDrained, WqReserve,
                    WqCharge, WqPost, WqPostFails, WqPop, WqGoto
      <3> QED
        BY <1>2, <2>0, <3>1, <3>2
    <2>6. CASE CqStep
      BY <2>1, <2>6 DEF CqStep, CqTop, CqEvent, CqArm, CqPoll, CqSkip, CqCall, CqRelease, queueVars
    <2>7. CASE StopBegin \/ StopWqFlag \/ StopWqJoin \/ StopCqFlag \/ StopCqArm \/ StopCqPost \/ StopCqJoin
      BY <2>1, <2>7 DEF StopBegin, StopWqFlag, StopWqJoin, StopCqFlag, StopCqArm, StopCqPost, StopCqJoin,
                        queueVars
    <2>8. CASE StopWqNotify
      BY <1>2, <2>0, <2>8 DEF StopWqNotify, Notified
    <2>9. ASSUME NEW d \in QPI, HwStep(d)
          PROVE  wq'[q] = "drain"
      BY <2>1, <2>9 DEF HwStep, HwComplete, HwFail, HwFlush, HwReceive, queueVars
    <2>10. CASE UNCHANGED vars
      BY <2>1, <2>10 DEF vars, queueVars
    <2> QED
      BY <2>2, <2>3, <2>4, <2>5, <2>6, <2>7, <2>8, <2>9, <2>10, ConstantsAssumption
         DEF Next, ClientStep, StopStep
  <1>8. assign_queue_'[q] # <<>> /\ Head(assign_queue_'[q]) = Head(assign_queue_[q])
    <2>1. ASSUME assign_queue_'[q] = assign_queue_[q]
          PROVE  assign_queue_'[q] # <<>> /\ Head(assign_queue_'[q]) = Head(assign_queue_[q])
      BY <1>2, <2>1
    <2>2. CASE Resting \/ CqRelease
      BY <2>1, <2>2 DEF Resting, CqRelease
    <2>3. ASSUME NEW d \in QPI, WqCharge(d) \/ WqPop(d)
          PROVE  assign_queue_'[q] = assign_queue_[q]
      <3>1. d # q
        BY <1>2, <2>3 DEF WqCharge, WqPop, WqGoto
      <3> QED
        BY <1>0, <2>3, <3>1, ChargeQueues
    <2>4. CASE \E t \in Client : SubmitPush(t)
      <3>1. PICK r \in Request, d \in QPI :
              /\ Pieces(r) \in Seq(Piece)
              /\ assign_queue_' = [assign_queue_ EXCEPT ![d] = @ \o Pieces(r)]
        BY <1>0, <2>4, PushQueues
      <3>2. CASE q # d
        BY <1>0, <2>1, <3>1, <3>2, Typed
      <3>3. CASE q = d
        <4>1. assign_queue_'[q] = assign_queue_[q] \o Pieces(r)
          BY <1>0, <3>1, <3>3, Typed
        <4> QED
          BY <1>2, <1>3, <3>1, <4>1
      <3> QED
        BY <3>2, <3>3
    <2> QED
      BY <1>0, <2>1, <2>2, <2>3, <2>4, QueueSteps
  <1>9. Spent(q)' = Spent(q)
    <2>1. \A p : Started(p, q)' <=> Started(p, q)
      BY <1>0, <1>6, StartedStep
    <2>2. Spent(q) \subseteq Piece /\ \A p \in Piece : p \in Spent(q) <=> Started(p, q) /\ p \notin ReadPiece
      BY <1>0, SpentMeans
    <2>3. Spent(q)' \subseteq Piece /\ \A p \in Piece : p \in Spent(q)' <=> Started(p, q)' /\ p \notin ReadPiece
      BY DEF SpentShape
    <2> QED
      BY <2>1, <2>2, <2>3
  <1> QED
    BY <1>1, <1>2, <1>7, <1>8, <1>9 DEF Exhausted, Content

(* The phase moves on, one at a time, and does not while the queues and the *)
(* stopping thread stand still.                                             *)
PhaseMoves ==
  \/ Phase' = Phase
  \/ Phase = "serving" /\ Phase' = "ending"
  \/ Phase = "ending" /\ Phase' = "closed"

LEMMA PhaseStep ==
  ASSUME AccountInv, SpentShape', [Next]_vars
  PROVE  PhaseMoves
  <1>0. TypeOK
    BY DEF AccountInv, CallbackInv, Inv
  <1>1. SomeExhausted => SomeExhausted'
    BY ExhaustedStays DEF SomeExhausted
  <1>2. stopper \in [pc : {"idle", "wq_flag", "wq_notify", "wq_join", "cq_flag",
                           "cq_arm", "cq_post", "cq_join", "done"}, qpi : QPI]
    BY <1>0 DEF TypeOK, StopTypeOK
  <1>3. ASSUME stopper' = stopper
        PROVE  PhaseMoves
    BY <1>1, <1>3 DEF PhaseMoves, Phase
  <1>4. CASE StopBegin
    <2>1. stopper.pc = "idle" /\ stopper'.pc = "wq_flag"
      BY <1>2, <1>4 DEF StopBegin, StopGoto
    <2> QED
      BY <2>1 DEF PhaseMoves, Phase
  <1>5. CASE StopWqFlag \/ StopWqNotify \/ StopWqJoin \/ StopCqFlag \/ StopCqArm \/ StopCqPost
    <2>1. stopper.pc \notin {"idle", "done"} /\ stopper'.pc \notin {"idle", "done"}
      BY <1>2, <1>5 DEF StopWqFlag, StopWqNotify, StopWqJoin, StopCqFlag, StopCqArm, StopCqPost, StopGoto
    <2> QED
      BY <2>1 DEF PhaseMoves, Phase
  <1>6. CASE StopCqJoin
    <2>1. stopper.pc = "cq_join" /\ stopper'.pc = "done"
      BY <1>2, <1>6 DEF StopCqJoin, StopGoto
    <2> QED
      BY <2>1 DEF PhaseMoves, Phase
  <1>7. StopBegin \/ StopStep \/ stopper' = stopper
    <2>1. LaunchFuture \/ CqStep => stopper' = stopper
      BY DEF LaunchFuture, CqStep, CqTop, CqEvent, CqArm, CqPoll, CqSkip, CqCall, CqRelease, stopVars
    <2>2. ASSUME NEW t \in Client, NEW r \in Request, SubmitSelect(t, r) \/ ClientStep(t)
          PROVE  stopper' = stopper
      BY <2>2 DEF SubmitSelect, ClientStep, SubmitStore, SubmitPush, WaitReturn, stopVars
    <2>3. ASSUME NEW q \in QPI, WqStep(q) \/ WqSpurious(q)
          PROVE  stopper' = stopper
      BY <2>3 DEF WqStep, WqSpurious, WqTop, WqPredicate, WqPark, WqWake, WqDrained, WqReserve,
                  WqCharge, WqPost, WqPostFails, WqPop, stopVars
    <2>4. ASSUME NEW q \in QPI, HwStep(q)
          PROVE  stopper' = stopper
      BY <2>4 DEF HwStep, HwComplete, HwFail, HwFlush, HwReceive, stopVars
    <2>5. UNCHANGED vars => stopper' = stopper
      BY DEF vars, stopVars
    <2> QED
      BY <2>1, <2>2, <2>3, <2>4, <2>5, ConstantsAssumption DEF Next
  <1> QED
    BY <1>3, <1>4, <1>5, <1>6, <1>7 DEF StopStep

LEMMA PhaseStays ==
  ASSUME UNCHANGED queueVars, stopper' = stopper
  PROVE  Phase' = Phase
  <1>1. UNCHANGED <<assign_queue_, wq, pushed>>
    BY DEF queueVars
  <1>2. \A q \in QPI : Exhausted(q)' <=> Exhausted(q)
    BY <1>1 DEF Exhausted, Spent, Begun
  <1>3. SomeExhausted' <=> SomeExhausted
    BY <1>2 DEF SomeExhausted
  <1> QED
    BY <1>3 DEF Phase

-----------------------------------------------------------------------------
(* The steps of the service.                                                *)
ServiceInv == AccountInv /\ LaterInv /\ CodeInv /\ StopInv

(* A read with a piece on the way is submitted and has no status.           *)
LEMMA BusyIsOpen ==
  ASSUME CallbackInv, LaterInv, CodeInv, NEW e \in ReadPiece, NEW s \in 1 .. 4, NEW q \in QPI, NEW i \in Nat,
         At(e, s, q, i), s # 4 \/ (Head(wc).info = e /\ cqPc # "release")
  PROVE  e[1] \in Reads /\ e[1] \notin unsent /\ code[e[1]] = "none"
  <1>0. TypeOK /\ PlaceInv /\ PushInv /\ OwnerInv /\ CallInv
    BY DEF CallbackInv, Inv
  <1>1. On(e, q) /\ Placed(e)
    BY <1>0 DEF PlaceInv, Placed
  <1>2. PICK r : r = e[1]
    OBVIOUS
  <1>3. r \in Reads /\ r \in Request /\ e \in Piece /\ e[2] \in 1 .. NumPieces(r) /\ e = <<r, e[2]>>
    BY <1>2, ReadPieceFacts DEF Reads
  <1>4. r \notin unsent
    BY <1>0, <1>1, <1>2, <1>3 DEF OwnerInv, Fresh
  <1>5. PICK l : l = Last(r)
    OBVIOUS
  <1>6. l \in ReadPiece /\ l[1] = r /\ l[2] = NumPieces(r)
    BY <1>3, <1>5, LastOfRead DEF Last
  <1>7. NumPieces(r) \in Nat /\ e[2] \in Nat /\ e[2] <= l[2]
    BY <1>3, <1>6, PieceOfRead
  <1>8. Placed(l)
    BY <1>1, <1>2, <1>6, <1>7 DEF LaterInv
  <1>9. ~Called(l)
    <2> SUFFICES ASSUME Called(l) PROVE FALSE
      OBVIOUS
    <2>1. cqPc = "release" /\ Head(wc).info = l /\ s # 4
      BY DEF Called
    <2>2. wc # <<>> /\ wc \in Seq(Cqe)
      BY <1>0, <2>1, Typed DEF TypeOK, CqTypeOK
    <2>3. PICK d : d = wc[1].qpi
      OBVIOUS
    <2>4. d \in QPI /\ 1 \in 1 .. Len(wc) /\ wc[1] = Head(wc)
      <3>1. 1 \in 1 .. Len(wc) /\ wc[1] = Head(wc) /\ wc[1] \in Cqe
        BY <2>2
      <3> QED
        BY <2>3, <3>1 DEF Cqe
    <2>5. At(l, 4, d, 1)
      BY <2>1, <2>3, <2>4 DEF At
    <2>6. On(l, d)
      BY <1>0, <1>6, <2>4, <2>5, 4 \in 1 .. 4, 1 \in Nat DEF PlaceInv
    <2>7. d = q
      BY <1>0, <1>1, <1>2, <1>3, <1>6, <2>4, <2>6, ReadPieceFacts DEF PushInv
    <2>8. /\ e[2] = l[2] => s = 4
          /\ e[2] < l[2] => Ahead(s, i, 4, 1)
      BY <1>0, <1>2, <1>6, <2>5, <2>7, 4 \in 1 .. 4, 1 \in Nat DEF PlaceInv
    <2>9. e[2] = l[2] \/ e[2] < l[2]
      BY <1>6, <1>7
    <2> QED
      BY <2>1, <2>8, <2>9 DEF Ahead
  <1>10. finished_[r] = 0
    BY <1>0, <1>3, <1>5, <1>8, <1>9 DEF CallInv
  <1> QED
    BY <1>2, <1>3, <1>4, <1>10 DEF CodeInv

(* What a completion transfers.                                             *)
LEMMA MoveEffect ==
  ASSUME TypeOK, NEW q \in QPI, HwComplete(q) \/ HwFail(q)
  PROVE  \E e \in Piece \union {NULL}, n \in Nat :
           /\ e = Head(sq[q]) /\ moved' = moved \union Moves(e, n)
           /\ Moves(e, n) \subseteq UNION {{r} \X (1 .. Size[r]) : r \in Request}
           /\ e # NULL => At(e, 2, q, 1)
           /\ UNCHANGED <<unsent, code>> /\ UNCHANGED queueVars /\ stopper' = stopper
  <1>1. sq[q] # <<>> /\ sq[q] \in Seq(Piece \union {NULL})
    BY Typed DEF HwComplete, HwFail
  <1>2. PICK e : e = Head(sq[q])
    OBVIOUS
  <1>3. e \in Piece \union {NULL} /\ e = sq[q][1] /\ 1 \in 1 .. Len(sq[q])
    BY <1>1, <1>2
  <1>4. Len(WrIds(e)) \in Nat
    BY <1>3, WrIdsType
  <1>5. PICK n \in Nat : n <= Len(WrIds(e)) /\ moved' = moved \union Moves(e, n)
    <2>1. CASE HwComplete(q)
      BY <1>2, <1>4, <2>1 DEF HwComplete
    <2>2. CASE HwFail(q)
      <3>1. PICK k \in 1 .. Len(WrIds(e)) : moved' = moved \union Moves(e, k - 1)
        BY <1>2, <2>2 DEF HwFail
      <3>2. k - 1 \in Nat /\ k - 1 <= Len(WrIds(e))
        BY <1>4
      <3> QED
        BY <3>1, <3>2
    <2> QED
      BY <2>1, <2>2
  <1>6. Moves(e, n) \subseteq UNION {{r} \X (1 .. Size[r]) : r \in Request}
    BY <1>3, <1>5, MovesType
  <1>7. UNCHANGED <<unsent, code>> /\ UNCHANGED queueVars /\ stopper' = stopper
    BY DEF HwComplete, HwFail, clientVars, cqVars, stopVars
  <1> QED
    BY <1>2, <1>3, <1>5, <1>6, <1>7 DEF At

(* The other steps.                                                         *)
LEMMA NothingSeen ==
  ASSUME [Next]_vars
  PROVE  \/ UNCHANGED <<unsent, moved, code>>
         \/ \E t \in Client, r \in Request : SubmitSelect(t, r)
         \/ \E q \in QPI : HwComplete(q) \/ HwFail(q)
         \/ CqCall
  <1>1. LaunchFuture => UNCHANGED <<unsent, moved, code>>
    BY DEF LaunchFuture, clientVars, hwVars
  <1>2. ASSUME NEW t \in Client, ClientStep(t)
        PROVE  UNCHANGED <<unsent, moved, code>>
    BY <1>2 DEF ClientStep, SubmitStore, SubmitPush, WaitReturn, cqVars, hwVars
  <1>3. ASSUME NEW q \in QPI, WqStep(q) \/ WqSpurious(q)
        PROVE  UNCHANGED <<unsent, moved, code>>
    BY <1>3 DEF WqStep, WqSpurious, WqTop, WqPredicate, WqPark, WqWake, WqDrained, WqReserve,
                WqCharge, WqPost, WqPostFails, WqPop, clientVars, cqVars, hwVars
  <1>4. CqStep => CqCall \/ UNCHANGED <<unsent, moved, code>>
    BY DEF CqStep, CqTop, CqEvent, CqArm, CqPoll, CqSkip, CqRelease, clientVars, hwVars
  <1>5. StopBegin \/ StopStep => UNCHANGED <<unsent, moved, code>>
    BY DEF StopBegin, StopStep, StopWqFlag, StopWqNotify, StopWqJoin, StopCqFlag, StopCqArm, StopCqPost,
           StopCqJoin, clientVars, cqVars, hwVars
  <1>6. ASSUME NEW q \in QPI, HwFlush(q) \/ HwReceive(q)
        PROVE  UNCHANGED <<unsent, moved, code>>
    BY <1>6 DEF HwFlush, HwReceive, clientVars, cqVars
  <1>7. UNCHANGED vars => UNCHANGED <<unsent, moved, code>>
    BY DEF vars, clientVars, cqVars, hwVars
  <1> QED
    BY <1>1, <1>2, <1>3, <1>4, <1>5, <1>6, <1>7 DEF Next, HwStep

(* What the caller sees of the context.                                     *)
Sub == Reads \ unsent

Mv == {i \in moved : i[1] \in Reads}

St == [r \in Reads |-> code[r]]

(* Submit, move, report; nothing, or a phase that ends.                     *)
LEMMA SeenSubmit ==
  ASSUME NEW t \in Client, NEW r \in Request, SubmitSelect(t, r)
  PROVE  [Service!Next]_(Service!vars)
  <1>1. /\ r \in unsent /\ unsent' = unsent \ {r} /\ moved' = moved /\ code' = code
        /\ UNCHANGED queueVars /\ stopper' = stopper
    BY DEF SubmitSelect, cqVars, hwVars, stopVars
  <1>2. Phase' = Phase
    BY <1>1, PhaseStays
  <1>3. Mv' = Mv /\ St' = St
    BY <1>1 DEF Mv, St
  <1>4. CASE r \in Reads
    <2>1. r \notin Sub /\ Sub' = Sub \union {r}
      BY <1>1, <1>4 DEF Sub
    <2>2. Service!Submit(r)
      BY <1>2, <1>3, <2>1 DEF Service!Submit, Sub, Mv, St
    <2> QED
      BY <1>4, <2>2 DEF Service!Next
  <1>5. CASE r \notin Reads
    <2>1. Sub' = Sub
      BY <1>1, <1>5 DEF Sub
    <2> QED
      BY <1>2, <1>3, <2>1 DEF Service!vars, Sub, Mv, St
  <1> QED
    BY <1>4, <1>5

LEMMA SeenMove ==
  ASSUME ServiceInv, NEW q \in QPI, HwComplete(q) \/ HwFail(q)
  PROVE  [Service!Next]_(Service!vars)
  <1>0. CallbackInv /\ LaterInv /\ CodeInv /\ TypeOK
    BY DEF ServiceInv, AccountInv, CallbackInv, Inv
  <1>1. PICK e \in Piece \union {NULL}, n \in Nat :
          /\ moved' = moved \union Moves(e, n)
          /\ Moves(e, n) \subseteq UNION {{r} \X (1 .. Size[r]) : r \in Request}
          /\ e # NULL => At(e, 2, q, 1)
          /\ UNCHANGED <<unsent, code>> /\ UNCHANGED queueVars /\ stopper' = stopper
    BY <1>0, MoveEffect
  <1>2. Phase' = Phase
    BY <1>1, PhaseStays
  <1>3. Sub' = Sub /\ St' = St
    BY <1>1 DEF Sub, St
  <1>4. \A x \in Moves(e, n) : e # NULL /\ x[1] = e[1]
    BY DEF Moves, Items
  <1>5. CASE e # NULL /\ e[1] \in Reads
    <2>1. PICK r : r = e[1]
      OBVIOUS
    <2>2. e \in ReadPiece
      BY <1>5 DEF ReadPiece, Reads
    <2>3. r \in Reads /\ r \notin unsent /\ code[r] = "none"
      BY <1>0, <1>1, <1>5, <2>1, <2>2, BusyIsOpen, 2 \in 1 .. 4, 1 \in Nat
    <2>4. Moves(e, n) \subseteq {r} \X (1 .. Size[r])
      <3> SUFFICES ASSUME NEW x \in Moves(e, n) PROVE x \in {r} \X (1 .. Size[r])
        OBVIOUS
      <3>1. PICK y \in Request : x \in {y} \X (1 .. Size[y])
        BY <1>1
      <3>2. x[1] = y
        BY <3>1
      <3> QED
        BY <1>4, <2>1, <3>1, <3>2
    <2>5. Mv' = Mv \union Moves(e, n)
      BY <1>1, <1>4, <2>1, <2>3 DEF Mv
    <2>6. r \in Sub /\ St[r] = "none"
      BY <2>3 DEF Sub, St
    <2>7. Service!Move(r)
      <3>1. r \in Service!Open
        BY <2>6 DEF Service!Open, Sub, St
      <3>2. \E S \in SUBSET Service!Data(r) : Mv' = Mv \union S
        BY <2>4, <2>5 DEF Service!Data
      <3> QED
        BY <1>2, <1>3, <3>1, <3>2 DEF Service!Move, Sub, Mv, St
    <2> QED
      BY <2>3, <2>7 DEF Service!Next
  <1>6. CASE ~(e # NULL /\ e[1] \in Reads)
    <2>1. Mv' = Mv
      BY <1>1, <1>4, <1>6 DEF Mv
    <2> QED
      BY <1>2, <1>3, <2>1 DEF Service!vars, Sub, Mv, St
  <1> QED
    BY <1>5, <1>6

LEMMA SeenCall ==
  ASSUME ServiceInv, CqCall
  PROVE  [Service!Next]_(Service!vars)
  <1>0. CallbackInv /\ LaterInv /\ CodeInv /\ StopInv /\ TypeOK /\ AnnouncedArrived
    BY DEF ServiceInv, AccountInv, CallbackInv, Inv, DataInv
  <1>1. PICK h \in ReadPiece, q \in QPI :
          /\ h = Head(wc).info /\ Head(wc) = wc[1] /\ 1 \in 1 .. Len(wc) /\ At(h, 4, q, 1)
          /\ Head(wc).status \in {"SUCCESS", "FAILED"}
          /\ cqPc = "call" /\ moved' = moved /\ unsent' = unsent /\ stopper' = stopper
          /\ UNCHANGED queueVars
          /\ IF IsLast(h) THEN code' = [code EXCEPT ![h[1]] = Head(wc).status]
                          ELSE UNCHANGED code
    BY <1>0, CallEffect
  <1>2. Phase' = Phase
    BY <1>1, PhaseStays
  <1>3. Sub' = Sub /\ Mv' = Mv
    BY <1>1 DEF Sub, Mv
  <1>4. CASE ~IsLast(h)
    <2>1. St' = St
      BY <1>1, <1>4 DEF St
    <2> QED
      BY <1>2, <1>3, <2>1 DEF Service!vars, Sub, Mv, St
  <1>5. CASE IsLast(h)
    <2>1. PICK r, st : r = h[1] /\ st = Head(wc).status
      OBVIOUS
    <2>2. r \in Reads /\ r \notin unsent /\ code[r] = "none"
      BY <1>0, <1>1, <2>1, BusyIsOpen, 4 \in 1 .. 4, 1 \in Nat
    <2>3. r \in Request /\ DOMAIN code = Request
      BY <1>0, <2>2 DEF Reads, TypeOK, CqTypeOK
    <2>4. St' = [St EXCEPT ![r] = st]
      <3>1. \A x \in Reads : code'[x] = IF x = r THEN st ELSE code[x]
        BY <1>1, <1>5, <2>1, <2>3 DEF Reads
      <3> QED
        BY <2>2, <3>1 DEF St
    <2>5. ASSUME st = "SUCCESS"
          PROVE  {r} \X (1 .. Size[r]) \subseteq Mv
      <3>1. Announces(wc[1])
        BY <1>1, <1>5, <2>1, <2>5, ReadPieceFacts DEF Announces
      <3>2. Arrived(r)
        BY <1>0, <1>1, <2>1, <3>1 DEF AnnouncedArrived
      <3> QED
        BY <2>2, <3>2 DEF Arrived, Mv
    <2>6. Phase # "closed"
      <3>1. stopper.pc # "done"
        BY <1>0, <1>1 DEF StopInv
      <3> QED
        BY <3>1 DEF Phase
    <2>7. Service!Report(r)
      <3>1. r \in Service!Open
        BY <2>2 DEF Service!Open, Sub, St
      <3>2. \/ St' = [St EXCEPT ![r] = "FAILED"]
            \/ Service!Data(r) \subseteq Mv /\ St' = [St EXCEPT ![r] = "SUCCESS"]
        BY <1>1, <2>1, <2>4, <2>5 DEF Service!Data
      <3> QED
        BY <1>2, <1>3, <2>6, <3>1, <3>2 DEF Service!Report, Sub, Mv, St
    <2> QED
      BY <2>2, <2>7 DEF Service!Next
  <1> QED
    BY <1>4, <1>5

LEMMA SeenRest ==
  ASSUME PhaseMoves, UNCHANGED <<unsent, moved, code>>
  PROVE  [Service!Next]_(Service!vars)
  <1>1. Sub' = Sub /\ Mv' = Mv /\ St' = St
    BY DEF Sub, Mv, St
  <1>2. CASE Phase' = Phase
    BY <1>1, <1>2 DEF Service!vars, Sub, Mv, St
  <1>3. CASE Phase = "serving" /\ Phase' = "ending"
    BY <1>1, <1>3 DEF Service!Next, Service!End, Sub, Mv, St
  <1>4. CASE Phase = "ending" /\ Phase' = "closed"
    BY <1>1, <1>4 DEF Service!Next, Service!Close, Sub, Mv, St
  <1> QED
    BY <1>2, <1>3, <1>4 DEF PhaseMoves

LEMMA ServiceStep ==
  ASSUME ServiceInv, SpentShape', [Next]_vars
  PROVE  [Service!Next]_(Service!vars)
  <1>1. AccountInv
    BY DEF ServiceInv
  <1>2. PhaseMoves
    BY <1>1, PhaseStep
  <1> QED
    BY <1>2, NothingSeen, SeenSubmit, SeenMove, SeenCall, SeenRest

LEMMA ServiceInit == Init => Service!Init
  <1> SUFFICES ASSUME Init PROVE Service!Init
    OBVIOUS
  <1>1. /\ unsent = Request /\ moved = {} /\ code = [r \in Request |-> "none"]
        /\ stopper = [pc |-> "idle", qpi |-> 0] /\ \A q \in QPI : wq[q] = "none"
    BY DEF Init
  <1>2. Sub = {} /\ Mv = {} /\ St = [r \in Reads |-> "none"]
    BY <1>1 DEF Sub, Mv, St, Reads
  <1>3. Phase = "serving"
    BY <1>1 DEF Phase, SomeExhausted, Exhausted
  <1> QED
    BY <1>2, <1>3 DEF Service!Init, Sub, Mv, St

LEMMA ServiceInvInit == Reliable /\ Init => ServiceInv
  <1> SUFFICES ASSUME Reliable, Init PROVE ServiceInv
    OBVIOUS
  <1>1. /\ \A p \in ReadPiece : ~Placed(p)
        /\ \A r \in Request : finished_[r] = 0 /\ code[r] = "none"
        /\ stopper.pc = "idle"
    BY DEF Init, Placed, At
  <1> QED
    BY <1>1, AccountInvInit DEF ServiceInv, LaterInv, CodeInv, StopInv, Reads

LEMMA ServiceInvStep == ServiceInv /\ [Next]_vars => ServiceInv'
  BY AccountInvStep, LaterStep, CodeStep, StopInvStep DEF ServiceInv, AccountInv, CallbackInv, Inv

(* For its callers the context is a ReadService, in every interleaving of   *)
(* its threads with the device and with stop_future: data arrives only for  *)
(* requests that are submitted and not reported, every request is reported  *)
(* at most once, SUCCESS only with all its data, and none is reported after *)
(* stop_future has returned.                                                *)
THEOREM IsReadService == Reliable /\ Spec => ImplementsReadService
  <1>1. Init => Service!Init
    BY ServiceInit
  <1>2. ServiceInv /\ SpentShape' /\ [Next]_vars => [Service!Next]_(Service!vars)
    BY ServiceStep
  <1>3. ServiceInv => SpentShape
    BY SpentAlways DEF ServiceInv, AccountInv, CallbackInv
  <1> QED
    BY <1>1, <1>2, <1>3, ServiceInvInit, ServiceInvStep, PTL
       DEF Spec, ImplementsReadService, Service!Spec

-----------------------------------------------------------------------------
(* After the stop.                                                          *)

(* The dispatchers that stop_future has joined have ended, and at the end   *)
(* all threads have.                                                        *)
WqStops == {"idle", "wq_flag", "wq_notify", "wq_join"}

JoinedInv ==
  /\ stopper.pc = "idle" => stopper.qpi = 0
  /\ \A q \in QPI : stopper.pc \notin WqStops \/ q < stopper.qpi => wq[q] = "exit"

EndedInv == TypeOK /\ FlowControl /\ ThreadInv /\ StopInv /\ JoinedInv

(* A thread that has ended stays so.                                        *)
LEMMA ExitStays ==
  ASSUME TypeOK, ThreadInv, [Next]_vars, NEW q \in QPI, wq[q] = "exit"
  PROVE  wq'[q] = "exit"
  <1>0. DOMAIN wq = QPI
    BY Typed
  <1>1. ASSUME wq' = wq
        PROVE  wq'[q] = "exit"
    BY <1>1
  <1>2. CASE LaunchFuture
    BY <1>2 DEF LaunchFuture, ThreadInv
  <1>3. ASSUME NEW t \in Client, NEW r \in Request, SubmitSelect(t, r) \/ SubmitStore(t) \/ WaitReturn(t)
        PROVE  wq'[q] = "exit"
    BY <1>1, <1>3 DEF SubmitSelect, SubmitStore, WaitReturn, queueVars
  <1>4. ASSUME NEW t \in Client, SubmitPush(t)
        PROVE  wq'[q] = "exit"
    BY <1>0, <1>4 DEF SubmitPush, Notified
  <1>5. ASSUME NEW d \in QPI, WqStep(d) \/ WqSpurious(d)
        PROVE  wq'[q] = "exit"
    <2>1. /\ wq[d] \in {"top", "pred", "park", "parked", "wake", "drain", "charge", "post", "pop"}
          /\ \E to : wq' = [wq EXCEPT ![d] = to]
      BY <1>5 DEF WqStep, WqSpurious, WqTop, WqPredicate, WqPark, WqWake, WqDrained, WqReserve,
                  WqCharge, WqPost, WqPostFails, WqPop, WqGoto
    <2>2. d # q
      BY <2>1
    <2> QED
      BY <1>0, <2>1, <2>2
  <1>6. CASE CqStep
    BY <1>1, <1>6 DEF CqStep, CqTop, CqEvent, CqArm, CqPoll, CqSkip, CqCall, CqRelease, queueVars
  <1>7. CASE StopBegin \/ StopWqFlag \/ StopWqJoin \/ StopCqFlag \/ StopCqArm \/ StopCqPost \/ StopCqJoin
    BY <1>1, <1>7 DEF StopBegin, StopWqFlag, StopWqJoin, StopCqFlag, StopCqArm, StopCqPost, StopCqJoin,
                      queueVars
  <1>8. CASE StopWqNotify
    BY <1>0, <1>8 DEF StopWqNotify, Notified
  <1>9. ASSUME NEW d \in QPI, HwStep(d)
        PROVE  wq'[q] = "exit"
    BY <1>1, <1>9 DEF HwStep, HwComplete, HwFail, HwFlush, HwReceive, queueVars
  <1>10. CASE UNCHANGED vars
    BY <1>1, <1>10 DEF vars, queueVars
  <1> QED
    BY <1>2, <1>3, <1>4, <1>5, <1>6, <1>7, <1>8, <1>9, <1>10, ConstantsAssumption
       DEF Next, ClientStep, StopStep

(* Where stop_future goes.                                                  *)
LEMMA StopperStep ==
  ASSUME TypeOK, [Next]_vars
  PROVE  \/ stopper' = stopper
         \/ stopper'.qpi = stopper.qpi /\ stopper'.pc \in WqStops \ {"idle"} /\ stopper.pc \in WqStops
         \/ stopper'.qpi = stopper.qpi /\ stopper'.pc \notin WqStops /\ stopper.pc \notin WqStops
         \/ StopWqJoin
  <1>1. stopper \in [pc : {"idle", "wq_flag", "wq_notify", "wq_join", "cq_flag",
                           "cq_arm", "cq_post", "cq_join", "done"}, qpi : QPI]
    BY DEF TypeOK, StopTypeOK
  <1>2. CASE StopBegin \/ StopWqFlag \/ StopWqNotify
    BY <1>1, <1>2 DEF StopBegin, StopWqFlag, StopWqNotify, StopGoto, WqStops
  <1>3. CASE StopCqFlag \/ StopCqArm \/ StopCqPost \/ StopCqJoin
    BY <1>1, <1>3 DEF StopCqFlag, StopCqArm, StopCqPost, StopCqJoin, StopGoto, WqStops
  <1>4. LaunchFuture \/ CqStep => stopper' = stopper
    BY DEF LaunchFuture, CqStep, CqTop, CqEvent, CqArm, CqPoll, CqSkip, CqCall, CqRelease, stopVars
  <1>5. ASSUME NEW t \in Client, NEW r \in Request, SubmitSelect(t, r) \/ ClientStep(t)
        PROVE  stopper' = stopper
    BY <1>5 DEF SubmitSelect, ClientStep, SubmitStore, SubmitPush, WaitReturn, stopVars
  <1>6. ASSUME NEW q \in QPI, WqStep(q) \/ WqSpurious(q)
        PROVE  stopper' = stopper
    BY <1>6 DEF WqStep, WqSpurious, WqTop, WqPredicate, WqPark, WqWake, WqDrained, WqReserve,
                WqCharge, WqPost, WqPostFails, WqPop, stopVars
  <1>7. ASSUME NEW q \in QPI, HwStep(q)
        PROVE  stopper' = stopper
    BY <1>7 DEF HwStep, HwComplete, HwFail, HwFlush, HwReceive, stopVars
  <1>8. UNCHANGED vars => stopper' = stopper
    BY DEF vars, stopVars
  <1> QED
    BY <1>2, <1>3, <1>4, <1>5, <1>6, <1>7, <1>8, ConstantsAssumption DEF Next, StopStep

LEMMA JoinedStep ==
  ASSUME TypeOK, ThreadInv, JoinedInv, [Next]_vars
  PROVE  JoinedInv'
  <1>1. \A q \in QPI : wq[q] = "exit" => wq'[q] = "exit"
    BY ExitStays
  <1>2. CASE stopper' = stopper
    BY <1>1, <1>2 DEF JoinedInv
  <1>3. CASE \/ stopper'.qpi = stopper.qpi /\ stopper'.pc \in WqStops \ {"idle"} /\ stopper.pc \in WqStops
             \/ stopper'.qpi = stopper.qpi /\ stopper'.pc \notin WqStops /\ stopper.pc \notin WqStops
    BY <1>1, <1>3 DEF JoinedInv, WqStops
  <1>4. CASE StopWqJoin
    <2>1. stopper.qpi \in QPI /\ QpListLen \in Nat
      BY ConstantsAssumption DEF TypeOK, StopTypeOK
    <2>2. PICK k \in QPI : k = stopper.qpi
      BY <2>1
    <2>3. wq[k] = "exit" /\ \A q \in QPI : q < k => wq[q] = "exit"
      BY <1>4, <2>2 DEF StopWqJoin, JoinedInv
    <2>4. \A q \in QPI : q < k + 1 => q < k \/ q = k
      BY DEF QPI
    <2>5. \A q \in QPI : q < k + 1 => wq'[q] = "exit"
      BY <1>1, <2>3, <2>4
    <2>6. CASE k + 1 < QpListLen
      <3>1. stopper'.pc = "wq_flag" /\ stopper'.qpi = k + 1
        BY <1>4, <2>2, <2>6 DEF StopWqJoin
      <3> QED
        BY <2>5, <3>1 DEF JoinedInv, WqStops
    <2>7. CASE ~(k + 1 < QpListLen)
      <3>1. stopper'.pc = "cq_flag"
        BY <1>4, <2>2, <2>7 DEF StopWqJoin
      <3>2. \A q \in QPI : q < k + 1
        BY <2>1, <2>7 DEF QPI
      <3> QED
        BY <2>5, <3>1, <3>2 DEF JoinedInv
    <2> QED
      BY <2>6, <2>7
  <1> QED
    BY <1>2, <1>3, <1>4, StopperStep

LEMMA EndedStep == EndedInv /\ [Next]_vars => EndedInv'
  BY InvStep, ThreadStep, StopInvStep, JoinedStep DEF EndedInv, Inv

LEMMA EndedInvInit == Init => EndedInv
  <1> SUFFICES ASSUME Init PROVE EndedInv
    OBVIOUS
  <1>1. TypeOK /\ FlowControl
    BY InvInit DEF Inv
  <1>2. /\ stopper.pc = "idle" /\ stopper.qpi = 0 /\ wc = <<>> /\ \A q \in QPI : wq[q] = "none"
    BY DEF Init
  <1>3. \A q \in QPI : ~(q < 0)
    BY ConstantsAssumption DEF QPI
  <1> QED
    BY <1>1, <1>2, <1>3 DEF EndedInv, ThreadInv, StopInv, JoinedInv, WqStops

(* What can still happen when all threads have ended.                       *)
LEMMA QuietAtTheEnd ==
  ASSUME EndedInv, stopper.pc = "done", [Next]_vars
  PROVE  UNCHANGED <<finished_, code, outstanding_rdma_reads_, wc, cqPc, wq>>
  <1>1. cqPc = "exit" /\ (\A q \in QPI : wq[q] = "exit") /\ TypeOK
    BY DEF EndedInv, StopInv, JoinedInv, WqStops
  <1>2. ASSUME NEW t \in Client, NEW r \in Request, SubmitSelect(t, r) \/ SubmitStore(t) \/ WaitReturn(t)
        PROVE  UNCHANGED <<finished_, code, outstanding_rdma_reads_, wc, cqPc, wq>>
    BY <1>2 DEF SubmitSelect, SubmitStore, WaitReturn, queueVars, cqVars
  <1>3. ASSUME NEW t \in Client, SubmitPush(t)
        PROVE  UNCHANGED <<finished_, code, outstanding_rdma_reads_, wc, cqPc, wq>>
    <2>1. client[t].qpi \in QPI
      BY <1>1, <1>3 DEF TypeOK, ClientTypeOK, SubmitPush
    <2>2. wq[client[t].qpi] = "exit"
      BY <1>1, <2>1
    <2> QED
      BY <1>3, <2>2 DEF SubmitPush, Notified, cqVars
  <1>4. ASSUME NEW q \in QPI, WqStep(q) \/ WqSpurious(q)
        PROVE  FALSE
    BY <1>1, <1>4 DEF WqStep, WqSpurious, WqTop, WqPredicate, WqPark, WqWake, WqDrained, WqReserve,
                      WqCharge, WqPost, WqPostFails, WqPop, WqGoto
  <1>5. ~LaunchFuture /\ ~CqStep /\ ~StopBegin /\ ~StopStep
    BY <1>1 DEF LaunchFuture, CqStep, CqTop, CqEvent, CqArm, CqPoll, CqSkip, CqCall, CqRelease,
                StopBegin, StopStep, StopWqFlag, StopWqNotify, StopWqJoin, StopCqFlag, StopCqArm,
                StopCqPost, StopCqJoin, StopGoto
  <1>6. ASSUME NEW q \in QPI, HwStep(q)
        PROVE  UNCHANGED <<finished_, code, outstanding_rdma_reads_, wc, cqPc, wq>>
    BY <1>6 DEF HwStep, HwComplete, HwFail, HwFlush, HwReceive, queueVars, cqVars
  <1>7. UNCHANGED vars => UNCHANGED <<finished_, code, outstanding_rdma_reads_, wc, cqPc, wq>>
    BY DEF vars, queueVars, cqVars
  <1> QED
    BY <1>2, <1>3, <1>4, <1>5, <1>6, <1>7, ConstantsAssumption DEF Next, ClientStep

(* Once stop_future has returned no callback runs, nothing is posted and no *)
(* counter changes, whatever callers and the device still do: every thread  *)
(* it started has been joined.                                              *)
THEOREM StopLeavesQuiet == Spec => StopQuiesces
  <1>1. EndedInv /\ [Next]_vars =>
          (stopper.pc = "done" => UNCHANGED <<finished_, code, outstanding_rdma_reads_, wc, cqPc, wq>>)
    BY QuietAtTheEnd
  <1> QED
    BY <1>1, EndedInvInit, EndedStep, PTL DEF Spec, StopQuiesces
=============================================================================
