-------------------------- MODULE RDMAContextProofs --------------------------
(***************************************************************************)
(* Theorems about RDMAContext, for every set of callers and requests, every *)
(* number of queue pairs, every depth of the send queue, and all faults.    *)
(***************************************************************************)
EXTENDS RDMAContext, SequenceTheorems, TLAPS

-----------------------------------------------------------------------------
(* The split of a batch: arithmetic.                                        *)

(* Integer division by a positive divisor never rounds up.                  *)
LEMMA DivFloor ==
  ASSUME NEW a \in Nat, NEW s \in Nat, s >= 1
  PROVE  (a \div s) \in Nat /\ s * (a \div s) <= a
  OBVIOUS

(* Multiplication by a natural number is monotonic.                         *)
LEMMA TimesMonotonic ==
  ASSUME NEW m \in Nat, NEW n \in Nat, m <= n, NEW s \in Nat
  PROVE  m * s \in Nat /\ m * s <= n * s
  OBVIOUS

(* Half of MAX_SEND_WR is a positive number below MAX_SEND_WR.              *)
LEMMA SplitStepType == SplitStep \in Nat /\ SplitStep >= 1 /\ SplitStep < MAX_SEND_WR
  BY ConstantsAssumption DEF SplitStep

(* Every piece of the split is a nonempty part of its batch, of at most     *)
(* SplitStep Assignments: submit never queues an empty or oversized chain.  *)
LEMMA PieceShape ==
  ASSUME NEW p \in Piece
  PROVE  /\ p[1] \in Request
         /\ FirstOf(p) \in Nat /\ FirstOf(p) >= 1
         /\ PieceSize(p) \in Nat /\ PieceSize(p) >= 1 /\ PieceSize(p) <= SplitStep
         /\ FirstOf(p) + PieceSize(p) - 1 <= Size[p[1]]
  PROOF
  <1>1. PICK r \in Request : p \in {r} \X (1 .. NumPieces(r))
    BY DEF Piece
  <1>2. p[1] = r /\ p[2] \in 1 .. NumPieces(r)
    BY <1>1
  <1>3. Size[r] \in Nat /\ Size[r] >= 1
    BY ConstantsAssumption
  <1> DEFINE total == Size[r] + SplitStep - 1
  <1>4. total \in Nat
    BY <1>3, SplitStepType
  <1>5. NumPieces(r) \in Nat /\ SplitStep * NumPieces(r) <= total
    BY <1>4, SplitStepType, DivFloor DEF NumPieces
  <1>6. p[2] \in Nat /\ p[2] >= 1 /\ p[2] <= NumPieces(r)
    BY <1>2, <1>5
  <1>7. (p[2] - 1) * SplitStep \in Nat
    BY <1>6, SplitStepType, TimesMonotonic, p[2] - 1 \in Nat
  <1>8. p[2] * SplitStep <= NumPieces(r) * SplitStep
    BY <1>5, <1>6, SplitStepType, TimesMonotonic
  <1>9. (p[2] - 1) * SplitStep = p[2] * SplitStep - SplitStep
    BY <1>6, SplitStepType
  <1>10. SplitStep * NumPieces(r) = NumPieces(r) * SplitStep
    BY <1>5, SplitStepType
  <1>11. p[2] * SplitStep \in Nat
    BY <1>6, SplitStepType, TimesMonotonic
  <1>12. (p[2] - 1) * SplitStep <= Size[r] - 1
    BY <1>3, <1>5, <1>8, <1>9, <1>10, <1>11, SplitStepType
  <1> HIDE DEF total
  <1>13. QED
    BY <1>2, <1>3, <1>7, <1>12, SplitStepType DEF FirstOf, PieceSize, Smaller

-----------------------------------------------------------------------------
(* The type invariant and flow control, together: a dispatcher may take the *)
(* head of its queue because FlowControl says that there is one.            *)
Inv == TypeOK /\ FlowControl

(* The pieces of a request are pieces.                                      *)
LEMMA PiecesType == ASSUME NEW r \in Request PROVE Pieces(r) \in Seq(Piece)
  <1>1. NumPieces(r) \in Nat
    BY ConstantsAssumption, SplitStepType, DivFloor, Size[r] + SplitStep - 1 \in Nat
       DEF NumPieces
  <1>2. \A i \in 1 .. NumPieces(r) : <<r, i>> \in Piece
    BY DEF Piece
  <1>3. QED
    BY <1>1, <1>2, IsASeq DEF Pieces

(* Round robin stays within the queue pairs, also from the initial -1.      *)
LEMMA NextQpiType == ASSUME NEW i \in QPI \union {-1} PROVE NextQpi(i) \in QPI
  BY ConstantsAssumption DEF NextQpi, QPI

(* The callers' variables.                                                  *)
LEMMA ClientTypeStep == Inv /\ [Next]_vars => ClientTypeOK'
  <1> SUFFICES ASSUME Inv, [Next]_vars PROVE ClientTypeOK'
    OBVIOUS
  <1> USE DEF Inv, TypeOK
  <1>1. ASSUME NEW t \in Client, NEW r \in Request, SubmitSelect(t, r)
        PROVE  ClientTypeOK'
    BY <1>1 DEF SubmitSelect, ClientTypeOK
  <1>2. ASSUME NEW t \in Client, SubmitStore(t)
        PROVE  ClientTypeOK'
    <2>1. NextQpi(client[t].qpi) \in QPI
      BY NextQpiType DEF ClientTypeOK
    <2>2. QED
      BY <1>2, <2>1 DEF SubmitStore, ClientTypeOK
  <1>3. ASSUME NEW t \in Client, SubmitPush(t)
        PROVE  ClientTypeOK'
    BY <1>3 DEF SubmitPush, ClientTypeOK, Idle
  <1>4. ASSUME NEW t \in Client, WaitReturn(t)
        PROVE  ClientTypeOK'
    BY <1>4 DEF WaitReturn, ClientTypeOK, Idle
  <1>5. ASSUME UNCHANGED clientVars
        PROVE  ClientTypeOK'
    BY <1>5 DEF clientVars, ClientTypeOK
  <1>6. ASSUME NEW q \in QPI, WqStep(q) \/ WqSpurious(q)
        PROVE  UNCHANGED clientVars
    BY <1>6 DEF WqStep, WqSpurious, WqTop, WqPredicate, WqPark, WqWake, WqDrained,
                WqReserve, WqCharge, WqPost, WqPostFails, WqPop
  <1>7. ASSUME LaunchFuture \/ CqTop \/ CqEvent \/ CqArm \/ CqPoll \/ CqSkip \/ CqRelease
        PROVE  UNCHANGED clientVars
    BY <1>7 DEF LaunchFuture, CqTop, CqEvent, CqArm, CqPoll, CqSkip, CqRelease
  <1>11. CASE CqCall
    <2>1. held' \subseteq held /\ UNCHANGED <<last_qp_selection_, client, unsent>>
      BY <1>11 DEF CqCall
    <2>2. QED
      BY <2>1 DEF ClientTypeOK
  <1>8. ASSUME StopBegin \/ StopStep
        PROVE  UNCHANGED clientVars
    BY <1>8 DEF StopBegin, StopStep, StopWqFlag, StopWqNotify, StopWqJoin,
                StopCqFlag, StopCqArm, StopCqPost, StopCqJoin
  <1>9. ASSUME NEW q \in QPI, HwStep(q)
        PROVE  UNCHANGED clientVars
    BY <1>9 DEF HwStep, HwComplete, HwFail, HwFlush, HwReceive
  <1>10. CASE UNCHANGED vars
    BY <1>5, <1>10 DEF vars
  <1>12. QED
    BY <1>1, <1>2, <1>3, <1>4, <1>5, <1>6, <1>7, <1>11, <1>8, <1>9, <1>10
       DEF Next, ClientStep, CqStep

(* What a piece's address holds: the records of a submit are new pieces.    *)
LEMMA RecordTypeStep == Inv /\ [Next]_vars => RecordTypeOK'
  <1> SUFFICES ASSUME Inv, [Next]_vars PROVE RecordTypeOK'
    OBVIOUS
  <1>0. ClientTypeOK /\ RecordTypeOK
    BY DEF Inv, TypeOK
  <1>1. ASSUME NEW t \in Client, SubmitPush(t)
        PROVE  RecordTypeOK'
    <2>1. PICK r \in Request : Allocate(r)
      BY <1>0, <1>1 DEF SubmitPush, ClientTypeOK
    <2>2. CASE record' = record
      BY <1>0, <2>2 DEF RecordTypeOK
    <2>3. ASSUME record' # record
          PROVE  RecordTypeOK'
      <3>1. PICK taken, heir :
              /\ "reuse" \in Faults
              /\ heir \in [taken -> {r} \X (1 .. NumPieces(r))]
              /\ record' = [p \in Piece |-> IF record[p] \in taken THEN heir[record[p]]
                                                                ELSE record[p]]
        BY <2>1, <2>3 DEF Allocate
      <3>2. {r} \X (1 .. NumPieces(r)) \subseteq Piece
        BY DEF Piece
      <3>3. ASSUME NEW p \in Piece
            PROVE  (IF record[p] \in taken THEN heir[record[p]] ELSE record[p]) \in Piece
        BY <1>0, <3>1, <3>2 DEF RecordTypeOK
      <3>4. QED
        BY <3>1, <3>3 DEF RecordTypeOK
    <2>4. QED
      BY <2>2, <2>3
  <1>2. ASSUME record' = record
        PROVE  RecordTypeOK'
    BY <1>0, <1>2 DEF RecordTypeOK
  <1>3. CASE \/ LaunchFuture \/ UNCHANGED vars
             \/ \E t \in Client, r \in Request : SubmitSelect(t, r)
             \/ \E t \in Client : SubmitStore(t) \/ WaitReturn(t)
    BY <1>2, <1>3 DEF LaunchFuture, vars, queueVars, SubmitSelect, SubmitStore, WaitReturn
  <1>4. CASE \E q \in QPI : WqStep(q) \/ WqSpurious(q)
    BY <1>2, <1>4 DEF WqStep, WqSpurious, WqTop, WqPredicate, WqPark, WqWake, WqDrained,
                      WqReserve, WqCharge, WqPost, WqPostFails, WqPop
  <1>5. CASE CqStep
    BY <1>2, <1>5 DEF CqStep, CqTop, CqEvent, CqArm, CqPoll, CqSkip, CqCall, CqRelease, queueVars
  <1>6. CASE StopBegin \/ StopStep
    BY <1>2, <1>6 DEF StopBegin, StopStep, StopWqFlag, StopWqNotify, StopWqJoin, StopCqFlag,
                      StopCqArm, StopCqPost, StopCqJoin, queueVars
  <1>7. CASE \E q \in QPI : HwStep(q)
    BY <1>2, <1>7 DEF HwStep, HwComplete, HwFail, HwFlush, HwReceive, queueVars
  <1>8. QED
    BY <1>1, <1>3, <1>4, <1>5, <1>6, <1>7 DEF Next, ClientStep

(* The dispatchers' variables.                                              *)
LEMMA QueueTypeStep == Inv /\ [Next]_vars => QueueTypeOK'
  <1> SUFFICES ASSUME Inv, [Next]_vars PROVE QueueTypeOK'
    OBVIOUS
  <1> USE DEF Inv, TypeOK
  <1>1. CASE LaunchFuture
    BY <1>1 DEF LaunchFuture, QueueTypeOK
  <1>2. ASSUME NEW t \in Client, SubmitPush(t)
        PROVE  QueueTypeOK'
    <2> DEFINE r == client[t].req
               q == client[t].qpi
    <2>1. r \in Request /\ q \in QPI
      BY <1>2 DEF SubmitPush, ClientTypeOK
    <2>2. Pieces(r) \in Seq(Piece)
      BY <2>1, PiecesType
    <2>3. /\ assign_queue_[q] \o Pieces(r) \in Seq(Piece)
          /\ pushed[q] \o Pieces(r) \in Seq(Piece)
      BY <2>1, <2>2, ConcatProperties DEF QueueTypeOK
    <2>4. Notified(q) \in [QPI -> {"none", "top", "pred", "park", "parked", "wake",
                                   "drain", "charge", "post", "pop", "exit"}]
      BY <2>1 DEF Notified, QueueTypeOK
    <2>5. /\ assign_queue_' = [assign_queue_ EXCEPT ![q] = assign_queue_[q] \o Pieces(r)]
          /\ pushed' = [pushed EXCEPT ![q] = pushed[q] \o Pieces(r)]
          /\ wq' = Notified(q)
          /\ outstanding_rdma_reads_' = outstanding_rdma_reads_
      BY <1>2, <2>1 DEF SubmitPush, QueueTypeOK
    <2> HIDE DEF r, q
    <2>6. QED
      BY <2>1, <2>3, <2>4, <2>5 DEF QueueTypeOK
  <1>3. ASSUME NEW q \in QPI,
               \/ WqTop(q) \/ WqPredicate(q) \/ WqPark(q) \/ WqWake(q) \/ WqDrained(q)
               \/ WqReserve(q) \/ WqPost(q) \/ WqPostFails(q) \/ WqSpurious(q)
        PROVE  QueueTypeOK'
    BY <1>3 DEF WqTop, WqPredicate, WqPark, WqWake, WqDrained, WqReserve, WqPost,
                WqPostFails, WqSpurious, WqGoto, QueueTypeOK
  <1>4. ASSUME NEW q \in QPI, WqCharge(q)
        PROVE  QueueTypeOK'
    <2>1. Head(assign_queue_[q]) \in Piece
      BY <1>4 DEF WqCharge, WqGoto, FlowControl, QueueTypeOK
    <2>2. PieceSize(Head(assign_queue_[q])) \in Nat
      BY <2>1, PieceShape
    <2>3. QED
      BY <1>4, <2>2 DEF WqCharge, WqGoto, QueueTypeOK
  <1>5. ASSUME NEW q \in QPI, WqPop(q)
        PROVE  QueueTypeOK'
    <2>1. Tail(assign_queue_[q]) \in Seq(Piece)
      BY <1>5 DEF WqPop, WqGoto, FlowControl, QueueTypeOK
    <2>2. QED
      BY <1>5, <2>1 DEF WqPop, WqGoto, QueueTypeOK
  <1>6. CASE CqRelease
    <2>1. Head(wc) \in Cqe /\ Head(wc).info # NULL
      BY <1>6 DEF CqRelease, CqTypeOK
    <2>2. Head(wc).info \in Piece /\ Head(wc).qpi \in QPI
      BY <2>1 DEF Cqe
    <2>3. PieceSize(record[Head(wc).info]) \in Nat
      BY <2>2, PieceShape DEF RecordTypeOK
    <2>4. QED
      BY <1>6, <2>2, <2>3 DEF CqRelease, QueueTypeOK
  <1>7. CASE StopWqNotify
    <2>1. stopper.qpi \in QPI
      BY DEF StopTypeOK
    <2>2. QED
      BY <1>7, <2>1 DEF StopWqNotify, Notified, QueueTypeOK
  <1>8. ASSUME UNCHANGED queueVars
        PROVE  QueueTypeOK'
    BY <1>8 DEF queueVars, QueueTypeOK
  <1>9. ASSUME NEW t \in Client, NEW r \in Request,
               SubmitSelect(t, r) \/ SubmitStore(t) \/ WaitReturn(t)
        PROVE  UNCHANGED queueVars
    BY <1>9 DEF SubmitSelect, SubmitStore, WaitReturn
  <1>10. ASSUME CqTop \/ CqEvent \/ CqArm \/ CqPoll \/ CqSkip \/ CqCall
         PROVE  UNCHANGED queueVars
    BY <1>10 DEF CqTop, CqEvent, CqArm, CqPoll, CqSkip, CqCall
  <1>11. ASSUME \/ StopBegin \/ StopWqFlag \/ StopWqJoin
                \/ StopCqFlag \/ StopCqArm \/ StopCqPost \/ StopCqJoin
         PROVE  UNCHANGED queueVars
    BY <1>11 DEF StopBegin, StopWqFlag, StopWqJoin, StopCqFlag, StopCqArm, StopCqPost,
                 StopCqJoin
  <1>12. ASSUME NEW q \in QPI, HwStep(q)
         PROVE  UNCHANGED queueVars
    BY <1>12 DEF HwStep, HwComplete, HwFail, HwFlush, HwReceive
  <1>13. CASE UNCHANGED vars
    BY <1>8, <1>13 DEF vars
  <1>14. CASE \E t \in Client : ClientStep(t)
    BY <1>2, <1>8, <1>9, <1>14, ConstantsAssumption DEF ClientStep
  <1>15. CASE \E q \in QPI : WqStep(q) \/ WqSpurious(q)
    BY <1>3, <1>4, <1>5, <1>15 DEF WqStep
  <1>16. CASE CqStep
    BY <1>6, <1>8, <1>10, <1>16 DEF CqStep
  <1>17. CASE StopBegin \/ StopStep
    BY <1>7, <1>8, <1>11, <1>17 DEF StopStep
  <1>18. QED
    BY <1>1, <1>8, <1>9, <1>12, <1>13, <1>14, <1>15, <1>16, <1>17 DEF Next

(* The completion thread's variables.                                       *)
LEMMA CqTypeStep == Inv /\ [Next]_vars => CqTypeOK'
  <1> SUFFICES ASSUME Inv, [Next]_vars PROVE CqTypeOK'
    OBVIOUS
  <1> USE DEF Inv, TypeOK
  <1>1. CASE LaunchFuture \/ CqTop \/ CqEvent \/ CqArm
    BY <1>1 DEF LaunchFuture, CqTop, CqEvent, CqArm, CqTypeOK
  <1>2. CASE CqPoll
    <2> DEFINE n == Smaller(POLL_COUNT, Len(cq))
    <2>1. n \in Nat /\ n <= Len(cq)
      BY ConstantsAssumption DEF Smaller, DeviceTypeOK
    <2>2. SubSeq(cq, 1, n) \in Seq(Cqe) /\ Len(SubSeq(cq, 1, n)) = n
      BY <2>1 DEF DeviceTypeOK
    <2>3. n # 0 => SubSeq(cq, 1, n) # <<>>
      BY <2>2
    <2>4. /\ wc' = SubSeq(cq, 1, n)
          /\ cqPc' = IF n = 0 THEN "top" ELSE IF stop_cq_future_ THEN "exit" ELSE "call"
          /\ UNCHANGED <<finished_, code>>
      BY <1>2 DEF CqPoll
    <2> HIDE DEF n
    <2>5. QED
      BY <2>2, <2>3, <2>4 DEF CqTypeOK
  <1>3. CASE CqSkip \/ CqRelease
    <2>1. wc # <<>> /\ wc' = Tail(wc) /\ cqPc' = AfterEntry /\ UNCHANGED <<finished_, code>>
      BY <1>3 DEF CqSkip, CqRelease, CqTypeOK
    <2>2. Tail(wc) \in Seq(Cqe) /\ Len(Tail(wc)) = Len(wc) - 1
      BY <2>1 DEF CqTypeOK
    <2>3. AfterEntry \in {"poll", "call"} /\ (AfterEntry = "call" => Tail(wc) # <<>>)
      <3>1. Len(wc) \in Nat /\ (Len(wc) # 1 => Len(Tail(wc)) # 0)
        BY <2>1, <2>2 DEF CqTypeOK
      <3>2. Len(Tail(wc)) # 0 => Tail(wc) # <<>>
        <4>1. Len(<<>>) = 0
          OBVIOUS
        <4>2. QED
          BY <4>1
      <3>3. QED
        BY <3>1, <3>2 DEF AfterEntry
    <2>4. QED
      BY <2>1, <2>2, <2>3 DEF CqTypeOK
  <1>4. CASE CqCall
    <2>1. Head(wc) \in Cqe /\ Head(wc).info # NULL
      BY <1>4 DEF CqCall, CqTypeOK
    <2>2. Head(wc).info \in Piece /\ Head(wc).status \in {"SUCCESS", "FAILED"}
      BY <2>1 DEF Cqe
    <2>3. PICK o \in Piece : o = record[Head(wc).info]
      BY <2>2 DEF RecordTypeOK
    <2>4. IF IsLast(o)
            THEN /\ finished_' = [finished_ EXCEPT ![o[1]] = finished_[o[1]] + 1]
                 /\ code' = [code EXCEPT ![o[1]] = Head(wc).status]
            ELSE UNCHANGED <<finished_, code>>
      BY <1>4, <2>3 DEF CqCall
    <2>5. /\ finished_' \in [Request -> Nat]
          /\ code' \in [Request -> {"none", "SUCCESS", "FAILED"}]
      <3>1. o[1] \in Request /\ finished_ \in [Request -> Nat]
            /\ code \in [Request -> {"none", "SUCCESS", "FAILED"}]
        BY PieceShape DEF CqTypeOK
      <3>2. CASE IsLast(o)
        BY <2>2, <2>4, <3>1, <3>2
      <3>3. CASE ~IsLast(o)
        BY <2>4, <3>1, <3>3
      <3>4. QED
        BY <3>2, <3>3
    <2>6. QED
      BY <1>4, <2>1, <2>5 DEF CqCall, CqTypeOK
  <1>5. ASSUME UNCHANGED cqVars
        PROVE  CqTypeOK'
    BY <1>5 DEF cqVars, CqTypeOK
  <1>6. ASSUME NEW t \in Client, NEW r \in Request, SubmitSelect(t, r) \/ ClientStep(t)
        PROVE  UNCHANGED cqVars
    BY <1>6 DEF SubmitSelect, ClientStep, SubmitStore, SubmitPush, WaitReturn
  <1>7. ASSUME NEW q \in QPI, WqStep(q) \/ WqSpurious(q)
        PROVE  UNCHANGED cqVars
    BY <1>7 DEF WqStep, WqSpurious, WqTop, WqPredicate, WqPark, WqWake, WqDrained,
                WqReserve, WqCharge, WqPost, WqPostFails, WqPop
  <1>8. ASSUME StopBegin \/ StopStep
        PROVE  UNCHANGED cqVars
    BY <1>8 DEF StopBegin, StopStep, StopWqFlag, StopWqNotify, StopWqJoin,
                StopCqFlag, StopCqArm, StopCqPost, StopCqJoin
  <1>9. ASSUME NEW q \in QPI, HwStep(q)
        PROVE  UNCHANGED cqVars
    BY <1>9 DEF HwStep, HwComplete, HwFail, HwFlush, HwReceive
  <1>10. CASE UNCHANGED vars
    BY <1>5, <1>10 DEF vars
  <1>11. CASE \E t \in Client : ClientStep(t)
    BY <1>5, <1>6, <1>11, ConstantsAssumption
  <1>12. QED
    BY <1>1, <1>2, <1>3, <1>4, <1>5, <1>6, <1>7, <1>8, <1>9, <1>10, <1>11
       DEF Next, CqStep

(* The stopping thread's variables.                                         *)
LEMMA StopTypeStep == Inv /\ [Next]_vars => StopTypeOK'
  <1> SUFFICES ASSUME Inv, [Next]_vars PROVE StopTypeOK'
    OBVIOUS
  <1> USE DEF Inv, TypeOK
  <1>1. CASE StopBegin \/ StopStep
    <2>1. stopper.qpi \in QPI /\ 0 \in QPI
      BY ConstantsAssumption DEF StopTypeOK, QPI
    <2>2. CASE StopWqJoin
      <3>1. stopper.qpi + 1 < QpListLen => stopper.qpi + 1 \in QPI
        BY <2>1, ConstantsAssumption DEF QPI
      <3>2. QED
        BY <2>1, <2>2, <3>1 DEF StopWqJoin, StopTypeOK
    <2>3. CASE StopBegin \/ StopWqFlag \/ StopWqNotify \/ StopCqFlag
               \/ StopCqArm \/ StopCqPost \/ StopCqJoin
      BY <2>1, <2>3 DEF StopBegin, StopWqFlag, StopWqNotify, StopCqFlag, StopCqArm,
                        StopCqPost, StopCqJoin, StopGoto, StopTypeOK
    <2>4. QED
      BY <1>1, <2>2, <2>3 DEF StopStep
  <1>2. ASSUME UNCHANGED stopVars
        PROVE  StopTypeOK'
    BY <1>2 DEF stopVars, StopTypeOK
  <1>3. ASSUME NEW t \in Client, NEW r \in Request, SubmitSelect(t, r) \/ ClientStep(t)
        PROVE  UNCHANGED stopVars
    BY <1>3 DEF SubmitSelect, ClientStep, SubmitStore, SubmitPush, WaitReturn
  <1>4. ASSUME NEW q \in QPI, WqStep(q) \/ WqSpurious(q)
        PROVE  UNCHANGED stopVars
    BY <1>4 DEF WqStep, WqSpurious, WqTop, WqPredicate, WqPark, WqWake, WqDrained,
                WqReserve, WqCharge, WqPost, WqPostFails, WqPop
  <1>5. ASSUME LaunchFuture \/ CqStep
        PROVE  UNCHANGED stopVars
    BY <1>5 DEF LaunchFuture, CqStep, CqTop, CqEvent, CqArm, CqPoll, CqSkip, CqCall, CqRelease
  <1>6. ASSUME NEW q \in QPI, HwStep(q)
        PROVE  UNCHANGED stopVars
    BY <1>6 DEF HwStep, HwComplete, HwFail, HwFlush, HwReceive
  <1>7. CASE UNCHANGED vars
    BY <1>2, <1>7 DEF vars
  <1>8. CASE \E t \in Client : ClientStep(t)
    BY <1>2, <1>3, <1>8, ConstantsAssumption
  <1>9. QED
    BY <1>1, <1>2, <1>3, <1>4, <1>5, <1>6, <1>7, <1>8 DEF Next

(* The wr_ids of a chain are a nonempty sequence.                           *)
LEMMA WrIdsType ==
  ASSUME NEW e \in Piece \union {NULL}
  PROVE  WrIds(e) \in Seq(Piece \union {NULL}) /\ Len(WrIds(e)) \in Nat /\ Len(WrIds(e)) >= 1
  <1>1. CASE IsRead(e)
    <2>1. e \in Piece /\ PieceSize(e) \in Nat /\ PieceSize(e) >= 1
      BY <1>1, PieceShape DEF IsRead
    <2>2. WrIds(e) = [i \in 1 .. PieceSize(e) |-> IF i = PieceSize(e) THEN e ELSE NULL]
      BY <1>1 DEF WrIds
    <2>3. QED
      BY <2>1, <2>2, IsASeq
  <1>2. CASE ~IsRead(e)
    BY <1>2 DEF WrIds
  <1>3. QED
    BY <1>1, <1>2

(* No chain moves more than its piece holds: the device stays within the    *)
(* batch.                                                                   *)
LEMMA MovesType ==
  ASSUME NEW e \in Piece \union {NULL}, NEW n \in Nat, n <= Len(WrIds(e))
  PROVE  Moves(e, n) \subseteq UNION {{r} \X (1 .. Size[r]) : r \in Request}
  <1>1. CASE e = NULL
    BY <1>1 DEF Moves
  <1>2. CASE e # NULL
    <2>1. e \in Piece
      BY <1>2
    <2>2. n <= PieceSize(e)
      <3>1. CASE IsRead(e)
        <4>1. Len(WrIds(e)) = PieceSize(e)
          BY <2>1, <3>1, PieceShape DEF WrIds
        <4>2. QED
          BY <4>1
      <3>2. CASE ~IsRead(e)
        BY <2>1, <3>2, PieceShape DEF WrIds
      <3>3. QED
        BY <3>1, <3>2
    <2>3. \A i \in FirstOf(e) .. (FirstOf(e) + n - 1) : i \in 1 .. Size[e[1]]
      <3>1. Size[e[1]] \in Nat
        BY <2>1, PieceShape, ConstantsAssumption
      <3>2. QED
        BY <2>1, <2>2, <3>1, PieceShape
    <2>4. QED
      BY <1>2, <2>1, <2>3, PieceShape DEF Moves, Items
  <1>3. QED
    BY <1>1, <1>2

(* Completions are completions, and Complete keeps the queue well-formed.   *)
LEMMA CompletionsType ==
  ASSUME NEW q \in QPI, NEW ids \in Seq(Piece \union {NULL}), NEW st \in {"SUCCESS", "FAILED"}
  PROVE  Completions(q, ids, st) \in Seq(Cqe)
  <1>1. \A i \in 1 .. Len(ids) : [info |-> ids[i], qpi |-> q, status |-> st] \in Cqe
    BY DEF Cqe
  <1>2. QED
    BY <1>1, IsASeq DEF Completions

LEMMA CompleteType ==
  ASSUME DeviceTypeOK, NEW entries \in Seq(Cqe), Complete(entries)
  PROVE  cq' \in Seq(Cqe) /\ armed' \in BOOLEAN /\ events' \in Nat
  <1>1. cq \o entries \in Seq(Cqe)
    BY ConcatProperties DEF DeviceTypeOK
  <1>2. cq' = cq \o entries /\ armed' = FALSE /\ events' \in {events, events + 1}
    BY DEF Complete
  <1>3. events' \in Nat
    BY <1>2 DEF DeviceTypeOK
  <1>4. QED
    BY <1>1, <1>2, <1>3

(* The device's variables.                                                  *)
LEMMA DeviceTypeStep == Inv /\ [Next]_vars => DeviceTypeOK'
  <1> SUFFICES ASSUME Inv, [Next]_vars PROVE DeviceTypeOK'
    OBVIOUS
  <1> USE DEF Inv, TypeOK
  <1>1. ASSUME NEW q \in QPI, WqPost(q)
        PROVE  DeviceTypeOK'
    <2>1. Head(assign_queue_[q]) \in Piece
      BY <1>1 DEF WqPost, WqGoto, FlowControl, QueueTypeOK
    <2>2. Append(sq[q], Head(assign_queue_[q])) \in Seq(Piece \union {NULL})
      BY <2>1 DEF DeviceTypeOK
    <2>3. sq' \in [QPI -> Seq(Piece \union {NULL})] /\ rq' \in [QPI -> Nat]
      <3>1. CASE Op[Head(assign_queue_[q])[1]] = "RECV"
        <4>1. rq' = [rq EXCEPT ![q] = rq[q] + 1] /\ sq' = sq
          BY <1>1, <3>1 DEF WqPost
        <4>2. rq \in [QPI -> Nat] /\ sq \in [QPI -> Seq(Piece \union {NULL})]
          BY DEF DeviceTypeOK
        <4>3. QED
          BY <4>1, <4>2
      <3>2. CASE Op[Head(assign_queue_[q])[1]] # "RECV"
        BY <1>1, <2>2, <3>2 DEF WqPost, DeviceTypeOK
      <3>3. QED
        BY <3>1, <3>2
    <2>4. QED
      BY <1>1, <2>3 DEF WqPost, cqeVars, DeviceTypeOK
  <1>2. CASE CqEvent \/ CqArm \/ StopCqArm
    <2>1. CASE CqEvent
      BY <2>1 DEF CqEvent, DeviceTypeOK
    <2>2. CASE CqArm \/ StopCqArm
      BY <2>2 DEF CqArm, StopCqArm, DeviceTypeOK
    <2>3. QED
      BY <1>2, <2>1, <2>2
  <1>3. CASE CqPoll
    <2> DEFINE n == Smaller(POLL_COUNT, Len(cq))
    <2>1. n \in Nat /\ n <= Len(cq)
      BY ConstantsAssumption DEF Smaller, DeviceTypeOK
    <2>2. SubSeq(cq, n + 1, Len(cq)) \in Seq(Cqe)
      BY <2>1 DEF DeviceTypeOK
    <2>3. QED
      BY <1>3, <2>2 DEF CqPoll, DeviceTypeOK
  <1>4. CASE StopCqPost
    <2>1. 0 \in QPI
      BY ConstantsAssumption DEF QPI
    <2>2. Append(sq[0], NULL) \in Seq(Piece \union {NULL})
      BY <2>1 DEF DeviceTypeOK
    <2>3. QED
      BY <1>4, <2>2 DEF StopCqPost, cqeVars, DeviceTypeOK
  <1>5. ASSUME NEW q \in QPI, HwComplete(q) \/ HwFail(q) \/ HwFlush(q)
        PROVE  DeviceTypeOK'
    <2> DEFINE e == Head(sq[q])
               ids == WrIds(e)
    <2>1. sq[q] \in Seq(Piece \union {NULL}) /\ sq[q] # <<>>
      BY <1>5 DEF HwComplete, HwFail, HwFlush, DeviceTypeOK
    <2>2. e \in Piece \union {NULL} /\ Tail(sq[q]) \in Seq(Piece \union {NULL})
      BY <2>1
    <2>3. ids \in Seq(Piece \union {NULL}) /\ Len(ids) \in Nat /\ Len(ids) >= 1
      BY <2>2, WrIdsType
    <2>4. sq' = [sq EXCEPT ![q] = Tail(sq[q])] /\ UNCHANGED rq
      BY <1>5 DEF HwComplete, HwFail, HwFlush, DeviceTypeOK
    <2>5. sq' \in [QPI -> Seq(Piece \union {NULL})] /\ rq' \in [QPI -> Nat]
      BY <2>2, <2>4 DEF DeviceTypeOK
    <2> HIDE DEF e, ids
    <2>6. \A k \in 1 .. Len(ids) : SubSeq(ids, k, Len(ids)) \in Seq(Piece \union {NULL})
      BY <2>3
    <2>7. \A k \in 1 .. Len(ids) : \A st \in {"SUCCESS", "FAILED"} :
            Completions(q, SubSeq(ids, k, Len(ids)), st) \in Seq(Cqe)
      BY <2>6, CompletionsType
    <2>8. CASE HwComplete(q)
      <3>1. /\ moved' = moved \union Moves(e, Len(ids))
            /\ Complete(Completions(q, SubSeq(ids, Len(ids), Len(ids)), "SUCCESS"))
            /\ UNCHANGED qpState
        BY <2>8 DEF HwComplete, e, ids
      <3>2. Moves(e, Len(ids)) \subseteq UNION {{r} \X (1 .. Size[r]) : r \in Request}
        BY <2>2, <2>3, MovesType DEF ids
      <3>3. cq' \in Seq(Cqe) /\ armed' \in BOOLEAN /\ events' \in Nat
        BY <2>3, <2>7, <3>1, CompleteType
      <3>4. QED
        BY <2>5, <3>1, <3>2, <3>3 DEF DeviceTypeOK
    <2>9. CASE HwFail(q)
      <3>1. qpState' \in [QPI -> {"RTS", "ERR"}]
        BY <2>9 DEF HwFail, DeviceTypeOK
      <3>2. PICK k \in 1 .. Len(ids) :
              /\ moved' = moved \union Moves(e, k - 1)
              /\ Complete(Completions(q, SubSeq(ids, k, Len(ids)), "FAILED"))
        BY <2>9 DEF HwFail, e, ids
      <3>3. Moves(e, k - 1) \subseteq UNION {{r} \X (1 .. Size[r]) : r \in Request}
        BY <2>2, <2>3, MovesType, k - 1 \in Nat, k - 1 <= Len(ids) DEF ids
      <3>4. cq' \in Seq(Cqe) /\ armed' \in BOOLEAN /\ events' \in Nat
        BY <2>7, <3>2, CompleteType
      <3>5. QED
        BY <2>5, <3>1, <3>2, <3>3, <3>4 DEF DeviceTypeOK
    <2>10. CASE HwFlush(q)
      <3>1. Complete(Completions(q, ids, "FAILED")) /\ UNCHANGED <<qpState, moved>>
        BY <2>10 DEF HwFlush, e, ids
      <3>2. Completions(q, ids, "FAILED") \in Seq(Cqe)
        BY <2>3, CompletionsType
      <3>3. cq' \in Seq(Cqe) /\ armed' \in BOOLEAN /\ events' \in Nat
        BY <3>1, <3>2, CompleteType
      <3>4. QED
        BY <2>5, <3>1, <3>3 DEF DeviceTypeOK
    <2>11. QED
      BY <1>5, <2>8, <2>9, <2>10
  <1>6. ASSUME NEW q \in QPI, HwReceive(q)
        PROVE  DeviceTypeOK'
    <2> DEFINE st == IF qpState[q] = "RTS" THEN "SUCCESS" ELSE "FAILED"
    <2>1. Completions(q, <<NULL>>, st) \in Seq(Cqe)
      <3>1. <<NULL>> \in Seq(Piece \union {NULL}) /\ st \in {"SUCCESS", "FAILED"}
        OBVIOUS
      <3>2. QED
        BY <3>1, CompletionsType
    <2>2. /\ Complete(Completions(q, <<NULL>>, st))
          /\ UNCHANGED <<sq, qpState, moved>>
          /\ rq' = [rq EXCEPT ![q] = rq[q] - 1]
          /\ rq[q] > 0
      BY <1>6 DEF HwReceive, DeviceTypeOK
    <2>3. cq' \in Seq(Cqe) /\ armed' \in BOOLEAN /\ events' \in Nat
      BY <2>1, <2>2, CompleteType
    <2>4. QED
      BY <2>2, <2>3 DEF DeviceTypeOK
  <1>7. ASSUME UNCHANGED hwVars
        PROVE  DeviceTypeOK'
    BY <1>7 DEF hwVars, DeviceTypeOK
  <1>8. ASSUME NEW t \in Client, NEW r \in Request, SubmitSelect(t, r) \/ ClientStep(t)
        PROVE  UNCHANGED hwVars
    BY <1>8 DEF SubmitSelect, ClientStep, SubmitStore, SubmitPush, WaitReturn
  <1>9. ASSUME NEW q \in QPI,
               \/ WqTop(q) \/ WqPredicate(q) \/ WqPark(q) \/ WqWake(q) \/ WqDrained(q)
               \/ WqReserve(q) \/ WqCharge(q) \/ WqPostFails(q) \/ WqPop(q) \/ WqSpurious(q)
        PROVE  UNCHANGED hwVars
    BY <1>9 DEF WqTop, WqPredicate, WqPark, WqWake, WqDrained, WqReserve, WqCharge,
                WqPostFails, WqPop, WqSpurious
  <1>10. ASSUME LaunchFuture \/ CqTop \/ CqSkip \/ CqCall \/ CqRelease
         PROVE  UNCHANGED hwVars
    BY <1>10 DEF LaunchFuture, CqTop, CqSkip, CqCall, CqRelease, hwVars
  <1>11. ASSUME \/ StopBegin \/ StopWqFlag \/ StopWqNotify \/ StopWqJoin
                \/ StopCqFlag \/ StopCqJoin
         PROVE  UNCHANGED hwVars
    BY <1>11 DEF StopBegin, StopWqFlag, StopWqNotify, StopWqJoin, StopCqFlag, StopCqJoin
  <1>12. CASE UNCHANGED vars
    BY <1>7, <1>12 DEF vars
  <1>13. CASE \E t \in Client : ClientStep(t)
    BY <1>7, <1>8, <1>13, ConstantsAssumption
  <1>14. CASE \E q \in QPI : WqStep(q) \/ WqSpurious(q)
    BY <1>1, <1>7, <1>9, <1>14 DEF WqStep
  <1>15. CASE CqStep
    BY <1>2, <1>3, <1>7, <1>10, <1>15 DEF CqStep
  <1>16. CASE StopBegin \/ StopStep
    BY <1>2, <1>4, <1>7, <1>11, <1>16 DEF StopStep
  <1>17. CASE \E q \in QPI : HwStep(q)
    BY <1>5, <1>6, <1>17 DEF HwStep
  <1>18. QED
    BY <1>7, <1>8, <1>10, <1>12, <1>13, <1>14, <1>15, <1>16, <1>17 DEF Next

-----------------------------------------------------------------------------
(* Flow control.                                                            *)

(* A dispatcher whose own state, queue and counter stay as they are, or     *)
(* whose counter only falls, keeps the room that it has seen.               *)
LEMMA FlowControlFrame ==
  ASSUME Inv,
         \A q \in QPI : /\ wq'[q] \in {"charge", "post", "pop"} => wq[q] = wq'[q]
                        /\ wq[q] \in {"charge", "post", "pop"} =>
                             assign_queue_'[q] # <<>>
                             /\ Head(assign_queue_'[q]) = Head(assign_queue_[q])
                        /\ outstanding_rdma_reads_'[q] \in Int
                        /\ outstanding_rdma_reads_'[q] <= outstanding_rdma_reads_[q]
  PROVE  FlowControl'
  <1>1. \A q \in QPI : outstanding_rdma_reads_'[q] < MAX_SEND_WR
    BY ConstantsAssumption DEF Inv, TypeOK, QueueTypeOK, FlowControl
  <1>2. \A q \in QPI : wq'[q] \in {"charge", "post", "pop"} => assign_queue_'[q] # <<>>
    BY DEF Inv, FlowControl
  <1>3. ASSUME NEW q \in QPI, wq'[q] = "charge"
        PROVE  Fits(q)'
    <2>1. wq[q] = "charge" /\ Fits(q) /\ assign_queue_[q] # <<>>
      BY <1>3 DEF Inv, FlowControl
    <2>2. Head(assign_queue_[q]) \in Piece
      BY <2>1 DEF Inv, TypeOK, QueueTypeOK
    <2>3. PieceSize(Head(assign_queue_[q])) \in Nat
      BY <2>2, PieceShape
    <2>4. Head(assign_queue_'[q]) = Head(assign_queue_[q])
      BY <2>1
    <2>5. outstanding_rdma_reads_[q] \in Int
      BY DEF Inv, TypeOK, QueueTypeOK
    <2>6. PieceSize(Head(assign_queue_'[q])) = PieceSize(Head(assign_queue_[q]))
      BY <2>4
    <2>7. PieceSize(Head(assign_queue_[q])) + outstanding_rdma_reads_[q] < MAX_SEND_WR
      BY <2>1 DEF Fits
    <2>8. PieceSize(Head(assign_queue_'[q])) + outstanding_rdma_reads_'[q] < MAX_SEND_WR
      BY <2>3, <2>5, <2>6, <2>7, ConstantsAssumption
    <2>9. QED
      BY <2>8 DEF Fits, PieceSize, FirstOf
  <1>4. QED
    BY <1>1, <1>2, <1>3 DEF FlowControl

LEMMA FlowControlStep == Inv /\ [Next]_vars => FlowControl'
  <1> SUFFICES ASSUME Inv, [Next]_vars PROVE FlowControl'
    OBVIOUS
  <1>0. /\ assign_queue_ \in [QPI -> Seq(Piece)]
        /\ outstanding_rdma_reads_ \in [QPI -> Int]
        /\ DOMAIN wq = QPI
        /\ stopper.qpi \in QPI
    BY DEF Inv, TypeOK, QueueTypeOK, StopTypeOK
  <1>1. ASSUME NEW t \in Client, SubmitPush(t)
        PROVE  FlowControl'
    <2> DEFINE r == client[t].req
               c == client[t].qpi
    <2>1. r \in Request /\ c \in QPI
      BY <1>1 DEF SubmitPush, Inv, TypeOK, ClientTypeOK
    <2>2. /\ assign_queue_' = [assign_queue_ EXCEPT ![c] = assign_queue_[c] \o Pieces(r)]
          /\ wq' = Notified(c)
          /\ ~Locked(c)
          /\ outstanding_rdma_reads_' = outstanding_rdma_reads_
      BY <1>1 DEF SubmitPush
    <2> HIDE DEF r, c
    <2>3. ASSUME NEW q \in QPI
          PROVE  wq'[q] \in {"charge", "post", "pop"} => wq[q] = wq'[q]
      BY <1>0, <2>2 DEF Notified
    <2>4. ASSUME NEW q \in QPI, wq[q] \in {"charge", "post", "pop"}
          PROVE  assign_queue_'[q] = assign_queue_[q] /\ assign_queue_[q] # <<>>
      <3>1. q # c
        BY <2>2, <2>4 DEF Locked
      <3>2. QED
        BY <1>0, <2>2, <2>4, <3>1 DEF Inv, FlowControl
    <2>5. QED
      BY <1>0, <2>2, <2>3, <2>4, FlowControlFrame
  <1>2. ASSUME NEW p \in QPI,
               \/ WqTop(p) \/ WqPredicate(p) \/ WqPark(p) \/ WqWake(p) \/ WqDrained(p)
               \/ WqSpurious(p)
        PROVE  FlowControl'
    <2>1. UNCHANGED <<assign_queue_, outstanding_rdma_reads_>>
      BY <1>2 DEF WqTop, WqPredicate, WqPark, WqWake, WqDrained, WqSpurious
    <2>2. \A q \in QPI : wq'[q] \in {"charge", "post", "pop"} => wq[q] = wq'[q]
      BY <1>0, <1>2 DEF WqTop, WqPredicate, WqPark, WqWake, WqDrained, WqSpurious, WqGoto
    <2>3. QED
      BY <1>0, <2>1, <2>2, FlowControlFrame DEF Inv, FlowControl
  <1>3. ASSUME NEW p \in QPI, WqReserve(p)
        PROVE  FlowControl'
    <2>1. /\ UNCHANGED <<assign_queue_, outstanding_rdma_reads_>>
          /\ assign_queue_[p] # <<>> /\ Fits(p)
          /\ wq' = [wq EXCEPT ![p] = "charge"]
      BY <1>3 DEF WqReserve, WqGoto, HasRoom
    <2>2. \A q \in QPI : Fits(q)' = Fits(q)
      BY <2>1 DEF Fits, PieceSize, FirstOf
    <2>3. QED
      BY <1>0, <2>1, <2>2 DEF Inv, FlowControl
  <1>4. ASSUME NEW p \in QPI, WqCharge(p)
        PROVE  FlowControl'
    <2> DEFINE n == PieceSize(Head(assign_queue_[p]))
    <2>1. /\ wq[p] = "charge" /\ wq' = [wq EXCEPT ![p] = "post"]
          /\ assign_queue_' = assign_queue_
          /\ outstanding_rdma_reads_' =
               [outstanding_rdma_reads_ EXCEPT ![p] = outstanding_rdma_reads_[p] + n]
      BY <1>4 DEF WqCharge, WqGoto
    <2>2. assign_queue_[p] # <<>> /\ n + outstanding_rdma_reads_[p] < MAX_SEND_WR
      BY <2>1 DEF Inv, FlowControl, Fits
    <2>3. n \in Nat
      BY <1>0, <2>2, PieceShape
    <2> HIDE DEF n
    <2>4. ASSUME NEW q \in QPI
          PROVE  outstanding_rdma_reads_'[q] < MAX_SEND_WR
      BY <1>0, <2>1, <2>2, <2>3, ConstantsAssumption DEF Inv, FlowControl
    <2>5. ASSUME NEW q \in QPI, wq'[q] \in {"charge", "post", "pop"}
          PROVE  assign_queue_'[q] # <<>>
      BY <1>0, <2>1, <2>2, <2>5 DEF Inv, FlowControl
    <2>6. ASSUME NEW q \in QPI, wq'[q] = "charge"
          PROVE  Fits(q)'
      <3>1. q # p
        BY <1>0, <2>1, <2>6
      <3>2. wq[q] = "charge" /\ outstanding_rdma_reads_'[q] = outstanding_rdma_reads_[q]
        BY <1>0, <2>1, <2>6, <3>1
      <3>3. Fits(q)
        BY <3>2 DEF Inv, FlowControl
      <3>4. QED
        BY <2>1, <3>2, <3>3 DEF Fits, PieceSize, FirstOf
    <2>7. QED
      BY <2>4, <2>5, <2>6 DEF FlowControl
  <1>5. ASSUME NEW p \in QPI, WqPost(p) \/ WqPostFails(p)
        PROVE  FlowControl'
    <2>1. /\ wq[p] = "post" /\ wq' = [wq EXCEPT ![p] = "pop"]
          /\ UNCHANGED <<assign_queue_, outstanding_rdma_reads_>>
      BY <1>5 DEF WqPost, WqPostFails, WqGoto
    <2>2. \A q \in QPI : Fits(q)' = Fits(q)
      BY <2>1 DEF Fits, PieceSize, FirstOf
    <2>3. QED
      BY <1>0, <2>1, <2>2 DEF Inv, FlowControl
  <1>6. ASSUME NEW p \in QPI, WqPop(p)
        PROVE  FlowControl'
    <2>1. /\ wq[p] = "pop" /\ wq' = [wq EXCEPT ![p] = "drain"]
          /\ assign_queue_' = [assign_queue_ EXCEPT ![p] = Tail(assign_queue_[p])]
          /\ outstanding_rdma_reads_' = outstanding_rdma_reads_
      BY <1>6 DEF WqPop, WqGoto
    <2>2. ASSUME NEW q \in QPI, wq'[q] \in {"charge", "post", "pop"}
          PROVE  wq[q] = wq'[q] /\ assign_queue_'[q] = assign_queue_[q]
      BY <1>0, <2>1, <2>2
    <2>3. ASSUME NEW q \in QPI, wq'[q] = "charge"
          PROVE  Fits(q)'
      <3>1. Fits(q)
        BY <2>2, <2>3 DEF Inv, FlowControl
      <3>2. QED
        BY <2>1, <2>2, <2>3, <3>1 DEF Fits, PieceSize, FirstOf
    <2>4. QED
      BY <1>0, <2>1, <2>2, <2>3 DEF Inv, FlowControl
  <1>7. CASE CqRelease
    <2> DEFINE c == Head(wc)
    <2>1. c.info \in Piece /\ c.qpi \in QPI
      <3>1. c \in Cqe /\ c.info # NULL
        BY <1>7 DEF CqRelease, Inv, TypeOK, CqTypeOK
      <3>2. QED
        BY <3>1 DEF Cqe
    <2>2. outstanding_rdma_reads_' =
            [outstanding_rdma_reads_ EXCEPT ![c.qpi] =
               outstanding_rdma_reads_[c.qpi] - PieceSize(record[c.info])]
      BY <1>7 DEF CqRelease
    <2>3. PieceSize(record[c.info]) \in Nat
      BY <2>1, PieceShape DEF Inv, TypeOK, RecordTypeOK
    <2>4. UNCHANGED <<assign_queue_, wq>>
      BY <1>7 DEF CqRelease
    <2> HIDE DEF c
    <2>5. \A q \in QPI : /\ outstanding_rdma_reads_'[q] \in Int
                         /\ outstanding_rdma_reads_'[q] <= outstanding_rdma_reads_[q]
      BY <1>0, <2>1, <2>2, <2>3
    <2>6. QED
      BY <2>4, <2>5, FlowControlFrame DEF Inv, FlowControl
  <1>8. CASE LaunchFuture
    <2>1. /\ UNCHANGED <<assign_queue_, outstanding_rdma_reads_>>
          /\ \A q \in QPI : wq'[q] = "top"
      BY <1>8 DEF LaunchFuture
    <2>2. QED
      BY <1>0, <2>1, FlowControlFrame DEF Inv, FlowControl
  <1>9. CASE StopWqNotify
    <2>1. UNCHANGED <<assign_queue_, outstanding_rdma_reads_>> /\ wq' = Notified(stopper.qpi)
      BY <1>9 DEF StopWqNotify
    <2>2. \A q \in QPI : wq'[q] \in {"charge", "post", "pop"} => wq[q] = wq'[q]
      BY <1>0, <2>1 DEF Notified
    <2>3. QED
      BY <1>0, <2>1, <2>2, FlowControlFrame DEF Inv, FlowControl
  <1>10. ASSUME UNCHANGED queueVars
         PROVE  FlowControl'
    BY <1>0, <1>10, FlowControlFrame DEF queueVars, Inv, FlowControl
  <1>11. ASSUME NEW t \in Client, NEW r \in Request,
                SubmitSelect(t, r) \/ SubmitStore(t) \/ WaitReturn(t)
         PROVE  UNCHANGED queueVars
    BY <1>11 DEF SubmitSelect, SubmitStore, WaitReturn
  <1>12. ASSUME CqTop \/ CqEvent \/ CqArm \/ CqPoll \/ CqSkip \/ CqCall
         PROVE  UNCHANGED queueVars
    BY <1>12 DEF CqTop, CqEvent, CqArm, CqPoll, CqSkip, CqCall
  <1>13. ASSUME \/ StopBegin \/ StopWqFlag \/ StopWqJoin
                \/ StopCqFlag \/ StopCqArm \/ StopCqPost \/ StopCqJoin
         PROVE  UNCHANGED queueVars
    BY <1>13 DEF StopBegin, StopWqFlag, StopWqJoin, StopCqFlag, StopCqArm, StopCqPost,
                 StopCqJoin
  <1>14. ASSUME NEW q \in QPI, HwStep(q)
         PROVE  UNCHANGED queueVars
    BY <1>14 DEF HwStep, HwComplete, HwFail, HwFlush, HwReceive
  <1>15. CASE UNCHANGED vars
    BY <1>10, <1>15 DEF vars
  <1>16. CASE \E t \in Client : ClientStep(t)
    BY <1>1, <1>10, <1>11, <1>16, ConstantsAssumption DEF ClientStep
  <1>17. CASE \E q \in QPI : WqStep(q) \/ WqSpurious(q)
    BY <1>2, <1>3, <1>4, <1>5, <1>6, <1>17 DEF WqStep
  <1>18. CASE CqStep
    BY <1>7, <1>10, <1>12, <1>18 DEF CqStep
  <1>19. CASE StopBegin \/ StopStep
    BY <1>9, <1>10, <1>13, <1>19 DEF StopStep
  <1>20. QED
    BY <1>8, <1>10, <1>11, <1>14, <1>15, <1>16, <1>17, <1>18, <1>19 DEF Next

-----------------------------------------------------------------------------
LEMMA InvInit == Init => Inv
  <1> SUFFICES ASSUME Init PROVE Inv
    OBVIOUS
  <1>1. 0 \in QPI
    BY ConstantsAssumption DEF QPI
  <1>2. ClientTypeOK
    BY DEF Init, ClientTypeOK, Idle
  <1>3. QueueTypeOK
    BY DEF Init, QueueTypeOK
  <1>4. CqTypeOK
    BY DEF Init, CqTypeOK
  <1>5. StopTypeOK
    BY <1>1 DEF Init, StopTypeOK
  <1>6. DeviceTypeOK
    BY DEF Init, DeviceTypeOK
  <1>7. FlowControl
    BY ConstantsAssumption DEF Init, FlowControl
  <1>8. RecordTypeOK
    BY DEF Init, RecordTypeOK
  <1>9. QED
    BY <1>2, <1>3, <1>4, <1>5, <1>6, <1>7, <1>8 DEF Inv, TypeOK

LEMMA InvStep == Inv /\ [Next]_vars => Inv'
  BY ClientTypeStep, QueueTypeStep, RecordTypeStep, CqTypeStep, StopTypeStep, DeviceTypeStep,
     FlowControlStep DEF Inv, TypeOK

LEMMA Invariance == Spec => []Inv
  BY InvInit, InvStep, PTL DEF Spec

(* Every variable keeps its type, whatever fails.                           *)
THEOREM TypeCorrect == Spec => []TypeOK
  <1>1. Inv => TypeOK
    BY DEF Inv
  <1>2. QED
    BY <1>1, Invariance, PTL

(* The counter of no queue pair ever reaches MAX_SEND_WR, although it is    *)
(* tested and charged in two steps while another thread changes it, under   *)
(* every fault: failing posts, failing work requests, records read after    *)
(* they were freed.                                                         *)
THEOREM FlowControlHolds == Spec => []FlowControl
  <1>1. Inv => FlowControl
    BY DEF Inv
  <1>2. QED
    BY <1>1, Invariance, PTL

-----------------------------------------------------------------------------
(* No lost event.                                                           *)

LEMMA NoLostEventStep == TypeOK /\ NoLostEvent /\ [Next]_vars => NoLostEvent'
  <1> SUFFICES ASSUME TypeOK, NoLostEvent, [Next]_vars PROVE NoLostEvent'
    OBVIOUS
  <1>0. events \in Nat /\ armed \in BOOLEAN /\ cq \in Seq(Cqe) /\ wc \in Seq(Cqe)
    BY DEF TypeOK, DeviceTypeOK, CqTypeOK
  <1>1. ASSUME UNCHANGED <<cqPc, cq, armed, events>>
        PROVE  NoLostEvent'
    BY <1>1 DEF NoLostEvent
  <1>2. CASE LaunchFuture \/ CqTop
    BY <1>2 DEF LaunchFuture, CqTop, hwVars, NoLostEvent
  <1>3. CASE CqEvent
    BY <1>3 DEF CqEvent, NoLostEvent
  <1>4. CASE CqArm
    BY <1>4 DEF CqArm, NoLostEvent
  <1>5. CASE CqPoll
    <2> DEFINE n == Smaller(POLL_COUNT, Len(cq))
    <2>1. CASE n = 0
      <3>1. Len(cq) = 0
        BY <1>0, <2>1, ConstantsAssumption DEF Smaller
      <3>2. cq = <<>>
        BY <1>0, <3>1
      <3>3. cq' = SubSeq(cq, 1, Len(cq)) /\ UNCHANGED <<armed, events>>
        BY <1>5, <2>1 DEF CqPoll
      <3>4. cq' = <<>>
        BY <1>0, <3>1, <3>2, <3>3
      <3>5. cqPc = "poll"
        BY <1>5 DEF CqPoll
      <3>6. QED
        BY <3>3, <3>4, <3>5 DEF NoLostEvent
    <2>2. CASE n # 0
      <3>1. cqPc = "poll" /\ cqPc' \in {"exit", "call"} /\ UNCHANGED <<armed, events>>
        BY <1>5, <2>2 DEF CqPoll
      <3>2. QED
        BY <3>1 DEF NoLostEvent
    <2>3. QED
      BY <2>1, <2>2
  <1>6. CASE CqSkip \/ CqRelease
    <2>1. /\ cqPc \in {"call", "release"} /\ cqPc' \in {"poll", "call"}
          /\ UNCHANGED <<cq, armed, events>>
      BY <1>6 DEF CqSkip, CqRelease, AfterEntry, hwVars
    <2>2. QED
      BY <2>1 DEF NoLostEvent
  <1>7. CASE CqCall
    BY <1>7 DEF CqCall, hwVars, NoLostEvent
  <1>8. CASE StopCqArm
    BY <1>8 DEF StopCqArm, cqVars, NoLostEvent
  <1>9. ASSUME NEW q \in QPI, HwStep(q)
        PROVE  NoLostEvent'
    <2>1. /\ events' = IF armed THEN events + 1 ELSE events
          /\ cqPc' = cqPc /\ armed' = FALSE
      BY <1>9 DEF HwStep, HwComplete, HwFail, HwFlush, HwReceive, Complete, cqVars
    <2>2. events' > 0 \/ cqPc = "arm"
      BY <1>0, <2>1 DEF NoLostEvent
    <2>3. QED
      BY <2>1, <2>2 DEF NoLostEvent
  <1>10. ASSUME NEW t \in Client, NEW r \in Request, SubmitSelect(t, r) \/ ClientStep(t)
         PROVE  UNCHANGED <<cqPc, cq, armed, events>>
    BY <1>10 DEF SubmitSelect, ClientStep, SubmitStore, SubmitPush, WaitReturn, cqVars, hwVars
  <1>11. ASSUME NEW q \in QPI, WqStep(q) \/ WqSpurious(q)
         PROVE  UNCHANGED <<cqPc, cq, armed, events>>
    BY <1>11 DEF WqStep, WqSpurious, WqTop, WqPredicate, WqPark, WqWake, WqDrained, WqReserve,
                 WqCharge, WqPost, WqPostFails, WqPop, cqVars, hwVars, cqeVars
  <1>12. ASSUME \/ StopBegin \/ StopWqFlag \/ StopWqNotify \/ StopWqJoin
                \/ StopCqFlag \/ StopCqPost \/ StopCqJoin
         PROVE  UNCHANGED <<cqPc, cq, armed, events>>
    BY <1>12 DEF StopBegin, StopWqFlag, StopWqNotify, StopWqJoin, StopCqFlag, StopCqPost,
                 StopCqJoin, cqVars, hwVars, cqeVars
  <1>13. CASE UNCHANGED vars
    BY <1>1, <1>13 DEF vars, cqVars, hwVars
  <1>14. CASE \E t \in Client : ClientStep(t)
    BY <1>1, <1>10, <1>14, ConstantsAssumption
  <1>15. CASE CqStep
    BY <1>2, <1>3, <1>4, <1>5, <1>6, <1>7, <1>15 DEF CqStep
  <1>16. CASE StopBegin \/ StopStep
    BY <1>1, <1>8, <1>12, <1>16 DEF StopStep
  <1>17. QED
    BY <1>1, <1>2, <1>9, <1>10, <1>11, <1>13, <1>14, <1>15, <1>16 DEF Next

(* The completion thread never blocks while completions wait, however its   *)
(* arming, polling and blocking interleave with the device and the stop.    *)
THEOREM NoEventIsLost == Spec => []NoLostEvent
  <1>1. Init => NoLostEvent
    BY DEF Init, NoLostEvent
  <1>2. QED
    BY <1>1, NoLostEventStep, TypeCorrect, PTL DEF Spec

-----------------------------------------------------------------------------
(* No lost piece: submit notifies, and does so while no dispatcher is       *)
(* between its test of the queue and its sleep.                             *)

Asleep(q) == wq[q] \in {"park", "parked"}

AwakeForWork == \A q \in QPI : Asleep(q) => assign_queue_[q] = <<>>

LEMMA AwakeForWorkStep == TypeOK /\ AwakeForWork /\ [Next]_vars => AwakeForWork'
  <1> SUFFICES ASSUME TypeOK, AwakeForWork, [Next]_vars PROVE AwakeForWork'
    OBVIOUS
  <1>0. /\ wq \in [QPI -> {"none", "top", "pred", "park", "parked", "wake", "drain",
                           "charge", "post", "pop", "exit"}]
        /\ assign_queue_ \in [QPI -> Seq(Piece)]
    BY DEF TypeOK, QueueTypeOK
  <1>1. ASSUME UNCHANGED <<wq, assign_queue_>>
        PROVE  AwakeForWork'
    BY <1>1 DEF AwakeForWork, Asleep
  <1>2. CASE LaunchFuture
    BY <1>0, <1>2 DEF LaunchFuture, AwakeForWork, Asleep
  <1>3. ASSUME NEW t \in Client, SubmitPush(t)
        PROVE  AwakeForWork'
    <2>1. PICK a : a = client[t].qpi
      OBVIOUS
    <2>2. ~Locked(a) /\ wq' = Notified(a) /\ client[t].pc = "push"
      BY <1>3, <2>1 DEF SubmitPush
    <2>3. a \in QPI
      BY <2>1, <2>2 DEF TypeOK, ClientTypeOK
    <2>4. wq'[a] \notin {"park", "parked"} /\ \A q \in QPI \ {a} : wq'[q] = wq[q]
      BY <1>0, <2>2, <2>3 DEF Locked, Notified
    <2>5. assign_queue_' = [assign_queue_ EXCEPT ![a] = @ \o Pieces(client[t].req)]
      BY <1>3, <2>1 DEF SubmitPush
    <2>6. \A q \in QPI \ {a} : assign_queue_'[q] = assign_queue_[q]
      BY <1>0, <2>5
    <2> QED
      BY <2>4, <2>6 DEF AwakeForWork, Asleep
  <1>4. ASSUME NEW q \in QPI, WqPredicate(q)
        PROVE  AwakeForWork'
    <2>1. /\ assign_queue_' = assign_queue_
          /\ wq'[q] \in {"exit", "drain"} \/ (wq'[q] = "park" /\ assign_queue_[q] = <<>>)
          /\ \A o \in QPI \ {q} : wq'[o] = wq[o]
      BY <1>0, <1>4 DEF WqPredicate, WqGoto
    <2> QED
      BY <2>1 DEF AwakeForWork, Asleep
  <1>5. ASSUME NEW q \in QPI, WqPark(q)
        PROVE  AwakeForWork'
    <2>1. assign_queue_' = assign_queue_ /\ wq[q] = "park" /\ \A o \in QPI \ {q} : wq'[o] = wq[o]
      BY <1>0, <1>5 DEF WqPark, WqGoto
    <2> QED
      BY <2>1 DEF AwakeForWork, Asleep
  <1>6. ASSUME NEW q \in QPI,
               \/ WqTop(q) \/ WqWake(q) \/ WqSpurious(q) \/ WqDrained(q) \/ WqReserve(q)
               \/ WqCharge(q) \/ WqPost(q) \/ WqPostFails(q) \/ WqPop(q)
        PROVE  AwakeForWork'
    <2>1. /\ ~ Asleep(q)'
          /\ \A o \in QPI \ {q} : assign_queue_'[o] = assign_queue_[o] /\ wq'[o] = wq[o]
      BY <1>0, <1>6 DEF WqTop, WqWake, WqSpurious, WqDrained, WqReserve, WqCharge, WqPost,
                        WqPostFails, WqPop, WqGoto, Asleep
    <2> QED
      BY <2>1 DEF AwakeForWork, Asleep
  <1>7. CASE StopWqNotify
    <2>1. assign_queue_' = assign_queue_ /\ \A q \in QPI : Asleep(q)' => Asleep(q)
      BY <1>0, <1>7 DEF StopWqNotify, Notified, Asleep
    <2> QED
      BY <2>1 DEF AwakeForWork
  <1>8. ASSUME NEW t \in Client, NEW r \in Request,
               SubmitSelect(t, r) \/ SubmitStore(t) \/ WaitReturn(t)
        PROVE  UNCHANGED <<wq, assign_queue_>>
    BY <1>8 DEF SubmitSelect, SubmitStore, WaitReturn, queueVars
  <1>9. ASSUME NEW q \in QPI, HwStep(q)
        PROVE  UNCHANGED <<wq, assign_queue_>>
    BY <1>9 DEF HwStep, HwComplete, HwFail, HwFlush, HwReceive, queueVars
  <1>10. ASSUME CqStep
         PROVE  UNCHANGED <<wq, assign_queue_>>
    BY <1>10 DEF CqStep, CqTop, CqEvent, CqArm, CqPoll, CqSkip, CqCall, CqRelease, queueVars
  <1>11. ASSUME \/ StopBegin \/ StopWqFlag \/ StopWqJoin
                \/ StopCqFlag \/ StopCqArm \/ StopCqPost \/ StopCqJoin
         PROVE  UNCHANGED <<wq, assign_queue_>>
    BY <1>11 DEF StopBegin, StopWqFlag, StopWqJoin, StopCqFlag, StopCqArm, StopCqPost,
                 StopCqJoin, queueVars
  <1>12. CASE UNCHANGED vars
    BY <1>1, <1>12 DEF vars, queueVars
  <1>13. CASE \E t \in Client : ClientStep(t)
    BY <1>1, <1>3, <1>8, <1>13, ConstantsAssumption DEF ClientStep
  <1>14. CASE \E q \in QPI : WqStep(q) \/ WqSpurious(q)
    BY <1>4, <1>5, <1>6, <1>14 DEF WqStep
  <1>15. CASE StopBegin \/ StopStep
    BY <1>1, <1>7, <1>11, <1>15 DEF StopStep
  <1> QED
    BY <1>1, <1>2, <1>8, <1>9, <1>10, <1>12, <1>13, <1>14, <1>15 DEF Next

(* No dispatcher sleeps, or is about to, while a piece waits in its queue,  *)
(* although it tests the queue in one step and falls asleep in another, and *)
(* submit, the stop and spurious wake-ups come in between.  (The flag of    *)
(* the stop, stored without the mutex, has no such guarantee.)              *)
THEOREM NoDispatcherSleepsOnWork == Spec => []AwakeForWork
  <1>1. Init => AwakeForWork
    BY DEF Init, AwakeForWork
  <1> QED
    BY <1>1, AwakeForWorkStep, TypeCorrect, PTL DEF Spec
=============================================================================
