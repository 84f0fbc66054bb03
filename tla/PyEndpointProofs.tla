--------------------------- MODULE PyEndpointProofs ---------------------------
(***************************************************************************)
(* The Python endpoint keeps the handles it must keep, its completion       *)
(* thread dies of nothing but the causes named, and its users see a         *)
(* ReadService; for every set of threads, batches and callbacks.            *)
(***************************************************************************)
EXTENDS PyEndpoint, TLAPS

-----------------------------------------------------------------------------
(* Types.                                                                   *)

(* The work request that wakes the completion thread comes with the stop,   *)
(* and the thread ends only then.                                           *)
WakeInv ==
  /\ stop \in {"no", "flag", "wq"} => /\ \A i \in 1 .. Len(sq) : sq[i] # NULL
                                      /\ \A i \in 1 .. Len(cq) : cq[i] # NULL
  /\ stop = "done" => cqPc = "exit" \/ Dead

PyInv == TypeOK /\ WakeInv

LEMMA PyInvInit == Init => PyInv
  BY PyAssumption DEF Init, PyInv, TypeOK, WakeInv, Resting, Dead

LEMMA HeadOfTail ==
  ASSUME NEW S, NEW s \in Seq(S), s # <<>>
  PROVE  /\ Head(s) \in S /\ Head(s) = s[1]
         /\ Tail(s) \in Seq(S)
         /\ Len(s) \in Nat /\ Len(s) >= 1 /\ Len(Tail(s)) = Len(s) - 1
         /\ \A i \in 1 .. Len(Tail(s)) : Tail(s)[i] = s[i + 1]
  OBVIOUS

LEMMA PyInvStep == PyInv /\ [Next]_vars => PyInv'
  <1> SUFFICES ASSUME PyInv, [Next]_vars PROVE PyInv'
    OBVIOUS
  <1> USE PyAssumption DEF PyInv
  <1>1. ASSUME NEW t \in Thread, NEW b \in Batch, Read(t, b) PROVE PyInv'
    BY <1>1 DEF Read, TypeOK, WakeInv, wqVars, cqVars, hwVars, Dead
  <1>2. ASSUME NEW t \in Thread, SubmitLock(t) PROVE PyInv'
    <2>1. /\ thread[t].pc = "submit" /\ mutex = NULL /\ mutex' = t
          /\ thread' = [thread EXCEPT ![t].pc = "copy"]
          /\ UNCHANGED <<unsent, assignment_with_callback, queue, wq, cqPc, current, called,
                         stop, sq, cq, moved>>
      BY <1>2 DEF SubmitLock, cqVars, hwVars
    <2>2. \A u \in Thread : thread[u].pc # "copy"
      BY <2>1 DEF TypeOK
    <2>3. /\ thread' \in [Thread -> [pc : {"idle", "submit", "copy", "return", "wait"},
                                    batch : Batch \union {NULL}]]
          /\ thread'[t].pc = "copy" /\ thread'[t].batch = thread[t].batch
          /\ \A u \in Thread : u # t => thread'[u] = thread[u]
      <3>1. thread \in [Thread -> [pc : {"idle", "submit", "copy", "return", "wait"},
                                  batch : Batch \union {NULL}]]
        BY DEF TypeOK
      <3> QED
        BY <2>1, <3>1
    <2>4. /\ \A u \in Thread : thread'[u].pc = "idle" <=> thread'[u].batch = NULL
          /\ \A u \in Thread : mutex' = u <=> thread'[u].pc = "copy"
      BY <2>1, <2>2, <2>3 DEF TypeOK
    <2>5. mutex' # "wq" /\ wq \notin {"park", "post", "pop"}
      BY <2>1 DEF TypeOK
    <2> QED
      BY <2>1, <2>3, <2>4, <2>5 DEF TypeOK, WakeInv, Dead
  <1>3. ASSUME NEW t \in Thread, SubmitPush(t) PROVE PyInv'
    <2>1. thread[t].batch \in Batch /\ mutex = t
      BY <1>3 DEF SubmitPush, TypeOK
    <2>2. queue' \in Seq(Batch) /\ mutex' = NULL
      BY <1>3, <2>1 DEF SubmitPush, TypeOK
    <2>3. \A u \in Thread : thread'[u].pc = "copy" <=> u # t /\ thread[u].pc = "copy"
      BY <1>3 DEF SubmitPush, TypeOK
    <2>4. \A u \in Thread : thread'[u].pc # "copy" /\ mutex' # u
      BY <2>1, <2>2, <2>3 DEF TypeOK
    <2>5. /\ wq' \notin {"park", "post", "pop"}
          /\ wq' \in {"top", "wait", "park", "parked", "post", "pop", "exit"}
      BY <1>3, <2>1 DEF SubmitPush, Notified, TypeOK
    <2>6. /\ thread' \in [Thread -> [pc : {"idle", "submit", "copy", "return", "wait"},
                                    batch : Batch \union {NULL}]]
          /\ \A u \in Thread : thread'[u].pc = "idle" <=> thread'[u].batch = NULL
      <3>1. thread' = [thread EXCEPT ![t].pc = "return"] /\ thread[t].pc = "copy"
        BY <1>3 DEF SubmitPush
      <3>2. thread \in [Thread -> [pc : {"idle", "submit", "copy", "return", "wait"},
                                  batch : Batch \union {NULL}]]
        BY DEF TypeOK
      <3>3. \A u \in Thread : thread[u].pc = "idle" <=> thread[u].batch = NULL
        BY DEF TypeOK
      <3>4. /\ thread' \in [Thread -> [pc : {"idle", "submit", "copy", "return", "wait"},
                                      batch : Batch \union {NULL}]]
            /\ thread'[t].pc = "return" /\ thread'[t].batch = thread[t].batch
            /\ \A u \in Thread : u # t => thread'[u] = thread[u]
        BY <3>1, <3>2
      <3> QED
        BY <2>1, <3>1, <3>3, <3>4, PyAssumption
    <2>7. UNCHANGED <<unsent, assignment_with_callback, stop, cqPc, current, called, sq, cq, moved>>
      BY <1>3 DEF SubmitPush, cqVars, hwVars
    <2> QED
      BY <2>2, <2>4, <2>5, <2>6, <2>7 DEF TypeOK, WakeInv, Dead
  <1>4. ASSUME NEW t \in Thread, SubmitReturn(t) PROVE PyInv'
    <2>1. thread[t].batch \in Batch
      BY <1>4 DEF SubmitReturn, TypeOK
    <2>2. assignment_with_callback' \in [Callback -> Batch \union {NULL}]
      BY <1>4, <2>1 DEF SubmitReturn, TypeOK, Python
    <2>3. /\ thread' \in [Thread -> [pc : {"idle", "submit", "copy", "return", "wait"},
                                    batch : Batch \union {NULL}]]
          /\ \A u \in Thread : thread'[u].pc = "idle" <=> thread'[u].batch = NULL
          /\ \A u \in Thread : thread'[u].pc = "copy" <=> thread[u].pc = "copy"
      <3>1. \/ thread' = [thread EXCEPT ![t] = Resting]
            \/ thread' = [thread EXCEPT ![t].pc = "wait"]
        BY <1>4 DEF SubmitReturn
      <3>2. thread[t].pc = "return"
        BY <1>4 DEF SubmitReturn
      <3>3. \A u \in Thread : thread[u].pc = "idle" <=> thread[u].batch = NULL
        BY DEF TypeOK
      <3>4. thread \in [Thread -> [pc : {"idle", "submit", "copy", "return", "wait"},
                                  batch : Batch \union {NULL}]]
        BY DEF TypeOK
      <3>5. CASE thread' = [thread EXCEPT ![t] = Resting]
        <4>1. /\ Resting.pc = "idle" /\ Resting.batch = NULL
              /\ Resting \in [pc : {"idle", "submit", "copy", "return", "wait"},
                             batch : Batch \union {NULL}]
          BY DEF Resting
        <4>2. thread'[t] = Resting /\ \A u \in Thread : u # t => thread'[u] = thread[u]
          BY <3>5, <3>4
        <4>3. thread' \in [Thread -> [pc : {"idle", "submit", "copy", "return", "wait"},
                                     batch : Batch \union {NULL}]]
          BY <3>5, <3>4, <4>1
        <4> QED
          BY <3>2, <3>3, <4>1, <4>2, <4>3
      <3>6. CASE thread' = [thread EXCEPT ![t].pc = "wait"]
        <4>1. /\ thread' \in [Thread -> [pc : {"idle", "submit", "copy", "return", "wait"},
                                        batch : Batch \union {NULL}]]
              /\ thread'[t].pc = "wait" /\ thread'[t].batch = thread[t].batch
              /\ \A u \in Thread : u # t => thread'[u] = thread[u]
          BY <3>6, <3>4
        <4> QED
          BY <3>2, <3>3, <4>1, <2>1
      <3> QED
        BY <3>1, <3>5, <3>6
    <2>4. UNCHANGED <<unsent, mutex, queue, wq, stop, cqPc, current, called, sq, cq, moved>>
      BY <1>4 DEF SubmitReturn, wqVars, cqVars, hwVars
    <2> QED
      BY <2>2, <2>3, <2>4 DEF TypeOK, WakeInv, Dead
  <1>5. ASSUME NEW t \in Thread, WaitReturn(t) PROVE PyInv'
    BY <1>5 DEF WaitReturn, TypeOK, WakeInv, wqVars, cqVars, hwVars, Dead, Resting
  <1>6. CASE WqTop
    BY <1>6 DEF WqTop, TypeOK, WakeInv, pyVars, cqVars, hwVars, Dead
  <1>7. CASE WqTake
    BY <1>7 DEF WqTake, TypeOK, WakeInv, pyVars, cqVars, hwVars, Dead
  <1>20. CASE WqBlock \/ WqPark
    BY <1>20 DEF WqBlock, WqPark, TypeOK, WakeInv, pyVars, cqVars, hwVars, Dead
  <1>8. CASE WqExit
    BY <1>8 DEF WqExit, TypeOK, WakeInv, pyVars, cqVars, hwVars, Dead
  <1>9. CASE WqPost
    <2>1. Head(queue) \in Batch
      BY <1>9, HeadOfTail DEF WqPost, TypeOK
    <2> QED
      BY <1>9, <2>1 DEF WqPost, TypeOK, WakeInv, pyVars, cqVars, Dead
  <1>10. CASE WqPop
    <2>1. Tail(queue) \in Seq(Batch)
      BY <1>10, HeadOfTail DEF WqPop, TypeOK
    <2>2. /\ wq = "pop" /\ mutex = "wq" /\ queue' = Tail(queue)
          /\ wq' \in {"top", "post"} /\ mutex' \in {"wq", NULL}
          /\ wq' = "post" => queue' # <<>> /\ mutex' = "wq"
          /\ wq' = "top" => mutex' = NULL
          /\ UNCHANGED <<pyVars, cqVars, stop, hwVars>>
      BY <1>10 DEF WqPop, TypeOK
    <2>3. \A u \in Thread : mutex' # u /\ thread[u].pc # "copy"
      BY <2>2 DEF TypeOK
    <2> QED
      BY <2>1, <2>2, <2>3 DEF TypeOK, WakeInv, pyVars, cqVars, hwVars, Dead
  <1>11. CASE CqPoll
    <2>1. /\ Head(cq) \in Batch \union {NULL} /\ Head(cq) = cq[1] /\ 1 \in 1 .. Len(cq)
          /\ Tail(cq) \in Seq(Batch \union {NULL})
          /\ \A i \in 1 .. Len(Tail(cq)) : i + 1 \in 1 .. Len(cq) /\ Tail(cq)[i] = cq[i + 1]
      BY <1>11, HeadOfTail DEF CqPoll, TypeOK
    <2> QED
      BY <1>11, <2>1 DEF CqPoll, TypeOK, WakeInv, pyVars, wqVars, Dead
  <1>12. CASE CqCall
    BY <1>12 DEF CqCall, TypeOK, WakeInv, pyVars, wqVars, hwVars, Dead
  <1>13. CASE CqRaise
    BY <1>13 DEF CqRaise, TypeOK, WakeInv, pyVars, wqVars, hwVars, Dead
  <1>14. CASE CqDelete
    <2>1. CallbackOf[current] \in Callback
      BY <1>14 DEF CqDelete, TypeOK, Python
    <2> QED
      BY <1>14, <2>1 DEF CqDelete, TypeOK, WakeInv, wqVars, hwVars, Dead
  <1>15. CASE StopBegin
    BY <1>15 DEF StopBegin, TypeOK, WakeInv, pyVars, wqVars, cqVars, hwVars, Dead
  <1>21. CASE StopNotify
    BY <1>21 DEF StopNotify, Notified, TypeOK, WakeInv, pyVars, cqVars, hwVars, Dead
  <1>16. CASE StopWqJoin
    BY <1>16 DEF StopWqJoin, TypeOK, WakeInv, pyVars, wqVars, cqVars, Dead
  <1>17. CASE StopCqJoin
    BY <1>17 DEF StopCqJoin, TypeOK, WakeInv, pyVars, wqVars, cqVars, hwVars, Dead
  <1>18. CASE HwComplete
    <2>1. /\ Head(sq) \in Batch \union {NULL} /\ Head(sq) = sq[1] /\ 1 \in 1 .. Len(sq)
          /\ Tail(sq) \in Seq(Batch \union {NULL})
          /\ \A i \in 1 .. Len(Tail(sq)) : i + 1 \in 1 .. Len(sq) /\ Tail(sq)[i] = sq[i + 1]
      BY <1>18, HeadOfTail DEF HwComplete, TypeOK
    <2>2. stop \in {"no", "flag", "wq"} => \A i \in 1 .. Len(Append(cq, Head(sq))) :
                                             Append(cq, Head(sq))[i] # NULL
      <3>1. ASSUME stop \in {"no", "flag", "wq"}
            PROVE  Head(sq) # NULL /\ \A i \in 1 .. Len(cq) : cq[i] # NULL
        BY <2>1, <3>1 DEF WakeInv
      <3>2. cq \in Seq(Batch \union {NULL})
        BY DEF TypeOK
      <3> QED
        BY <2>1, <3>1, <3>2
    <2>3. /\ cq' = Append(cq, Head(sq)) /\ sq' = Tail(sq) /\ moved' = moved \union ({Head(sq)} \ {NULL})
          /\ UNCHANGED <<pyVars, wqVars, cqVars, stop>>
      BY <1>18 DEF HwComplete
    <2>4. moved' \subseteq Batch /\ cq' \in Seq(Batch \union {NULL})
      BY <2>1, <2>3 DEF TypeOK
    <2>5. TypeOK'
      BY <2>1, <2>3, <2>4 DEF TypeOK, pyVars, wqVars, cqVars, Dead
    <2>6. WakeInv'
      <3>1. stop \in {"no", "flag", "wq"} => \A i \in 1 .. Len(Tail(sq)) : Tail(sq)[i] # NULL
        BY <2>1 DEF WakeInv
      <3> QED
        BY <2>2, <2>3, <3>1 DEF WakeInv, cqVars, Dead
    <2> QED
      BY <2>5, <2>6
  <1>19. CASE UNCHANGED vars
    BY <1>19 DEF vars, pyVars, wqVars, cqVars, hwVars, TypeOK, WakeInv, Dead
  <1> QED
    BY <1>1, <1>2, <1>3, <1>4, <1>5, <1>6, <1>7, <1>8, <1>9, <1>10, <1>11, <1>12, <1>13, <1>14,
       <1>15, <1>16, <1>17, <1>18, <1>19, <1>20, <1>21
       DEF Next, ThreadStep, WqStep, CqStep, StopStep

LEMMA PyInvariance == Spec => []PyInv
  BY PyInvInit, PyInvStep, PTL DEF Spec

(* Every variable has its type; the mutex is held exactly by the thread     *)
(* that copies a callback into the queue or by the dispatcher that drains   *)
(* it, and the dispatcher never drains an empty queue.                      *)
THEOREM PyTypes == Spec => []TypeOK
  <1>1. PyInv => TypeOK
    BY DEF PyInv
  <1> QED
    BY <1>1, PyInvariance, PTL

-----------------------------------------------------------------------------
(* Who has a batch.                                                         *)

(* A batch that was taken by a thread is not unsent and with no other       *)
(* thread; only read_batch waits; a handle is stored under its callback.    *)
OwnInv ==
  /\ \A t \in Thread : thread[t].batch # NULL => thread[t].batch \notin unsent
  /\ \A t, u \in Thread : thread[t].batch = thread[u].batch /\ thread[t].batch # NULL => t = u
  /\ \A t \in Thread : thread[t].pc = "wait" => ~Python(thread[t].batch)
  /\ \A c \in Callback : assignment_with_callback[c] # NULL
                           => CallbackOf[assignment_with_callback[c]] = c

(* What becomes of a thread.                                                *)
LEMMA ThreadShape ==
  PyInv => \A t \in Thread : /\ thread[t].batch \in Batch \union {NULL}
                             /\ thread[t].pc = "idle" <=> thread[t].batch = NULL
  BY DEF PyInv, TypeOK

LEMMA ThreadRead ==
  ASSUME PyInv, NEW t \in Thread, NEW b \in Batch, Read(t, b)
  PROVE  /\ thread[t].batch = NULL /\ b \in unsent /\ unsent' = unsent \ {b}
         /\ thread'[t].pc = "submit" /\ thread'[t].batch = b
         /\ \A u \in Thread : u # t => thread'[u] = thread[u]
  BY DEF PyInv, TypeOK, Read

LEMMA ThreadGoes ==
  ASSUME PyInv, NEW t \in Thread, SubmitLock(t) \/ SubmitPush(t)
  PROVE  /\ thread'[t].pc \in {"copy", "return"} /\ thread'[t].batch = thread[t].batch
         /\ SubmitLock(t) => thread[t].pc = "submit" /\ thread'[t].pc = "copy"
         /\ SubmitPush(t) => thread[t].pc = "copy" /\ thread'[t].pc = "return"
         /\ thread[t].batch \in Batch
         /\ \A u \in Thread : u # t => thread'[u] = thread[u]
         /\ unsent' = unsent
  BY DEF PyInv, TypeOK, SubmitLock, SubmitPush

LEMMA ThreadReturns ==
  ASSUME PyInv, NEW t \in Thread, SubmitReturn(t) \/ WaitReturn(t)
  PROVE  /\ \/ thread'[t].pc = "idle" /\ thread'[t].batch = NULL
            \/ /\ thread'[t].pc = "wait" /\ thread'[t].batch = thread[t].batch
               /\ ~Python(thread[t].batch)
         /\ thread[t].batch \in Batch
         /\ \A u \in Thread : u # t => thread'[u] = thread[u]
         /\ unsent' = unsent
  <1>1. thread[t].pc \in {"return", "wait"} /\ unsent' = unsent
    BY DEF SubmitReturn, WaitReturn
  <1>2. thread[t].batch \in Batch
    BY <1>1, ThreadShape
  <1>3. \/ thread' = [thread EXCEPT ![t] = Resting]
        \/ thread' = [thread EXCEPT ![t].pc = "wait"] /\ ~Python(thread[t].batch)
    BY DEF SubmitReturn, WaitReturn
  <1>4. thread \in [Thread -> [pc : {"idle", "submit", "copy", "return", "wait"},
                              batch : Batch \union {NULL}]]
    BY DEF PyInv, TypeOK
  <1> QED
    BY <1>1, <1>2, <1>3, <1>4 DEF Resting

LEMMA OwnInit == Init => OwnInv
  BY PyAssumption DEF Init, OwnInv, Resting

LEMMA ThreadSteps ==
  ASSUME [Next]_vars
  PROVE  \/ \E t \in Thread, b \in Batch : Read(t, b)
         \/ \E t \in Thread : SubmitLock(t)
         \/ \E t \in Thread : SubmitPush(t)
         \/ \E t \in Thread : SubmitReturn(t)
         \/ \E t \in Thread : WaitReturn(t)
         \/ WqStep \/ CqStep \/ StopBegin \/ StopStep \/ HwComplete \/ UNCHANGED vars
  BY DEF Next, ThreadStep

LEMMA OthersLeaveThreads ==
  ASSUME WqStep \/ CqStep \/ StopBegin \/ StopStep \/ HwComplete \/ UNCHANGED vars
  PROVE  UNCHANGED <<thread, unsent>>
  BY DEF WqStep, WqTop, WqTake, WqBlock, WqPark, WqExit, WqPost, WqPop, CqStep, CqPoll, CqCall, CqRaise, CqDelete,
         StopBegin, StopStep, StopNotify, StopWqJoin, StopCqJoin, HwComplete, vars, pyVars

(* The dictionary changes when a handle is stored and when it is deleted.   *)
LEMMA DictionarySteps ==
  ASSUME [Next]_vars
  PROVE  \/ \E t \in Thread : SubmitReturn(t) /\ Python(thread[t].batch)
         \/ CqDelete
         \/ UNCHANGED assignment_with_callback
  <1>1. ASSUME NEW t \in Thread, NEW b \in Batch, Read(t, b)
        PROVE  UNCHANGED assignment_with_callback
    BY <1>1 DEF Read
  <1>2. ASSUME NEW t \in Thread, SubmitLock(t) \/ SubmitPush(t) \/ WaitReturn(t)
        PROVE  UNCHANGED assignment_with_callback
    BY <1>2 DEF SubmitLock, SubmitPush, WaitReturn
  <1>3. ASSUME NEW t \in Thread, SubmitReturn(t), ~Python(thread[t].batch)
        PROVE  UNCHANGED assignment_with_callback
    BY <1>3 DEF SubmitReturn
  <1>4. WqStep \/ CqPoll \/ CqCall \/ CqRaise \/ StopBegin \/ StopStep \/ HwComplete
           \/ UNCHANGED vars => UNCHANGED assignment_with_callback
    BY DEF WqStep, WqTop, WqTake, WqBlock, WqPark, WqExit, WqPost, WqPop, CqPoll, CqCall, CqRaise,
           StopBegin, StopStep, StopNotify, StopWqJoin, StopCqJoin, HwComplete, vars, pyVars
  <1> QED
    BY <1>1, <1>2, <1>3, <1>4, ThreadSteps DEF CqStep

LEMMA OwnStep == PyInv /\ OwnInv /\ [Next]_vars => OwnInv'
  <1> SUFFICES ASSUME PyInv, OwnInv, [Next]_vars PROVE OwnInv'
    OBVIOUS
  <1> USE PyAssumption
  <1> DEFINE Taken == \A t \in Thread : thread[t].batch # NULL => thread[t].batch \notin unsent
             Once  == \A t, u \in Thread :
                        thread[t].batch = thread[u].batch /\ thread[t].batch # NULL => t = u
             Waits == \A t \in Thread : thread[t].pc = "wait" => ~Python(thread[t].batch)
             Keys  == \A c \in Callback : assignment_with_callback[c] # NULL
                                            => CallbackOf[assignment_with_callback[c]] = c
  <1>1. Taken /\ Once /\ Waits /\ Keys
    BY DEF OwnInv
  <1>2. Taken' /\ Once' /\ Waits'
    <2>1. ASSUME NEW t \in Thread, NEW b \in Batch, Read(t, b) PROVE Taken' /\ Once' /\ Waits'
      BY <1>1, <2>1, ThreadRead
    <2>2. ASSUME NEW t \in Thread, SubmitLock(t) \/ SubmitPush(t) PROVE Taken' /\ Once' /\ Waits'
      BY <1>1, <2>2, ThreadGoes
    <2>3. ASSUME NEW t \in Thread, SubmitReturn(t) \/ WaitReturn(t) PROVE Taken' /\ Once' /\ Waits'
      BY <1>1, <2>3, ThreadReturns
    <2>4. CASE UNCHANGED <<thread, unsent>>
      BY <1>1, <2>4
    <2> QED
      BY <2>1, <2>2, <2>3, <2>4, ThreadSteps, OthersLeaveThreads
  <1>3. Keys'
    <2>0. assignment_with_callback \in [Callback -> Batch \union {NULL}]
      BY DEF PyInv, TypeOK
    <2>1. ASSUME NEW t \in Thread, SubmitReturn(t), Python(thread[t].batch) PROVE Keys'
      <3>1. assignment_with_callback' =
              [assignment_with_callback EXCEPT ![CallbackOf[thread[t].batch]] = thread[t].batch]
        BY <2>1 DEF SubmitReturn
      <3> QED
        BY <1>1, <2>0, <3>1
    <2>2. CASE CqDelete
      BY <1>1, <2>0, <2>2 DEF CqDelete
    <2>3. CASE UNCHANGED assignment_with_callback
      BY <1>1, <2>3
    <2> QED
      BY <2>1, <2>2, <2>3, DictionarySteps
  <1> QED
    BY <1>2, <1>3 DEF OwnInv

-----------------------------------------------------------------------------
(* Where a batch is on its way from the queue to its callback.              *)

At(b, p, i) ==
  \/ p = "call"  /\ i = 1 /\ cqPc = "call" /\ current = b
  \/ p = "cq"    /\ i \in 1 .. Len(cq) /\ cq[i] = b
  \/ p = "sq"    /\ i \in 1 .. Len(sq) /\ sq[i] = b
  \/ p = "queue" /\ i \in 1 .. Len(queue) /\ queue[i] = b /\ (wq = "pop" => i > 1)

Place == {"call", "cq", "sq", "queue"}

Early(b) == b \in unsent \/ \E t \in Thread : thread[t].pc \in {"submit", "copy"} /\ thread[t].batch = b

(* A batch is in one place, and only between submit and its callback; what  *)
(* the device has completed has arrived; a thread that has called back has  *)
(* called back the batch in its hand.                                       *)
OnePlace ==
  \A b \in Batch, p, q \in Place, i, j \in Nat : At(b, p, i) /\ At(b, q, j) => p = q /\ i = j

Between ==
  \A b \in Batch : /\ Early(b) => called[b] = 0
                   /\ \A p \in Place, i \in Nat : At(b, p, i) => called[b] = 0 /\ ~Early(b)

Arrived ==
  \A b \in Batch, i \in Nat : At(b, "call", i) \/ At(b, "cq", i) => b \in moved

CalledInv == cqPc = "del" \/ Dead => called[current] > 0

WayInv == OnePlace /\ Between /\ Arrived /\ CalledInv

LEMMA WayInit == Init => WayInv
  BY PyAssumption DEF Init, WayInv, OnePlace, Between, Arrived, CalledInv, At, Early, Resting, Dead

(* A batch stops being early when it is pushed, and never becomes it again. *)
LEMMA EarlyStep ==
  ASSUME PyInv, OwnInv, [Next]_vars, NEW b \in Batch, Early(b)'
  PROVE  /\ Early(b)
         /\ \A t \in Thread : SubmitPush(t) => thread[t].batch # b
  <1>1. ASSUME NEW t \in Thread, NEW a \in Batch, Read(t, a) PROVE Early(b)
    BY <1>1, ThreadRead DEF Early
  <1>2. ASSUME NEW t \in Thread, SubmitLock(t) PROVE Early(b)
    BY <1>2, ThreadGoes DEF Early
  <1>3. ASSUME NEW t \in Thread, SubmitPush(t) PROVE Early(b) /\ thread[t].batch # b
    BY <1>3, ThreadGoes, PyAssumption DEF Early, OwnInv
  <1>4. ASSUME NEW t \in Thread, SubmitReturn(t) \/ WaitReturn(t) PROVE Early(b)
    BY <1>4, ThreadReturns DEF Early
  <1>5. UNCHANGED <<thread, unsent>> => Early(b)
    BY DEF Early
  <1>6. WqStep \/ CqStep \/ StopBegin \/ StopStep \/ HwComplete \/ UNCHANGED vars => Early(b)
    BY <1>5, OthersLeaveThreads
  <1>7. Early(b)
    BY <1>1, <1>2, <1>3, <1>4, <1>6, ThreadSteps
  <1> QED
    BY <1>3, <1>7

(* Only these steps move batches along, and only CqCall and CqPoll what the *)
(* completion thread has in hand.                                           *)
LEMMA WaySteps ==
  ASSUME PyInv, [Next]_vars
  PROVE  \/ \E t \in Thread : SubmitPush(t)
         \/ WqPost \/ WqPop \/ CqPoll \/ CqCall \/ StopWqJoin \/ HwComplete
         \/ CqRaise \/ CqDelete
         \/ /\ UNCHANGED <<queue, sq, cq, moved, called, cqPc, current>>
            /\ wq' = "pop" <=> wq = "pop"
  <1>1. ASSUME NEW t \in Thread,
               (\E b \in Batch : Read(t, b)) \/ SubmitLock(t) \/ SubmitReturn(t) \/ WaitReturn(t)
        PROVE  UNCHANGED <<queue, sq, cq, moved, called, cqPc, current, wq>>
    BY <1>1 DEF Read, SubmitLock, SubmitReturn, WaitReturn, wqVars, cqVars, hwVars
  <1>2. WqTop \/ WqTake \/ WqBlock \/ WqPark \/ WqExit => /\ UNCHANGED <<queue, sq, cq, moved, called, cqPc, current>>
                                     /\ wq' # "pop" /\ wq # "pop"
    BY DEF WqTop, WqTake, WqBlock, WqPark, WqExit, cqVars, hwVars
  <1>4. StopNotify => /\ UNCHANGED <<queue, sq, cq, moved, called, cqPc, current>>
                      /\ wq' = "pop" <=> wq = "pop"
    BY DEF StopNotify, Notified, cqVars, hwVars
  <1>3. StopBegin \/ StopCqJoin \/ UNCHANGED vars
          => UNCHANGED <<queue, sq, cq, moved, called, cqPc, current, wq>>
    BY DEF StopBegin, StopCqJoin, vars, wqVars, cqVars, hwVars
  <1> QED
    BY <1>1, <1>2, <1>3, <1>4, ThreadSteps DEF WqStep, CqStep, StopStep

(* A batch that is pushed goes from no place to the end of the queue.       *)
LEMMA PushWay ==
  ASSUME PyInv, OwnInv, WayInv, NEW t \in Thread, SubmitPush(t)
  PROVE  OnePlace' /\ Between' /\ Arrived' /\ CalledInv'
  <1> DEFINE x == thread[t].batch
  <1>1. /\ queue \in Seq(Batch) /\ queue' = Append(queue, x) /\ x \in Batch
        /\ wq # "pop" /\ wq' # "pop"
        /\ UNCHANGED <<sq, cq, moved, called, cqPc, current>>
    BY PyAssumption DEF PyInv, TypeOK, SubmitPush, Notified, cqVars, hwVars
  <1>2. Early(x)
    BY DEF Early, SubmitPush
  <1>3. \A p \in Place, i \in Nat : ~At(x, p, i)
    BY <1>1, <1>2 DEF WayInv, Between
  <1>4. \A b \in Batch, p \in Place, i \in Nat :
          At(b, p, i)' => At(b, p, i) \/ (b = x /\ p = "queue" /\ i = Len(queue) + 1)
    BY <1>1 DEF At, Place
  <1>5. OnePlace'
    BY <1>3, <1>4 DEF WayInv, OnePlace
  <1>6. \A b \in Batch : Early(b)' => Early(b) /\ b # x
    BY EarlyStep DEF Next, ThreadStep
  <1>7. called[x] = 0
    BY <1>1, <1>2 DEF WayInv, Between
  <1>8. Between'
    BY <1>1, <1>4, <1>6, <1>7 DEF WayInv, Between
  <1>9. Arrived'
    BY <1>1 DEF WayInv, Arrived, At
  <1>10. CalledInv'
    BY <1>1 DEF WayInv, CalledInv, Dead
  <1> QED
    BY <1>5, <1>8, <1>9, <1>10

(* The other steps bring no batch on its way.                               *)
LEMMA MovesBetween ==
  ASSUME PyInv, OwnInv, WayInv, [Next]_vars, UNCHANGED called,
         \A b \in Batch, p \in Place, i \in Nat :
           At(b, p, i)' => \E q \in Place, j \in Nat : At(b, q, j)
  PROVE  Between'
  <1> SUFFICES ASSUME NEW b \in Batch
               PROVE  /\ Early(b)' => called'[b] = 0
                      /\ \A p \in Place, i \in Nat :
                           At(b, p, i)' => called'[b] = 0 /\ ~Early(b)'
    BY DEF Between
  <1>1. Early(b)' => Early(b)
    BY EarlyStep
  <1> QED
    BY <1>1 DEF WayInv, Between

(* The head of the queue is posted.                                         *)
LEMMA PostWay ==
  ASSUME PyInv, OwnInv, WayInv, [Next]_vars, WqPost
  PROVE  OnePlace' /\ Between' /\ Arrived' /\ CalledInv'
  <1>1. /\ queue \in Seq(Batch) /\ queue # <<>> /\ sq \in Seq(Batch \union {NULL})
        /\ queue' = queue /\ sq' = Append(sq, Head(queue)) /\ wq' = "pop" /\ wq = "post"
        /\ UNCHANGED <<cq, moved, called, cqPc, current>>
    BY DEF PyInv, TypeOK, WqPost, cqVars
  <1>2. /\ Len(queue) \in Nat /\ Len(queue) >= 1 /\ Head(queue) = queue[1]
    BY <1>1, HeadOfTail
  <1>3. \A b \in Batch, p \in Place, i \in Nat :
          At(b, p, i)' => \/ At(b, p, i) /\ ~(p = "queue" /\ i = 1) /\ ~(p = "sq" /\ i = Len(sq) + 1)
                          \/ p = "sq" /\ i = Len(sq) + 1 /\ At(b, "queue", 1)
    <2>1. \A b \in Batch, i \in Nat : At(b, "sq", i)'
             => \/ At(b, "sq", i) /\ i # Len(sq) + 1
                \/ i = Len(sq) + 1 /\ At(b, "queue", 1)
      BY <1>1, <1>2 DEF At
    <2>2. \A b \in Batch, i \in Nat : At(b, "queue", i)' => At(b, "queue", i) /\ i # 1
      BY <1>1 DEF At
    <2>3. \A b \in Batch, i \in Nat : /\ At(b, "call", i)' => At(b, "call", i)
                                      /\ At(b, "cq", i)' => At(b, "cq", i)
      BY <1>1 DEF At
    <2> QED
      BY <2>1, <2>2, <2>3 DEF Place
  <1>4. OnePlace'
    <2>1. "queue" \in Place /\ 1 \in Nat
      BY DEF Place
    <2> QED
      BY <1>3, <2>1 DEF WayInv, OnePlace
  <1>5. Between'
    <2>1. "queue" \in Place /\ 1 \in Nat
      BY DEF Place
    <2> QED
      BY <1>1, <1>3, <2>1, MovesBetween
  <1>6. Arrived'
    BY <1>1 DEF WayInv, Arrived, At
  <1>7. CalledInv'
    BY <1>1 DEF WayInv, CalledInv, Dead
  <1> QED
    BY <1>4, <1>5, <1>6, <1>7

(* It leaves the queue, and the others move up.                             *)
LEMMA PopWay ==
  ASSUME PyInv, OwnInv, WayInv, [Next]_vars, WqPop
  PROVE  OnePlace' /\ Between' /\ Arrived' /\ CalledInv'
  <1>1. /\ queue \in Seq(Batch) /\ queue # <<>>
        /\ queue' = Tail(queue) /\ wq' # "pop" /\ wq = "pop"
        /\ UNCHANGED <<sq, cq, moved, called, cqPc, current>>
    BY DEF PyInv, TypeOK, WqPop, cqVars, hwVars
  <1>2. /\ Len(queue) \in Nat /\ Len(queue) >= 1 /\ Len(queue') = Len(queue) - 1
        /\ \A i \in 1 .. Len(queue') : queue'[i] = queue[i + 1]
    BY <1>1, HeadOfTail
  <1>3. \A b \in Batch, i \in Nat : /\ At(b, "queue", i)' => At(b, "queue", i + 1)
                                    /\ At(b, "sq", i)' => At(b, "sq", i)
                                    /\ At(b, "call", i)' => At(b, "call", i)
                                    /\ At(b, "cq", i)' => At(b, "cq", i)
    BY <1>1, <1>2 DEF At
  <1>4. \A b \in Batch, p \in Place, i \in Nat :
          At(b, p, i)' => \/ p # "queue" /\ At(b, p, i)
                          \/ p = "queue" /\ At(b, p, i + 1)
    BY <1>3 DEF Place
  <1>5. OnePlace'
    BY <1>4 DEF WayInv, OnePlace
  <1>6. Between'
    <2>1. \A b \in Batch, p \in Place, i \in Nat :
            At(b, p, i)' => \E q \in Place, j \in Nat : At(b, q, j)
      BY <1>4
    <2> QED
      BY <1>1, <2>1, MovesBetween
  <1>7. Arrived'
    BY <1>1 DEF WayInv, Arrived, At
  <1>8. CalledInv'
    BY <1>1 DEF WayInv, CalledInv, Dead
  <1> QED
    BY <1>5, <1>6, <1>7, <1>8

(* The completion thread takes the next completion.                         *)
LEMMA PollWay ==
  ASSUME PyInv, OwnInv, WayInv, [Next]_vars, CqPoll
  PROVE  OnePlace' /\ Between' /\ Arrived' /\ CalledInv'
  <1>1. /\ cq \in Seq(Batch \union {NULL}) /\ cq # <<>>
        /\ cq' = Tail(cq) /\ current' = Head(cq) /\ cqPc = "poll" /\ cqPc' \in {"exit", "call"}
        /\ UNCHANGED <<queue, wq, sq, moved, called>>
    BY DEF PyInv, TypeOK, CqPoll, wqVars
  <1>2. /\ Len(cq) \in Nat /\ Len(cq) >= 1 /\ Len(cq') = Len(cq) - 1
        /\ \A i \in 1 .. Len(cq') : cq'[i] = cq[i + 1]
        /\ current' = cq[1]
    BY <1>1, HeadOfTail
  <1>3. \A b \in Batch, i \in Nat : /\ At(b, "cq", i)' => i >= 1 /\ At(b, "cq", i + 1)
                                    /\ At(b, "call", i)' => i = 1 /\ At(b, "cq", 1)
                                    /\ At(b, "sq", i)' => At(b, "sq", i)
                                    /\ At(b, "queue", i)' => At(b, "queue", i)
    BY <1>1, <1>2 DEF At
  <1>4. \A b \in Batch, p \in Place, i \in Nat :
          At(b, p, i)' => \/ p = "cq" /\ i >= 1 /\ At(b, "cq", i + 1)
                          \/ p = "call" /\ i = 1 /\ At(b, "cq", 1)
                          \/ p \notin {"cq", "call"} /\ At(b, p, i)
    BY <1>3 DEF Place
  <1>5. "cq" \in Place /\ 1 \in Nat /\ \A i \in Nat : i + 1 \in Nat
    BY DEF Place
  <1>6. OnePlace'
    BY <1>4, <1>5 DEF WayInv, OnePlace
  <1>7. Between'
    <2>1. \A b \in Batch, p \in Place, i \in Nat :
            At(b, p, i)' => \E q \in Place, j \in Nat : At(b, q, j)
      BY <1>4, <1>5
    <2> QED
      BY <1>1, <2>1, MovesBetween
  <1>8. Arrived'
    BY <1>1, <1>3 DEF WayInv, Arrived
  <1>9. CalledInv'
    BY <1>1 DEF CalledInv, Dead
  <1> QED
    BY <1>6, <1>7, <1>8, <1>9

(* It calls back, and the batch has been all its way.                       *)
LEMMA CallWay ==
  ASSUME PyInv, OwnInv, WayInv, [Next]_vars, CqCall
  PROVE  OnePlace' /\ Between' /\ Arrived' /\ CalledInv'
  <1>1. /\ current \in Batch /\ called \in [Batch -> Nat] /\ cqPc = "call" /\ cqPc' \in {"del", "poll"}
        /\ called' = [called EXCEPT ![current] = @ + 1]
        /\ UNCHANGED <<queue, wq, sq, cq, moved, current>>
    BY DEF PyInv, TypeOK, CqCall, wqVars, hwVars
  <1>2. At(current, "call", 1) /\ "call" \in Place /\ 1 \in Nat
    BY <1>1 DEF At, Place
  <1>3. \A b \in Batch, p \in Place, i \in Nat : At(b, p, i)' => At(b, p, i) /\ p # "call"
    BY <1>1 DEF At
  <1>4. \A p \in Place, i \in Nat : ~At(current, p, i)'
    BY <1>1, <1>2, <1>3 DEF WayInv, OnePlace
  <1>5. OnePlace'
    BY <1>3 DEF WayInv, OnePlace
  <1>6. ~Early(current)
    BY <1>1, <1>2 DEF WayInv, Between
  <1>7. \A b \in Batch : b # current => called'[b] = called[b]
    BY <1>1
  <1>8. \A b \in Batch : Early(b)' => Early(b)
    BY EarlyStep
  <1>9. Between'
    BY <1>1, <1>3, <1>4, <1>6, <1>7, <1>8 DEF WayInv, Between
  <1>10. Arrived'
    BY <1>1 DEF WayInv, Arrived, At
  <1>11. CalledInv'
    BY <1>1 DEF CalledInv
  <1> QED
    BY <1>5, <1>9, <1>10, <1>11

(* The device completes the oldest work request.                            *)
LEMMA CompleteWay ==
  ASSUME PyInv, OwnInv, WayInv, [Next]_vars, HwComplete
  PROVE  OnePlace' /\ Between' /\ Arrived' /\ CalledInv'
  <1>1. /\ sq \in Seq(Batch \union {NULL}) /\ sq # <<>> /\ cq \in Seq(Batch \union {NULL})
        /\ sq' = Tail(sq) /\ cq' = Append(cq, Head(sq)) /\ moved' = moved \union ({Head(sq)} \ {NULL})
        /\ UNCHANGED <<queue, wq, called, cqPc, current>>
    BY DEF PyInv, TypeOK, HwComplete, wqVars, cqVars
  <1>2. /\ Len(sq) \in Nat /\ Len(sq) >= 1 /\ Len(sq') = Len(sq) - 1
        /\ \A i \in 1 .. Len(sq') : sq'[i] = sq[i + 1]
        /\ Head(sq) = sq[1] /\ Head(sq) \in Batch \union {NULL}
    BY <1>1, HeadOfTail
  <1>3. \A b \in Batch, i \in Nat : At(b, "sq", i)' => i >= 1 /\ At(b, "sq", i + 1)
    BY <1>1, <1>2 DEF At
  <1>4. \A b \in Batch, i \in Nat : At(b, "cq", i)'
           => \/ At(b, "cq", i) /\ i # Len(cq) + 1
              \/ i = Len(cq) + 1 /\ b = Head(sq) /\ At(b, "sq", 1)
    BY <1>1, <1>2 DEF At
  <1>5. \A b \in Batch, i \in Nat : /\ At(b, "call", i)' => At(b, "call", i)
                                    /\ At(b, "queue", i)' => At(b, "queue", i)
    BY <1>1 DEF At
  <1>6. \A b \in Batch, p \in Place, i \in Nat :
          At(b, p, i)' => \/ p = "sq" /\ i >= 1 /\ At(b, "sq", i + 1)
                          \/ p = "cq" /\ i # Len(cq) + 1 /\ At(b, "cq", i)
                          \/ p = "cq" /\ i = Len(cq) + 1 /\ At(b, "sq", 1)
                          \/ p \notin {"sq", "cq"} /\ At(b, p, i)
    BY <1>3, <1>4, <1>5 DEF Place
  <1>7. "sq" \in Place /\ "cq" \in Place /\ 1 \in Nat /\ \A i \in Nat : i + 1 \in Nat
    BY DEF Place
  <1>8. OnePlace'
    BY <1>6, <1>7 DEF WayInv, OnePlace
  <1>9. Between'
    <2>1. \A b \in Batch, p \in Place, i \in Nat :
            At(b, p, i)' => \E q \in Place, j \in Nat : At(b, q, j)
      BY <1>6, <1>7
    <2> QED
      BY <1>1, <2>1, MovesBetween
  <1>10. Arrived'
    BY <1>1, <1>4, <1>5, PyAssumption DEF WayInv, Arrived
  <1>11. CalledInv'
    BY <1>1 DEF WayInv, CalledInv, Dead
  <1> QED
    BY <1>8, <1>9, <1>10, <1>11

LEMMA WayStep == PyInv /\ OwnInv /\ WayInv /\ [Next]_vars => WayInv'
  <1> SUFFICES ASSUME PyInv, OwnInv, WayInv, [Next]_vars PROVE WayInv'
    OBVIOUS
  <1>1. CASE StopWqJoin
    <2>1. /\ sq \in Seq(Batch \union {NULL}) /\ sq' = Append(sq, NULL)
          /\ UNCHANGED <<queue, wq, called, cqPc, current, cq, moved>>
      BY <1>1 DEF PyInv, TypeOK, StopWqJoin, wqVars, cqVars
    <2>2. \A b \in Batch, p \in Place, i \in Nat : At(b, p, i)' => At(b, p, i)
      BY <2>1, PyAssumption DEF At
    <2>3. Between'
      BY <2>1, <2>2, MovesBetween
    <2>4. Arrived'
      BY <2>1 DEF WayInv, Arrived, At
    <2> QED
      BY <2>1, <2>2, <2>3, <2>4 DEF WayInv, OnePlace, CalledInv, Dead
  <1>2. CASE CqRaise \/ CqDelete
    <2>1. /\ UNCHANGED <<queue, wq, sq, cq, moved, called, current>>
          /\ cqPc = "del" /\ cqPc' # "call"
      BY <1>2 DEF CqRaise, CqDelete, wqVars, hwVars
    <2>2. \A b \in Batch, p \in Place, i \in Nat : At(b, p, i)' => At(b, p, i)
      BY <2>1 DEF At
    <2>3. Between'
      BY <2>1, <2>2, MovesBetween
    <2>4. Arrived'
      BY <2>1 DEF WayInv, Arrived, At
    <2> QED
      BY <2>1, <2>2, <2>3, <2>4 DEF WayInv, OnePlace, CalledInv
  <1>3. CASE /\ UNCHANGED <<queue, sq, cq, moved, called, cqPc, current>>
             /\ wq' = "pop" <=> wq = "pop"
    <2>1. \A b \in Batch, p \in Place, i \in Nat : At(b, p, i)' => At(b, p, i)
      BY <1>3 DEF At
    <2>2. Between'
      BY <1>3, <2>1, MovesBetween
    <2>3. Arrived'
      BY <1>3 DEF WayInv, Arrived, At
    <2> QED
      BY <1>3, <2>1, <2>2, <2>3 DEF WayInv, OnePlace, CalledInv, Dead
  <1> QED
    BY <1>1, <1>2, <1>3, WaySteps, PushWay, PostWay, PopWay, PollWay, CallWay, CompleteWay DEF WayInv

-----------------------------------------------------------------------------
(* Handles.                                                                 *)

(* The completion thread has called b back and not yet deleted its entry,   *)
(* or has died of it.                                                       *)
InHand(b) == (cqPc = "del" \/ Dead) /\ current = b

(* With the statement itself: a batch whose callback is over, and did not   *)
(* end the thread, is one whose handle had been stored.                     *)
HeldInv ==
  /\ HandleHeldUntilCalled
  /\ \A b \in Batch : Unshared(b) /\ called[b] > 0 /\ ~InHand(b) => Stored(b)

LEMMA HeldInit == Init => HeldInv
  BY PyAssumption DEF Init, HeldInv, HandleHeldUntilCalled, Unshared, Stored, Python, Resting, InHand, Dead

(* A Python batch is stored when its submit returns.                        *)
LEMMA StoredStep ==
  ASSUME PyInv, OwnInv, [Next]_vars, NEW b \in Batch, Unshared(b)
  PROVE  Stored(b)' <=> Stored(b) \/ \E t \in Thread : SubmitReturn(t) /\ thread[t].batch = b
  <1>0. Python(b) /\ b # NULL
    BY PyAssumption DEF Unshared
  <1>1. ASSUME NEW t \in Thread, NEW a \in Batch, Read(t, a)
        PROVE  Stored(b)' <=> Stored(b)
    BY <1>0, <1>1, ThreadRead DEF Stored
  <1>2. ASSUME NEW t \in Thread, SubmitLock(t) \/ SubmitPush(t)
        PROVE  Stored(b)' <=> Stored(b)
    BY <1>0, <1>2, ThreadGoes DEF Stored
  <1>3. ASSUME NEW t \in Thread, SubmitReturn(t)
        PROVE  /\ thread[t].batch # b => (Stored(b)' <=> Stored(b))
               /\ thread[t].batch = b => Stored(b)'
    <2>1. CASE thread[t].batch = b
      <3>1. thread'[t].batch = NULL /\ unsent' = unsent
        BY <1>0, <1>3, <2>1, ThreadReturns, ThreadShape DEF SubmitReturn, Resting, PyInv, TypeOK
      <3>2. b \notin unsent /\ \A u \in Thread : thread[u].batch = b => u = t
        BY <1>0, <2>1 DEF OwnInv
      <3> QED
        BY <1>0, <1>3, <2>1, <3>1, <3>2, ThreadReturns DEF Stored
    <2>2. CASE thread[t].batch # b
      BY <1>0, <1>3, <2>2, ThreadReturns DEF Stored
    <2> QED
      BY <2>1, <2>2
  <1>4. ASSUME NEW t \in Thread, WaitReturn(t)
        PROVE  Stored(b)' <=> Stored(b)
    <2>1. thread[t].batch # b
      BY <1>0, <1>4 DEF OwnInv, WaitReturn
    <2> QED
      BY <1>0, <1>4, <2>1, ThreadReturns DEF Stored
  <1>5. WqStep \/ CqStep \/ StopBegin \/ StopStep \/ HwComplete \/ UNCHANGED vars
           => (Stored(b)' <=> Stored(b))
    BY OthersLeaveThreads DEF Stored
  <1>6. ASSUME NEW t \in Thread, SubmitReturn(t), thread[t].batch = b
        PROVE  Stored(b)'
    BY <1>3, <1>6
  <1> QED
    BY <1>1, <1>2, <1>3, <1>4, <1>5, <1>6, ThreadSteps

(* Only these steps matter to what is called, stored or in hand.            *)
LEMMA HeldSteps ==
  ASSUME PyInv, [Next]_vars
  PROVE  \/ \E t \in Thread : SubmitReturn(t) /\ Python(thread[t].batch)
         \/ CqCall \/ CqDelete
         \/ /\ UNCHANGED <<assignment_with_callback, called>>
            /\ \A b \in Batch : InHand(b)' <=> InHand(b)
            /\ ~ \E t \in Thread : SubmitReturn(t) /\ Python(thread[t].batch)
  <1>1. CASE CqPoll
    <2>1. cqPc = "poll" /\ cqPc' \in {"exit", "call"} /\ UNCHANGED <<called, assignment_with_callback>>
      BY <1>1 DEF CqPoll, pyVars
    <2> QED
      BY <2>1 DEF InHand, Dead
  <1>2. CASE CqRaise
    <2>1. cqPc = "del" /\ cqPc' = "raised" /\ UNCHANGED <<called, current, assignment_with_callback>>
      BY <1>2 DEF CqRaise, pyVars
    <2> QED
      BY <2>1 DEF InHand, Dead
  <1>3. ~CqStep => UNCHANGED <<called, cqPc, current>>
    <2>1. ASSUME NEW t \in Thread,
                 (\E b \in Batch : Read(t, b)) \/ ThreadStep(t)
          PROVE  UNCHANGED <<called, cqPc, current>>
      BY <2>1 DEF Read, ThreadStep, SubmitLock, SubmitPush, SubmitReturn, WaitReturn, cqVars
    <2>2. WqStep \/ StopBegin \/ StopStep \/ HwComplete \/ UNCHANGED vars
             => UNCHANGED <<called, cqPc, current>>
      BY DEF WqStep, WqTop, WqTake, WqBlock, WqPark, WqExit, WqPost, WqPop, StopBegin, StopStep, StopNotify, StopWqJoin,
             StopCqJoin, HwComplete, vars, cqVars
    <2> QED
      BY <2>1, <2>2 DEF Next
  <1>4. UNCHANGED <<called, cqPc, current>> => \A b \in Batch : InHand(b)' <=> InHand(b)
    BY DEF InHand, Dead
  <1> QED
    BY <1>1, <1>2, <1>3, <1>4, DictionarySteps DEF CqStep

(* A callback of its own is stored for no other batch.                      *)
LEMMA OwnEntry ==
  ASSUME PyInv, OwnInv, NEW b \in Batch, Unshared(b), assignment_with_callback[CallbackOf[b]] # NULL
  PROVE  assignment_with_callback[CallbackOf[b]] = b
  BY PyAssumption DEF PyInv, TypeOK, OwnInv, Unshared, Python

LEMMA HeldStep == PyInv /\ OwnInv /\ WayInv /\ HeldInv /\ [Next]_vars => HeldInv'
  <1> SUFFICES ASSUME PyInv, OwnInv, WayInv, HeldInv, [Next]_vars,
                      NEW b \in Batch, Unshared(b)
               PROVE  /\ assignment_with_callback'[CallbackOf[b]] = b
                           <=> Stored(b)' /\ (called'[b] > 0 => InHand(b)')
                      /\ called'[b] > 0 /\ ~InHand(b)' => Stored(b)'
    BY DEF HeldInv, HandleHeldUntilCalled, Unshared, Python, InHand
  <1> DEFINE c == CallbackOf[b]
  <1>0. /\ c \in Callback /\ Python(b)
        /\ assignment_with_callback \in [Callback -> Batch \union {NULL}]
        /\ called \in [Batch -> Nat]
    BY PyAssumption DEF Unshared, Python, PyInv, TypeOK
  <1>1. /\ assignment_with_callback[c] = b <=> Stored(b) /\ (called[b] > 0 => InHand(b))
        /\ called[b] > 0 /\ ~InHand(b) => Stored(b)
    BY DEF HeldInv, HandleHeldUntilCalled, InHand
  <1>2. ASSUME NEW t \in Thread, SubmitReturn(t), Python(thread[t].batch)
        PROVE  /\ assignment_with_callback'[c] = b
                    <=> Stored(b)' /\ (called'[b] > 0 => InHand(b)')
               /\ called'[b] > 0 /\ ~InHand(b)' => Stored(b)'
    <2>1. /\ assignment_with_callback' =
               [assignment_with_callback EXCEPT ![CallbackOf[thread[t].batch]] = thread[t].batch]
          /\ UNCHANGED <<called, cqPc, current>>
          /\ thread[t].pc = "return"
      BY <1>2 DEF SubmitReturn, cqVars
    <2>2. InHand(b)' <=> InHand(b)
      BY <2>1 DEF InHand, Dead
    <2>3. thread[t].batch \in Batch
      BY <1>2, ThreadReturns
    <2>4. CASE thread[t].batch = b
      <3>1. Stored(b)'
        BY <1>2, <2>4, StoredStep
      <3>2. ~Stored(b)
        BY <2>4 DEF Stored
      <3> QED
        BY <1>0, <1>1, <2>1, <2>2, <2>4, <3>1, <3>2
    <2>5. CASE thread[t].batch # b
      <3>1. CallbackOf[thread[t].batch] # c
        BY <2>3, <2>5 DEF Unshared
      <3>2. Stored(b)' <=> Stored(b)
        <4>1. ASSUME Stored(b)' PROVE Stored(b)
          BY <1>2, <2>5, <4>1, ThreadReturns, PyAssumption DEF Stored
        <4> QED
          BY <4>1, StoredStep
      <3> QED
        BY <1>0, <1>1, <2>1, <2>2, <3>1, <3>2
    <2> QED
      BY <2>4, <2>5
  <1>3. CASE CqCall
    <2>1. /\ cqPc = "call" /\ current \in Batch /\ called' = [called EXCEPT ![current] = @ + 1]
          /\ cqPc' = IF Python(current) THEN "del" ELSE "poll"
          /\ UNCHANGED <<assignment_with_callback, current, thread, unsent>>
      BY <1>3 DEF CqCall, PyInv, TypeOK, pyVars
    <2>2. Stored(b)' <=> Stored(b)
      BY <2>1 DEF Stored
    <2>3. ~InHand(b)
      BY <2>1 DEF InHand, Dead
    <2>4. CASE current = b
      <3>1. called[b] = 0
        <4>1. At(b, "call", 1) /\ "call" \in Place /\ 1 \in Nat
          BY <2>1, <2>4 DEF At, Place
        <4> QED
          BY <4>1 DEF WayInv, Between
      <3>2. InHand(b)'
        BY <1>0, <2>1, <2>4 DEF InHand
      <3> QED
        BY <1>1, <2>1, <2>2, <3>1, <3>2
    <2>5. CASE current # b
      <3>1. ~InHand(b)' /\ called'[b] = called[b]
        BY <1>0, <2>1, <2>5 DEF InHand
      <3> QED
        BY <1>1, <2>1, <2>2, <2>3, <3>1
    <2> QED
      BY <2>4, <2>5
  <1>4. CASE CqDelete
    <2>1. /\ cqPc = "del" /\ current \in Batch /\ Python(current)
          /\ cqPc' = IF assignment_with_callback[CallbackOf[current]] = NULL THEN "keyerror" ELSE "poll"
          /\ assignment_with_callback' =
               [assignment_with_callback EXCEPT ![CallbackOf[current]] = NULL]
          /\ UNCHANGED <<called, current, thread, unsent>>
      BY <1>4 DEF CqDelete, PyInv, TypeOK
    <2>2. Stored(b)' <=> Stored(b)
      BY <2>1 DEF Stored
    <2>3. CASE current = b
      <3>1. called[b] > 0 /\ InHand(b)
        BY <2>1, <2>3 DEF WayInv, CalledInv, InHand
      <3>2. CASE assignment_with_callback[c] = NULL
        <4>1. InHand(b)' /\ assignment_with_callback'[c] = NULL /\ NULL # b
          BY <1>0, <2>1, <2>3, <3>2, PyAssumption DEF InHand, Dead
        <4> QED
          BY <1>1, <2>2, <3>1, <3>2, <4>1
      <3>3. CASE assignment_with_callback[c] # NULL
        <4>1. ~InHand(b)' /\ assignment_with_callback'[c] = NULL /\ NULL # b
          BY <1>0, <2>1, <2>3, <3>3, PyAssumption DEF InHand, Dead
        <4>2. Stored(b)
          BY <1>1, <3>3, OwnEntry
        <4> QED
          BY <2>1, <2>2, <3>1, <4>1, <4>2
      <3> QED
        BY <3>2, <3>3
    <2>4. CASE current # b
      <3>1. CallbackOf[current] # c /\ assignment_with_callback'[c] = assignment_with_callback[c]
        BY <1>0, <2>1, <2>4 DEF Unshared
      <3>2. ~InHand(b)' /\ ~InHand(b)
        BY <2>1, <2>4 DEF InHand
      <3> QED
        BY <1>1, <2>1, <2>2, <3>1, <3>2
    <2> QED
      BY <2>3, <2>4
  <1>5. CASE /\ UNCHANGED <<assignment_with_callback, called>>
             /\ \A a \in Batch : InHand(a)' <=> InHand(a)
             /\ ~ \E t \in Thread : SubmitReturn(t) /\ Python(thread[t].batch)
    <2>1. Stored(b)' <=> Stored(b)
      BY <1>0, <1>5, StoredStep
    <2> QED
      BY <1>1, <1>5, <2>1
  <1> QED
    BY <1>2, <1>3, <1>4, <1>5, HeldSteps

PyEndpointInv == PyInv /\ OwnInv /\ WayInv /\ HeldInv

LEMMA PyEndpointInvariance == Spec => []PyEndpointInv
  <1>1. Init => PyEndpointInv
    BY PyInvInit, OwnInit, WayInit, HeldInit DEF PyEndpointInv
  <1>2. PyEndpointInv /\ [Next]_vars => PyEndpointInv'
    BY PyInvStep, OwnStep, WayStep, HeldStep DEF PyEndpointInv
  <1> QED
    BY <1>1, <1>2, PTL DEF Spec

(* The handle of a batch with a callback of its own is in the dictionary    *)
(* from when it is stored until its callback has run, and no longer, unless *)
(* that callback ended the completion thread.                               *)
THEOREM HandlesAreHeld == Spec => []HandleHeldUntilCalled
  <1>1. PyEndpointInv => HandleHeldUntilCalled
    BY DEF PyEndpointInv, HeldInv
  <1> QED
    BY <1>1, PyEndpointInvariance, PTL

(* The completion thread misses the entry of a batch only when its callback *)
(* object is shared, or when it overtakes the thread that is to store it.   *)
THEOREM EntriesAreFound == Spec => EntryFoundUnlessOvertaken
  <1>1. ASSUME PyEndpointInv, [Next]_vars, cqPc = "del", cqPc' = "keyerror",
               Unshared(current), \A t \in Thread : thread[t].batch # current
        PROVE  FALSE
    <2>1. current \in Batch /\ called[current] > 0 /\ InHand(current)
      BY <1>1 DEF PyEndpointInv, PyInv, TypeOK, WayInv, CalledInv, InHand
    <2>2. ~Early(current)
      BY <2>1, <1>1 DEF PyEndpointInv, WayInv, Between
    <2>3. Stored(current)
      BY <1>1, <2>2 DEF Stored, Early
    <2>4. assignment_with_callback[CallbackOf[current]] = current
      BY <1>1, <2>1, <2>3 DEF PyEndpointInv, HeldInv, HandleHeldUntilCalled, InHand
    <2>5. CqDelete
      <3>1. cqPc' # cqPc
        BY <1>1
      <3>2. CqPoll \/ CqCall \/ CqRaise => FALSE
        BY <1>1 DEF CqPoll, CqCall, CqRaise
      <3>3. ASSUME NEW t \in Thread,
                   (\E b \in Batch : Read(t, b)) \/ ThreadStep(t)
            PROVE  FALSE
        BY <3>1, <3>3 DEF Read, ThreadStep, SubmitLock, SubmitPush, SubmitReturn, WaitReturn, cqVars
      <3>4. WqStep \/ StopBegin \/ StopStep \/ HwComplete \/ UNCHANGED vars => FALSE
        BY <3>1 DEF WqStep, WqTop, WqTake, WqBlock, WqPark, WqExit, WqPost, WqPop, StopBegin, StopStep, StopNotify, StopWqJoin,
               StopCqJoin, HwComplete, vars, cqVars
      <3> QED
        BY <1>1, <3>2, <3>3, <3>4 DEF Next, CqStep
    <2> QED
      BY <1>1, <2>1, <2>4, <2>5, PyAssumption DEF CqDelete
  <1>2. PyEndpointInv /\ [Next]_vars =>
          [cqPc = "del" /\ cqPc' = "keyerror" =>
             ~Unshared(current) \/ \E t \in Thread : thread[t].batch = current]_vars
    BY <1>1
  <1> QED
    BY <1>2, PyEndpointInvariance, PTL DEF Spec, EntryFoundUnlessOvertaken

-----------------------------------------------------------------------------
(* What Python code sees.                                                   *)

(* The service's variables, as PyEndpoint maps them.                        *)
Sub  == Batch \ unsent
Mv   == {<<b, 1>> : b \in moved}
St   == [b \in Batch |-> IF called[b] = 0 THEN "none" ELSE "SUCCESS"]
Ph   == IF stop = "done" THEN "closed"
        ELSE IF stop = "no" /\ ~Dead THEN "serving" ELSE "ending"

LEMMA SeenInit == Init => Service!Init
  BY DEF Init, Service!Init, Dead

(* A step that leaves the four alone is a stutter of the service.           *)
LEMMA SeenSame ==
  ASSUME UNCHANGED <<unsent, moved, called>>, Ph' = Ph
  PROVE  UNCHANGED Service!vars
  BY DEF Service!vars, Ph, Dead

(* One that changes only the phase ends or closes it.                       *)
LEMMA SeenPhase ==
  ASSUME UNCHANGED <<unsent, moved, called>>,
         (Ph = "serving" /\ Ph' = "ending") \/ (Ph = "ending" /\ Ph' = "closed")
  PROVE  Service!Next
  BY DEF Service!Next, Service!End, Service!Close, Ph, Dead

LEMMA SeenRead ==
  ASSUME PyEndpointInv, NEW t \in Thread, NEW b \in Batch, Read(t, b)
  PROVE  Service!Next
  <1>1. /\ b \in unsent /\ unsent' = unsent \ {b}
        /\ UNCHANGED <<moved, called, cqPc, stop>>
    BY DEF Read, hwVars, cqVars
  <1>2. b \notin Sub /\ Sub' = Sub \union {b}
    BY <1>1 DEF Sub
  <1>3. Mv' = Mv /\ St' = St /\ Ph' = Ph
    BY <1>1 DEF Mv, St, Ph, Dead
  <1>4. Service!Submit(b)
    BY <1>2, <1>3 DEF Service!Submit, Sub, Mv, St, Ph
  <1> QED
    BY <1>4 DEF Service!Next

(* A batch on its way is an open request.                                   *)
LEMMA OnWayOpen ==
  ASSUME PyEndpointInv, NEW b \in Batch, NEW p \in Place, NEW i \in Nat, At(b, p, i)
  PROVE  b \in Service!Open
  <1>1. called[b] = 0 /\ b \notin unsent
    BY DEF PyEndpointInv, WayInv, Between, Early
  <1> QED
    BY <1>1 DEF Service!Open

LEMMA SeenComplete ==
  ASSUME PyEndpointInv, HwComplete
  PROVE  Service!Next \/ UNCHANGED Service!vars
  <1>1. /\ sq \in Seq(Batch \union {NULL}) /\ sq # <<>>
        /\ moved' = moved \union ({Head(sq)} \ {NULL})
        /\ UNCHANGED <<unsent, called, cqPc, stop>>
    BY DEF PyEndpointInv, PyInv, TypeOK, HwComplete, pyVars, cqVars
  <1>2. Ph' = Ph
    BY <1>1 DEF Ph, Dead
  <1>3. CASE Head(sq) = NULL
    <2>1. moved' = moved
      BY <1>1, <1>3
    <2> QED
      BY <1>1, <1>2, <2>1, SeenSame
  <1>4. CASE Head(sq) # NULL
    <2>0. PICK b \in Batch : b = Head(sq)
      BY <1>1, <1>4, HeadOfTail
    <2>1. b = sq[1] /\ 1 \in 1 .. Len(sq)
      BY <1>1, <2>0, HeadOfTail
    <2>2. b \in Service!Open
      <3>1. At(b, "sq", 1) /\ "sq" \in Place /\ 1 \in Nat
        BY <2>1 DEF At, Place
      <3> QED
        BY <2>1, <3>1, OnWayOpen
    <2>3. Mv' = Mv \union {<<b, 1>>}
      BY <1>1, <1>4, <2>0 DEF Mv
    <2>4. {<<b, 1>>} \in SUBSET Service!Data(b)
      BY DEF Service!Data
    <2>5. Sub' = Sub /\ St' = St
      BY <1>1 DEF Sub, St
    <2>6. Service!Move(b)
      BY <1>2, <2>2, <2>3, <2>4, <2>5 DEF Service!Move, Sub, Mv, St, Ph
    <2> QED
      BY <2>6 DEF Service!Next
  <1> QED
    BY <1>3, <1>4

LEMMA SeenCall ==
  ASSUME PyEndpointInv, CqCall
  PROVE  Service!Next
  <1>0. PICK b \in Batch : b = current
    BY DEF PyEndpointInv, PyInv, TypeOK, CqCall
  <1>1. /\ cqPc = "call" /\ called \in [Batch -> Nat]
        /\ called' = [called EXCEPT ![b] = @ + 1]
        /\ cqPc' \in {"del", "poll"}
        /\ UNCHANGED <<unsent, moved, stop>>
    BY <1>0 DEF PyEndpointInv, PyInv, TypeOK, CqCall, pyVars, hwVars
  <1>2. At(b, "call", 1) /\ "call" \in Place /\ 1 \in Nat
    BY <1>0, <1>1 DEF At, Place
  <1>3. b \in Service!Open
    BY <1>1, <1>2, OnWayOpen
  <1>4. b \in moved /\ called[b] = 0
    BY <1>1, <1>2 DEF PyEndpointInv, WayInv, Arrived, Between
  <1>5. Ph # "closed" /\ Ph' = Ph
    BY <1>1 DEF PyEndpointInv, PyInv, WakeInv, Ph, Dead
  <1>6. Service!Data(b) \subseteq Mv
    <2>1. Service!Data(b) = {<<b, 1>>}
      BY <1>1 DEF Service!Data
    <2> QED
      BY <1>4, <2>1 DEF Mv
  <1>7. St' = [St EXCEPT ![b] = "SUCCESS"]
    <2>1. called'[b] = 1 /\ \A a \in Batch : a # b => called'[a] = called[a]
      BY <1>1, <1>4
    <2>2. \A a \in Batch : St'[a] = IF a = b THEN "SUCCESS" ELSE St[a]
      BY <2>1 DEF St
    <2> QED
      BY <2>2 DEF St
  <1>8. Sub' = Sub /\ Mv' = Mv
    BY <1>1 DEF Sub, Mv
  <1>9. Service!Report(b)
    BY <1>3, <1>5, <1>6, <1>7, <1>8 DEF Service!Report, Sub, Mv, St, Ph
  <1> QED
    BY <1>9 DEF Service!Next

(* Of the other steps only the stop and the death of the completion thread  *)
(* can be seen.                                                             *)
LEMMA SeenRest ==
  ASSUME PyEndpointInv, [Next]_vars
  PROVE  \/ \E t \in Thread, b \in Batch : Read(t, b)
         \/ CqCall \/ HwComplete
         \/ Service!Next
         \/ UNCHANGED Service!vars
  <1>1. ASSUME NEW t \in Thread, ThreadStep(t) PROVE UNCHANGED <<unsent, moved, called, cqPc, stop>>
    BY <1>1 DEF ThreadStep, SubmitLock, SubmitPush, SubmitReturn, WaitReturn, cqVars, hwVars
  <1>2. WqStep \/ UNCHANGED vars => UNCHANGED <<unsent, moved, called, cqPc, stop>>
    BY DEF WqStep, WqTop, WqTake, WqBlock, WqPark, WqExit, WqPost, WqPop, pyVars, cqVars, hwVars, vars
  <1>3. UNCHANGED <<unsent, moved, called, cqPc, stop>> => UNCHANGED Service!vars
    BY SeenSame DEF Ph, Dead
  <1>4. CASE CqPoll
    <2>1. cqPc = "poll" /\ cqPc' \in {"exit", "call"} /\ UNCHANGED <<unsent, moved, called, stop>>
      BY <1>4 DEF CqPoll, pyVars
    <2> QED
      BY <2>1, SeenSame DEF Ph, Dead
  <1>5. CASE CqRaise \/ CqDelete
    <2>1. /\ cqPc = "del" /\ cqPc' \in {"raised", "keyerror", "poll"}
          /\ UNCHANGED <<unsent, moved, called, stop>>
      BY <1>5 DEF CqRaise, CqDelete, pyVars, hwVars
    <2>2. Ph' = Ph \/ (Ph = "serving" /\ Ph' = "ending")
      BY <2>1 DEF Ph, Dead
    <2> QED
      BY <2>1, <2>2, SeenSame, SeenPhase
  <1>6. CASE StopBegin \/ StopStep
    <2>1. /\ \/ stop = "no" /\ stop' = "flag"
             \/ stop = "flag" /\ stop' = "wq"
             \/ stop = "wq" /\ stop' = "cq"
             \/ stop = "cq" /\ stop' = "done"
          /\ UNCHANGED <<unsent, moved, called, cqPc>>
      BY <1>6 DEF StopBegin, StopStep, StopNotify, StopWqJoin, StopCqJoin, pyVars, cqVars, hwVars
    <2>2. \/ Ph' = Ph
          \/ Ph = "serving" /\ Ph' = "ending"
          \/ Ph = "ending" /\ Ph' = "closed"
      BY <2>1 DEF Ph, Dead
    <2> QED
      BY <2>1, <2>2, SeenSame, SeenPhase
  <1> QED
    BY <1>1, <1>2, <1>3, <1>4, <1>5, <1>6 DEF Next, CqStep

(* For Python code, with its callbacks under the GIL and its dictionary of  *)
(* handles, the endpoint is a ReadService that ends when stop is called or  *)
(* the completion thread dies, and closes when stop has returned; no batch  *)
(* is called back twice.                                                    *)
THEOREM PythonSeesReadService ==
  Spec => Service!Spec /\ [][\A b \in Batch : called'[b] # called[b] => called[b] = 0]_vars
  <1>1. PyEndpointInv /\ [Next]_vars => [Service!Next]_(Service!vars)
    BY SeenRead, SeenCall, SeenComplete, SeenRest
  <1>2. PyEndpointInv /\ [Next]_vars
          => [\A b \in Batch : called'[b] # called[b] => called[b] = 0]_vars
    <2>1. ASSUME PyEndpointInv, [Next]_vars, NEW b \in Batch, called'[b] # called[b]
          PROVE  called[b] = 0
      <3>1. CASE CqCall
        <4>1. cqPc = "call" /\ current = b
          BY <2>1, <3>1 DEF CqCall, PyEndpointInv, PyInv, TypeOK
        <4>2. At(b, "call", 1) /\ "call" \in Place /\ 1 \in Nat
          BY <4>1 DEF At, Place
        <4> QED
          BY <2>1, <4>2 DEF PyEndpointInv, WayInv, Between
      <3>2. ~CqCall => called' = called
        <4>1. \A t \in Thread : SubmitPush(t) => called' = called
          BY DEF SubmitPush, cqVars
        <4>2. WqPost \/ WqPop \/ CqPoll \/ StopWqJoin \/ HwComplete \/ CqRaise \/ CqDelete
                 => called' = called
          BY DEF WqPost, WqPop, CqPoll, StopWqJoin, HwComplete, CqRaise, CqDelete, cqVars
        <4> QED
          BY <2>1, <4>1, <4>2, WaySteps DEF PyEndpointInv
      <3> QED
        BY <2>1, <3>1, <3>2
    <2> QED
      BY <2>1
  <1> QED
    BY <1>1, <1>2, SeenInit, PyEndpointInvariance, PTL DEF Spec, Service!Spec
=============================================================================
