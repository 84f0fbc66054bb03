------------------------------ MODULE PyEndpoint ------------------------------
(***************************************************************************)
(* RDMAEndpoint (dlslime/remote_io/rdma_endpoint.py) on top of the bindings *)
(* of csrc/python/bind.cpp: the Python threads that call read_batch,        *)
(* read_batch_with_callback and stop, and the dispatcher and the completion *)
(* thread of the context underneath, as far as they need the interpreter    *)
(* lock (GIL), assign_queue_mutex_ or the dictionary of handles.            *)
(*                                                                         *)
(* submit and wait release the GIL, stop_future keeps it.  A callback that  *)
(* is a Python function needs the GIL to be called, to be copied (submit    *)
(* does so under assign_queue_mutex_) and to be destroyed.  One dispatcher  *)
(* stands for the four; how it makes room, how completions raise events and *)
(* wake-ups without a notification are the subject of RDMAContext.          *)
(***************************************************************************)
EXTENDS Naturals, Sequences

CONSTANTS
  Thread,      \* Python threads
  Batch,       \* the batches that are read
  Callback,    \* Python callback objects
  Reads,       \* Thread -> the batches it may read, in any order
  CallbackOf,  \* Batch -> its callback, NULL for read_batch
  StopWhen,    \* "never", at "any" time, or when all is "awaited"
  Faults,      \* "raise": a callback may raise an exception
  NULL

ASSUME PyAssumption ==
  /\ NULL \notin Batch \union Callback \union Thread \union {"wq"}
  /\ "wq" \notin Thread
  /\ Reads \in [Thread -> SUBSET Batch]
  /\ CallbackOf \in [Batch -> Callback \union {NULL}]
  /\ StopWhen \in {"never", "any", "awaited"}
  /\ Faults \subseteq {"raise"}

Python(b) == CallbackOf[b] # NULL

VARIABLES
  thread,                    \* Thread -> where it is, and with which batch
  unsent,                    \* batches not yet submitted
  assignment_with_callback,  \* Callback -> handle stored under its id, or NULL
  mutex,                     \* assign_queue_mutex_: a thread, "wq" or NULL
  queue,                     \* assign_queue_
  wq,                        \* where wq_dispatch_handle is
  cqPc,                      \* where cq_poll_handle is
  current,                   \* the batch whose completion it handles
  called,                    \* Batch -> times its callback was called
  stop,                      \* how far stop_future is
  sq, cq,                    \* device: posted, and completed, in order
  moved                      \* device: batches whose data has arrived

pyVars   == <<thread, unsent, assignment_with_callback>>
wqVars   == <<mutex, queue, wq>>
cqVars   == <<cqPc, current, called>>
hwVars   == <<sq, cq, moved>>
vars     == <<pyVars, wqVars, cqVars, stop, hwVars>>

Resting == [pc |-> "idle", batch |-> NULL]

(* connect has run: both background threads wait for work.                  *)
Init ==
  /\ thread = [t \in Thread |-> Resting]
  /\ unsent = Batch
  /\ assignment_with_callback = [c \in Callback |-> NULL]
  /\ mutex = NULL
  /\ queue = <<>>
  /\ wq = "top"
  /\ cqPc = "poll"
  /\ current = NULL
  /\ called = [b \in Batch |-> 0]
  /\ stop = "no"
  /\ sq = <<>>
  /\ cq = <<>>
  /\ moved = {}

-----------------------------------------------------------------------------
(* Python threads.                                                          *)

(* Python code runs in steps between which the lock may change hands; only  *)
(* stop_future keeps it while it waits for others.                          *)
GilFree == stop \in {"no", "done"}

(* The wrapper is built, its arguments converted, the GIL released.         *)
Read(t, b) ==
  /\ GilFree
  /\ thread[t].pc = "idle"
  /\ b \in Reads[t] \intersect unsent
  /\ unsent' = unsent \ {b}
  /\ thread' = [thread EXCEPT ![t] = [pc |-> "submit", batch |-> b]]
  /\ UNCHANGED <<assignment_with_callback, wqVars, cqVars, stop, hwVars>>

(* Mutant of SubmitLock: the mutex is not waited for.                       *)
SubmitLockLess(t) ==
  /\ thread[t].pc = "submit"
  /\ mutex' = t
  /\ thread' = [thread EXCEPT ![t].pc = "copy"]
  /\ UNCHANGED <<unsent, assignment_with_callback, queue, wq, cqVars, stop, hwVars>>

SubmitLock(t) ==
  /\ thread[t].pc = "submit"
  /\ mutex = NULL
  /\ mutex' = t
  /\ thread' = [thread EXCEPT ![t].pc = "copy"]
  /\ UNCHANGED <<unsent, assignment_with_callback, queue, wq, cqVars, stop, hwVars>>

(* notify_one on has_runnable_event_: only a parked dispatcher hears it.    *)
Notified == IF wq = "parked" THEN "wait" ELSE wq

(* callback_ is copied into its record, the record queued, the dispatcher   *)
(* notified, the mutex released.                                            *)
SubmitPush(t) ==
  LET b == thread[t].batch IN
  /\ thread[t].pc = "copy"
  /\ Python(b) => GilFree
  /\ queue' = Append(queue, b)
  /\ wq' = Notified
  /\ mutex' = NULL
  /\ thread' = [thread EXCEPT ![t].pc = "return"]
  /\ UNCHANGED <<unsent, assignment_with_callback, cqVars, stop, hwVars>>

(* Mutant of SubmitReturn: the handle is not kept.                          *)
SubmitReturnDropped(t) ==
  /\ thread[t].pc = "return"
  /\ GilFree
  /\ thread' = [thread EXCEPT ![t] = IF Python(@.batch) THEN Resting
                                     ELSE [@ EXCEPT !.pc = "wait"]]
  /\ UNCHANGED <<unsent, assignment_with_callback, wqVars, cqVars, stop, hwVars>>

(* submit returns under the GIL: read_batch goes on to wait(),              *)
(* read_batch_with_callback stores the handle and drops its own.            *)
SubmitReturn(t) ==
  LET b == thread[t].batch IN
  /\ thread[t].pc = "return"
  /\ GilFree
  /\ IF Python(b)
       THEN /\ assignment_with_callback' =
                 [assignment_with_callback EXCEPT ![CallbackOf[b]] = b]
            /\ thread' = [thread EXCEPT ![t] = Resting]
       ELSE /\ thread' = [thread EXCEPT ![t].pc = "wait"]
            /\ UNCHANGED assignment_with_callback
  /\ UNCHANGED <<unsent, wqVars, cqVars, stop, hwVars>>

WaitReturn(t) ==
  /\ thread[t].pc = "wait"
  /\ called[thread[t].batch] > 0
  /\ GilFree
  /\ thread' = [thread EXCEPT ![t] = Resting]
  /\ UNCHANGED <<unsent, assignment_with_callback, wqVars, cqVars, stop, hwVars>>

-----------------------------------------------------------------------------
(* The dispatcher.                                                          *)

(* The loop tests the stop flag without the mutex.                          *)
WqTop ==
  /\ wq = "top"
  /\ wq' = IF stop = "no" THEN "wait" ELSE "exit"
  /\ UNCHANGED <<pyVars, mutex, queue, cqVars, stop, hwVars>>

(* has_runnable_event_.wait(lock, ...): the predicate holds ...             *)
WqTake ==
  /\ wq = "wait"
  /\ mutex = NULL
  /\ stop = "no"
  /\ queue # <<>>
  /\ wq' = "post"
  /\ mutex' = "wq"
  /\ UNCHANGED <<pyVars, queue, cqVars, stop, hwVars>>

(* ... or is false: the dispatcher blocks, and only then lets the mutex go. *)
WqBlock ==
  /\ wq = "wait"
  /\ mutex = NULL
  /\ stop = "no"
  /\ queue = <<>>
  /\ wq' = "park"
  /\ mutex' = "wq"
  /\ UNCHANGED <<pyVars, queue, cqVars, stop, hwVars>>

WqPark ==
  /\ wq = "park"
  /\ wq' = "parked"
  /\ mutex' = NULL
  /\ UNCHANGED <<pyVars, queue, cqVars, stop, hwVars>>

(* The wait needs the mutex to return, so too to see the stop flag.         *)
WqExit ==
  /\ wq = "wait"
  /\ mutex = NULL
  /\ stop # "no"
  /\ wq' = "exit"
  /\ UNCHANGED <<pyVars, mutex, queue, cqVars, stop, hwVars>>

WqPost ==
  /\ wq = "post"
  /\ sq' = Append(sq, Head(queue))
  /\ wq' = "pop"
  /\ UNCHANGED <<pyVars, mutex, queue, cqVars, stop, cq, moved>>

(* Handles of b outside the queue.                                          *)
Held(b) ==
  \/ \E t \in Thread : thread[t].batch = b
  \/ \E c \in Callback : assignment_with_callback[c] = b

(* Popping the last handle destroys the record and its callback with it.    *)
WqPop ==
  LET b == Head(queue) IN
  /\ wq = "pop"
  /\ Python(b) /\ ~Held(b) => GilFree
  /\ queue' = Tail(queue)
  /\ IF Tail(queue) = <<>> THEN wq' = "top" /\ mutex' = NULL
                           ELSE wq' = "post" /\ UNCHANGED mutex
  /\ UNCHANGED <<pyVars, cqVars, stop, hwVars>>

-----------------------------------------------------------------------------
(* The completion thread.                                                   *)

(* A completion polled after the stop flag was set is dropped.              *)
CqPoll ==
  /\ cqPc = "poll"
  /\ cq # <<>>
  /\ cq' = Tail(cq)
  /\ cqPc' = IF stop \in {"cq", "done"} THEN "exit" ELSE "call"
  /\ current' = Head(cq)
  /\ UNCHANGED <<pyVars, wqVars, called, stop, sq, moved>>

(* callback_: the counter that wait() watches, or delete_assignment_callback,*)
(* which calls the user's first.                                            *)
CqCall ==
  /\ cqPc = "call"
  /\ Python(current) => GilFree
  /\ called' = [called EXCEPT ![current] = @ + 1]
  /\ cqPc' = IF Python(current) THEN "del" ELSE "poll"
  /\ UNCHANGED <<pyVars, wqVars, current, stop, hwVars>>

(* The user's callback raises an exception, which ends the thread.          *)
CqRaise ==
  /\ "raise" \in Faults
  /\ cqPc = "del"
  /\ GilFree
  /\ cqPc' = "raised"
  /\ UNCHANGED <<pyVars, wqVars, current, called, stop, hwVars>>

(* It returns, and its entry is deleted: KeyError when there is none.       *)
CqDelete ==
  LET c == CallbackOf[current] IN
  /\ cqPc = "del"
  /\ GilFree
  /\ cqPc' = IF assignment_with_callback[c] = NULL THEN "keyerror" ELSE "poll"
  /\ assignment_with_callback' = [assignment_with_callback EXCEPT ![c] = NULL]
  /\ UNCHANGED <<thread, unsent, wqVars, current, called, stop, hwVars>>

-----------------------------------------------------------------------------
(* stop(): stop_future with the GIL held throughout.                        *)

(* A caller that awaits: every batch it submitted has been called back.     *)
Awaited ==
  /\ \A b \in Batch \ unsent : called[b] > 0
  /\ \A t \in Thread : thread[t] = Resting

(* stop_wq_future_ is set ...                                               *)
StopBegin ==
  /\ StopWhen # "never"
  /\ StopWhen = "awaited" => Awaited
  /\ stop = "no"
  /\ \E t \in Thread : thread[t].pc = "idle"
  /\ stop' = "flag"
  /\ UNCHANGED <<pyVars, wqVars, cqVars, hwVars>>

(* ... and the dispatcher notified, both without the mutex.                 *)
StopNotify ==
  /\ stop = "flag"
  /\ stop' = "wq"
  /\ wq' = Notified
  /\ UNCHANGED <<pyVars, mutex, queue, cqVars, hwVars>>

(* Mutant of StopWqJoin: nothing wakes the completion thread.               *)
StopWqJoinSilent ==
  /\ stop = "wq"
  /\ wq = "exit"
  /\ stop' = "cq"
  /\ UNCHANGED <<pyVars, wqVars, cqVars, hwVars>>

(* wq_future_.get(), then the flag and the work request of wr_id 0 that     *)
(* wakes the completion thread.                                             *)
StopWqJoin ==
  /\ stop = "wq"
  /\ wq = "exit"
  /\ stop' = "cq"
  /\ sq' = Append(sq, NULL)
  /\ UNCHANGED <<pyVars, wqVars, cqVars, cq, moved>>

Dead == cqPc \in {"raised", "keyerror"}

(* Mutant of StopCqJoin: the completion thread is not joined.               *)
StopCqNoJoin ==
  /\ stop = "cq"
  /\ stop' = "done"
  /\ UNCHANGED <<pyVars, wqVars, cqVars, hwVars>>

(* cq_future_.get(), which throws what the thread died of.                  *)
StopCqJoin ==
  /\ stop = "cq"
  /\ cqPc = "exit" \/ Dead
  /\ stop' = "done"
  /\ UNCHANGED <<pyVars, wqVars, cqVars, hwVars>>

-----------------------------------------------------------------------------
(* The device (external): work requests complete in order.                  *)
HwComplete ==
  /\ sq # <<>>
  /\ sq' = Tail(sq)
  /\ cq' = Append(cq, Head(sq))
  /\ moved' = moved \union ({Head(sq)} \ {NULL})
  /\ UNCHANGED <<pyVars, wqVars, cqVars, stop>>

ThreadStep(t) == SubmitLock(t) \/ SubmitPush(t) \/ SubmitReturn(t) \/ WaitReturn(t)
WqStep   == WqTop \/ WqTake \/ WqBlock \/ WqPark \/ WqExit \/ WqPost \/ WqPop
CqStep   == CqPoll \/ CqCall \/ CqRaise \/ CqDelete
StopStep == StopNotify \/ StopWqJoin \/ StopCqJoin

Next ==
  \/ \E t \in Thread : (\E b \in Batch : Read(t, b)) \/ ThreadStep(t)
  \/ WqStep
  \/ CqStep
  \/ StopBegin
  \/ StopStep
  \/ HwComplete

Spec == Init /\ [][Next]_vars

(* Threads run when they can, the interpreter hands the GIL to who waits    *)
(* for it, the device completes what is posted.  Nobody must read or stop.  *)
Fairness ==
  /\ \A t \in Thread : WF_vars(ThreadStep(t))
  /\ WF_vars(WqStep)
  /\ WF_vars(CqStep)
  /\ WF_vars(StopStep)
  /\ WF_vars(HwComplete)

FairSpec == Spec /\ Fairness

-----------------------------------------------------------------------------
(* Every variable has its type; assign_queue_mutex_ is held exactly by the  *)
(* thread that copies into the queue, drains it or is about to block, and   *)
(* what is being drained is there.                                          *)
TypeOK ==
  /\ thread \in [Thread -> [pc : {"idle", "submit", "copy", "return", "wait"},
                            batch : Batch \union {NULL}]]
  /\ \A t \in Thread : thread[t].pc = "idle" <=> thread[t].batch = NULL
  /\ unsent \subseteq Batch
  /\ assignment_with_callback \in [Callback -> Batch \union {NULL}]
  /\ mutex \in Thread \union {"wq", NULL}
  /\ \A t \in Thread : mutex = t <=> thread[t].pc = "copy"
  /\ queue \in Seq(Batch)
  /\ wq \in {"top", "wait", "park", "parked", "post", "pop", "exit"}
  /\ mutex = "wq" <=> wq \in {"park", "post", "pop"}
  /\ wq \in {"post", "pop"} => queue # <<>>
  /\ cqPc \in {"poll", "call", "del", "raised", "keyerror", "exit"}
  /\ current \in Batch \union {NULL}
  /\ cqPc = "call" => current \in Batch
  /\ cqPc = "del" \/ Dead => current \in Batch /\ Python(current)
  /\ called \in [Batch -> Nat]
  /\ stop \in {"no", "flag", "wq", "cq", "done"}
  /\ sq \in Seq(Batch \union {NULL})
  /\ cq \in Seq(Batch \union {NULL})
  /\ moved \subseteq Batch

(* No other batch is given the same callback object.                        *)
Unshared(b) ==
  Python(b) /\ \A o \in Batch : CallbackOf[o] = CallbackOf[b] => o = b

Stored(b) == b \notin unsent /\ \A t \in Thread : thread[t].batch # b

(* The handle of a batch that was given a callback of its own is kept in    *)
(* the dictionary from the moment it is stored until its callback has run,  *)
(* so that the record outlives its use by the completion thread; afterwards *)
(* it is gone, and nothing leaks, unless that callback has ended the thread *)
(* (rdma_endpoint.py:128-148).                                              *)
HandleHeldUntilCalled ==
  \A b \in Batch :
    Unshared(b) =>
      (assignment_with_callback[CallbackOf[b]] = b
         <=> /\ Stored(b)
             /\ called[b] > 0 => (cqPc = "del" \/ Dead) /\ current = b)

(* A callback of its own finds its entry, unless it overtakes the thread    *)
(* that is about to store it: then, only then and when callback objects are *)
(* shared does the KeyError of line 133 end the completion thread.          *)
EntryFoundUnlessOvertaken ==
  [][cqPc = "del" /\ cqPc' = "keyerror" =>
       ~Unshared(current) \/ \E t \in Thread : thread[t].batch = current]_vars

(* No background thread and no thread that holds the mutex will need the    *)
(* GIL.                                                                     *)
Settled ==
  /\ cqPc # "del"
  /\ cqPc = "call" => ~Python(current)
  /\ \A i \in DOMAIN queue : ~Python(queue[i])
  /\ \A i \in DOMAIN sq : sq[i] # NULL => ~Python(sq[i])
  /\ \A i \in DOMAIN cq : cq[i] # NULL => ~Python(cq[i])
  /\ \A t \in Thread : thread[t].pc \in {"submit", "copy"} => ~Python(thread[t].batch)

(* The dispatcher blocked after it had seen no stop flag, and the stop      *)
(* notified it too early: nobody wakes it, unless another batch comes.      *)
WakeupLost == stop = "wq" /\ wq = "parked"

(* stop(), called when no Python callback is owed, returns, even while      *)
(* read_batch is queued, in flight or about to be submitted by others,      *)
(* unless that one wake-up is lost for good.                                *)
StopReturnsWhenSettled ==
  (stop \in {"flag", "wq"} /\ Settled) ~> (stop = "done" \/ []WakeupLost)

(* stop() returns, unless that wake-up is lost.                             *)
StopReturns == (stop = "flag") ~> (stop = "done" \/ WakeupLost)

(* Every batch whose read_batch_with_callback has been called is called     *)
(* back, as long as nobody stops the endpoint.                              *)
EveryBatchCalledBack ==
  \A b \in Batch : (b \notin unsent) ~> (called[b] > 0 \/ stop # "no")

-----------------------------------------------------------------------------
(* What Python code sees: a read service that ends when stop is called or   *)
(* when its completion thread has died.                                     *)
Service == INSTANCE ReadService
             WITH Request <- Batch,
                  Size <- [b \in Batch |-> 1],
                  submitted <- Batch \ unsent,
                  moved <- {<<b, 1>> : b \in moved},
                  status <- [b \in Batch |-> IF called[b] = 0 THEN "none" ELSE "SUCCESS"],
                  phase <- IF stop = "done" THEN "closed"
                           ELSE IF stop = "no" /\ ~Dead THEN "serving" ELSE "ending"

(* Each batch is called back at most once, after its data has arrived,      *)
(* never after stop has returned, and surely while the thread lives and     *)
(* nobody stops it.                                                         *)
ImplementsLiveReadService ==
  /\ Service!FairSpec
  /\ [][\A b \in Batch : called'[b] # called[b] => called[b] = 0]_vars
=============================================================================
