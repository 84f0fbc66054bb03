# DLSlime in TLA+

DLSlime moves blocks of memory between processes: an *endpoint* registers
memory regions, exchanges its description with one peer, and then reads the
peer's regions in batches, over RDMA (`csrc/engine/rdma`) or NVLink
(`csrc/engine/nvlink`), from C++ or Python (`dlslime/remote_io`). This directory
holds TLA+ models of that code, TLC configurations that check them on small
instances, and TLAPS proofs that need no instance. Paths below are relative to
the repository.

## The system

| Component | State | Operations | Correct when |
|---|---|---|---|
| **RDMAContext, data path** (`rdma_context.cpp:278-591`, `rdma_assignment.*`) | per queue pair: `assign_queue_` under `assign_queue_mutex_`, `outstanding_rdma_reads_`, `stop_wq_future_`; per context: `last_qp_selection_`, `stop_cq_future_`; per piece: a `callback_info_t` | `submit`, `wait`, `launch_future`, `stop_future`; threads `wq_dispatch_handle` (one per queue pair) and `cq_poll_handle` | one callback per request, in order per queue pair; success means data; the device queue never overflows; nobody sleeps for ever; stop stops |
| **RDMAContext, set-up** (`rdma_context.cpp:42-276`) | `initialized_`, `connected_`, queue-pair states, local and remote `rdma_info_t` | `init`, `endpoint_info`, `connect` | both ends agree on the address of each queue pair before traffic starts |
| **RDMAMemoryPool** (`memory_pool.*`) | maps of local and remote regions by key | register, look up, describe | every key a read names is known at both ends |
| **RDMAScheduler** (`rdma_scheduler.*`, used by `bench/cpp/scheduler_bench.cpp`) | a vector of contexts, `last_rdma_selection_`, per process a vector of schedulers | construction, registration, `scheduler_info`, `connect`, `submitAssignment`, `selectRdma`, destructor | equal positions are connected on both hosts; requests are spread evenly; memory outlives the reads of it; the program ends |
| **GID search** (`utils/ibv_helper.cpp`) | none | `ibv_find_sgid_type` | finds an entry of the type and family asked for, if there is one |
| **NVLinkContext** (`csrc/engine/nvlink`) | maps of local and remote IPC regions, a CUDA stream | `register_memory_region`, `endpoint_info`, `connect`, `read_batch` | copies run between the regions the key names at the two ends |
| **Python endpoints** (`dlslime/remote_io`, `csrc/python/bind.cpp`) | `assignment_with_callback`, the GIL | `connect`, `read_batch`, `read_batch_with_callback`, `send_async`, `recv_async`, `stop` | every callback runs once and its handle lives until then; `stop` returns |

How they interact. A caller's `submit` cuts a batch into pieces of at most
`MAX_SEND_WR / 2` assignments, queues them on one queue pair and notifies its
dispatcher, which posts each piece as one chain of work requests when the send
queue has room. The device moves the data and puts one completion for a chain
into the context's completion queue; the completion thread, woken by an event,
polls it, calls the callback found behind the completion's `wr_id`, and gives
the room back. `stop_future` tells every dispatcher and then the completion
thread to leave, and wakes the latter with a work request of its own. Five kinds
of threads thus share the queues and counters, and two of them share memory
that a third one frees.

Before that, two ends become connected: each calls `init`, registers memory, and
describes itself with `endpoint_info`; the caller carries the descriptions across by a
channel of its own; each end calls `connect` with the other's, which moves its
queue pairs to ready, and `launch_future`. Nothing in the code orders the two ends.
The *scheduler* holds several contexts and hands each request to one of them; its
one program makes several schedulers on each of two hosts, pairs them by the order of
their messages on a socket, reads in rounds and says TERMINATE.
Python adds one lock to all this, the GIL, which the background threads need for
every callback that is a Python function, and one dictionary that keeps handles alive.
The *NVLink* context needs no threads: reads are copies on a stream, and connecting
means opening the handles in the peer's description.

What is hard, with the line where it bites and the properties that cover it, is
listed in `PROJECT.json` under `hazards`: the test of the room and its charge
under different locks, the order of arming and polling, the lifetime of a
`callback_info_t`, partial failures of a batch posted in pieces, the
condition variable that `stop_future` notifies without its mutex, two ends that
connect in any order with descriptions that may be old, a `connect` that
fails half way, a lock held across a join, a callback that overtakes the thread that
stores its handle, region maps that insert what they do not find, and a shutdown that
waits for any word.

## The modules

| Module | What it is |
|---|---|
| `ReadService` | abstract: what `submit(READ, ...)` promises a caller, from the first request to the closing of the endpoint |
| `RDMAContext` | the data path of one context, its callers, its threads, the stop, and the device behind it; its properties; the refinement mapping to `ReadService` |
| `RDMAContextProofs`, `RDMAContextCallbackProofs`, `RDMAContextServiceProofs`, `RDMAContextQueueProofs` | theorems about `RDMAContext`, proved with TLAPS |
| `RDMAConnection`, `RDMAConnectionProofs` | two contexts through `init`, description, `connect`, memory registration, reads and crashes |
| `PyEndpoint`, `PyEndpointProofs` | the Python endpoint over a context: the GIL, the dictionary of handles, callbacks, `stop`; the refinement mapping to `ReadService` |
| `GidTable` | `ibv_find_sgid_type` as a recursive function, and what it should find |
| `RDMAScheduler`, `RDMASchedulerProofs` | two processes that each build, connect, use and delete schedulers; extends `GidTable` |
| `NVLinkContext`, `NVLinkProofs` | two processes with NVLink contexts: registration, description, connection, copies, the end |
| `MCRDMAContext`, `MCRDMAConnection`, `MCPyEndpoint`, `MCRDMAScheduler`, `MCNVLinkContext` | the instances TLC checks |

The models divide the code at its seams. `RDMAContext` starts from a connected context
and follows requests through its threads; `RDMAConnection` follows the life of the
connection and treats a read as a single work request; `RDMAScheduler` treats a context
as one state; `PyEndpoint` reduces the context to the order in which its threads need
locks. `RDMAContext` and `PyEndpoint` implement the same `ReadService`, one for callers
in C++ and one for callers in Python.

### RDMAContext

A request `r` is one call of `submit`; its batch is `1 .. Size[r]`, and not empty: of an empty
one `submit` queues nothing and returns a null handle (`rdma_context.cpp:333-354`). Piece
`<<r, i>>` is one `RDMAAssignment` with its `callback_info_t`; only the last
piece of a request carries the caller's callback, and only its handle is
returned. The state is the code's (`assign_queue_`, `outstanding_rdma_reads_`,
`finished_`, the two stop flags), one program counter per thread (`client`,
`wq`, `cqPc`, `stopper`), and the device (`sq`, `rq`, `qpState`, `cq`, `armed`,
`events`, `moved`). A work request carries the address of its piece's `callback_info_t`; `record`
says which record is found there now. `pushed` is a history variable: it tells which records were
ever made, and properties use it.

A step of the model is what a thread does between two accesses to shared state:

* `select_qpi` is a read and a write of a plain `int` (`SubmitSelect`,
  `SubmitStore`), so two callers may choose the same queue pair; the rest of
  `submit` runs under the queue's mutex and is one action, `SubmitPush`.
* The dispatcher holds the mutex from the test of its wait predicate until it
  blocks or has drained the queue (`Locked`). Testing the predicate (`WqPredicate`)
  and blocking (`WqPark`) are separate steps, because `notify_one` may come in
  between from a thread that does not take the mutex. Testing the room
  (`WqReserve`), charging it (`WqCharge`), posting (`WqPost`) and popping
  (`WqPop`) are separate because the completion thread and the device run
  meanwhile. The sleep of a dispatcher that finds no room changes nothing and is
  no action.
* The completion thread takes an event, arms, polls up to `POLL_COUNT` entries,
  and handles them one by one: the callback (`CqCall`), then the read of
  `batch_size_` and the decrement (`CqRelease`), since the waiter that the
  callback wakes runs in between.
* `stop_future` is a thread of its own, with one action for each store, notify,
  post and join.

The device is external and modelled from the guarantees the code relies on: a
reliable connected queue pair executes its chains in order, one completion per
signaled work request; the first failing work request moves it to the error
state, and everything after it is flushed with a completion for each work
request. A completion raises an event if the queue was armed, and disarms it.

Abstracted: memory keys, addresses and lengths; logging; the branches for a
batch larger than `MAX_SEND_WR` and for an unknown opcode, which `submit` cannot
reach (pieces have at most `MAX_SEND_WR / 2` assignments, and `OpCode` has three
values); the return of a negative count from `ibv_poll_cq`, which the code stores
in a `size_t`; failures of the event channel. `outstanding_rdma_reads_` is an
unbounded integer: flow control keeps it below 8192, and it falls below zero at
most when a freed record is read. The code then compares a sum without sign, for which a negative one is
no room (`HasRoom`).

The constant `Faults` says what may go wrong: `"wr"` a work request fails on the
wire, `"post"` the post call returns an error, `"reuse"` the memory of a deleted
`callback_info_t` is handed out again, and `"spurious"` a condition variable wakes
by itself. Reading a deleted record is undefined; the model lets it yield the old
contents or, with `"reuse"`, those of a record that a later `submit` made in that memory
(`Freed`, `Allocate`): never one made before the memory was freed, and no two records share an
address while both live. A failing post posts nothing: that the verb may accept the first work requests of
a chain (`bad_wr`) is left out.

### RDMAConnection

The state is that of each end (`initialized_`, `connected_`, where it is in
`connect`, whether its threads run, the local and the given description of each
queue pair, the maps of local and remote regions), the descriptions it has given
away (`offers`), and the device: the state of each queue pair, the attributes
`connect` gave it (`path`), the regions ever registered (`regions`).

* `InitContext` is `init` from the creation of the queue pairs on: what fails earlier
  leaves nothing that these properties speak of. A queue pair that cannot be moved to
  INIT is logged and left in RESET; one that cannot be created ends `init` with earlier
  ones made (`InitFails`), and a second `init` makes new ones with new numbers.
* `RegisterMr`, `EndpointInfo` and `RegisterRemoteMr` are the calls of those names. A
  description is a snapshot; any that was given away may arrive, at any time.
* `connect` is one step until its loop (`ConnectBegin`, which merges the regions), then
  one step for each `ibv_modify_qp` (`ConnectRtr`, `ConnectRts`), since the peer and
  its reads run meanwhile; `connected_` is set inside the loop, and every error
  returns from the middle. `Launch` follows whatever `connect` returned, as in
  `rdma_endpoint.py:77-78`; the threads leave at once if `connected_` is false.
* `Submit`, `Post` and the device's `Answer`, `Timeout` and `Flush` are a read: an
  unknown local key ends the process (`get_mr` returns a null pointer, which is
  read), an unknown remote key yields a region of zeros.

Callers are assumed to describe, register and connect only a context whose `init`
returned 0, not to register while `connect` runs (the maps have no lock), and to hand
over unchanged descriptions of the right peer. The device, external: it takes
INIT to RTR to RTS only, and an address vector only for the queue pair's own port; a
work request posted to a queue pair that is not ready gets no completion; a request
for an unknown region puts both queue pairs into the error state; when no queue pair
that is connected back answers, the retries run out.

`Faults` says what may go wrong: `"init"`, `"modify"`, `"reconnect"` (a second `connect`
aborts the process) and `"crash"`. `Patient` says whether callers wait for both ends and
for the regions before they read. Bounds: `MaxMr` registrations of a key, `MaxInit`
creations of the queue pairs. Abstracted: `path_mtu`, pkeys, access flags and timeouts,
lengths and offsets of regions.

### PyEndpoint

Python threads run `read_batch` and `read_batch_with_callback`; a step is what happens
between two points where the GIL may change hands. `submit` releases the GIL, takes
`assign_queue_mutex_`, copies the callback into its record (for a Python function this
needs the GIL again), queues it and returns under the GIL; only then the handle is stored
in `assignment_with_callback` under `id(callback)` (`SubmitReturn`). The dispatcher posts
and pops with the mutex held, and the pop that drops the last handle destroys a Python
callback, which needs the GIL (`WqPop`). Its wait is the one of `RDMAContext`: the predicate and the block
are two steps (`WqBlock`, `WqPark`) with the mutex held. The completion thread calls the user's function
(`CqCall`), then deletes the entry (`CqDelete`), which raises `KeyError` when there is none; an
exception ends the thread. `stop` calls `stop_future`, bound without a release of the
GIL, so the lock stays taken (`GilFree`) from `StopBegin`, which stores the flag, to `StopCqJoin`; it
notifies the dispatcher in a step of its own (`StopNotify`), without the mutex, and may come too early here as well.

Abstracted: one dispatcher stands for the four; a batch is one piece; the device completes
in order and without errors, since the status of a callback is not looked at here.
`StopWhen` says when a caller stops: never, at any time, or when all it submitted has been
called back.

### RDMAScheduler and GidTable

Both processes of `scheduler_bench.cpp`. `Hosts` says what each may be: the GID tables of
its devices, the number of sockets and of threads per socket, from which groups,
schedulers and contexts per scheduler are computed as the program does (`Groups`,
`Schedulers`, `Width`). A process builds its schedulers (`Construct`), and for one after
the other sends its description, receives one, and connects context by context
(`SendInfo`, `RecvInfo`, `ConnectContext`, `AfterConnect`). The initiator submits
`Concurrent` reads to every scheduler in turn (`Submit`), waits for all, goes into another
round or says TERMINATE, checks its buffers and deletes its schedulers; the target waits for
one message. What `init` and `connect` return is ignored, as in the code: a device
without a GID ends the process, a context without a queue pair ends it at `connect`, one whose first queue
pair did not connect has threads that return at once ("idle"), one that failed on a later queue pair runs with
some that are not ready ("half"). The destructor stops the contexts in order (`Delete`), and each stop may hang
as it does in `RDMAContext` (`DeleteHangs`). Contexts are external here and answer reads as the other
two models say they do. `transfer_bench.cpp` is the case of one context, without the
scheduler.

`FindSgidType` is the loop of the code with its `sgid_family` that is never reset, checked
against `GidSearch` for every table of up to two entries and for longer ones that show the
effect. In the host's use of it a table decides whether the context works (`Gidx`).

### NVLinkContext

An address is an allocation and a position in it; a CUDA IPC handle names an allocation,
and opening one gives its start. `RegisterMr`, `EndpointInfo` and `Connect` fill the maps;
`Read` looks both regions up with `operator[]`, which inserts a zero region for an unknown
key, and enqueues a copy. A description of a zero region opens no handle and leaves the
remote pointer uninitialised (`Wild`); that a real handle can be opened, however often, is assumed
(`cudaIpcOpenMemHandle`'s result is ignored, `memory_pool.cpp:28`, so a failure would leave that pointer
uninitialised, too). Lengths are not modelled: of a copy, the model has where it starts. `Copy` is the stream; `Finish` waits for it, as looking
at the data does; `Leave` follows the "terminate" of `example/p2p_nvlink.py`. `registered`
and `missed` are history variables used by properties only.

### Properties

Of the data path:

| Property | Says |
|---|---|
| `TypeOK` | types of all variables |
| `FlowControl` | the counter stays below `MAX_SEND_WR`; the room a dispatcher tested is there when it charges it |
| `SendQueueRoom` | work requests in a send queue, with the uncounted one of the stop, never exceed `MAX_SEND_WR` |
| `Accounting` | the counter equals the assignments really in flight, also through errors, and with sends whose room is never given back |
| `FifoPipeline` | nothing is lost, duplicated or overtaken between `submit` and the completion thread |
| `CallbackExactlyOnce` | a read has been called back once if its last piece has passed, else never |
| `NoLostEvent` | the completion thread never blocks while completions wait without an event |
| `RecordLiveWhenCalled` | a request's callback is called on a live record if its caller keeps the handle |
| `SuccessMeansData` | SUCCESS, reported for the last piece only, means that all pieces arrived |
| `StopQuiesces` | nothing runs after `stop_future` returned |
| `EveryReadFires` | every read submitted is called back, unless a stop drops it or sends have used the room up |
| `StopReturnsUnlessStuck` | `stop_future` returns, or has lost one particular notification, or a dispatcher waits for room that sends have used up |
| `ImplementsReadService`, `ImplementsLiveReadService` | refinement of `ReadService`: one report, truthful, no write after it, none after the stop returned; and live while it serves |
| `WaitedDataIsThere`, `StopTerminates` | what documentation and assertions expect and the code does not do, see below |

Of the connection:

| Property | Says |
|---|---|
| `TypeOK` | types of all variables |
| `Paired` | a queue pair that was given a peer has the peer's queue pair of the same index, with the packet sequence numbers each side expects, whichever descriptions were exchanged and however often `init` was tried |
| `PathLeadsToPeer` | it sends to the port where that queue pair is |
| `ReadyPrefix` | queue pairs become ready in order, `connected_` goes with the first, threads run only where the first is ready, through failures and through errors that the peer's reads cause in the middle of `connect` |
| `ConnectionIsFinal` | what `connect` leaves behind changes only into the error state: a connection half made is never completed |
| `RemoteRegionsServed` | a region a context would name is one the peer's device serves, also after keys were registered again and old descriptions arrived |
| `EveryReadAnswered` | if the device takes what `connect` asks, a read that the threads see is answered, whatever the peer does; only if a failing read of the peer has disturbed `connect`, all queue pairs must be ready |
| `PatientReadsSucceed` | reads of patient callers succeed unless a process dies or a hasty read has broken the queue pair |

Of the Python endpoint:

| Property | Says |
|---|---|
| `TypeOK` | types; who holds the mutex |
| `HandleHeldUntilCalled` | the handle of a batch with a callback of its own is kept from the moment it is stored until the callback has run, and not longer |
| `EntryFoundUnlessOvertaken` | the completion thread misses an entry only when it overtakes the storing thread, or when callbacks are shared |
| `StopReturnsWhenSettled` | `stop` returns if no Python callback is owed, or has lost the one notification of the dispatcher for good |
| `ImplementsLiveReadService` | Python sees a live `ReadService` until it stops or the completion thread dies; each batch is called back at most once |
| `EveryBatchCalledBack`, `StopReturns` | what the example and the documentation expect and the code does not do |

Of the scheduler:

| Property | Says |
|---|---|
| `TypeOK` | types; nothing computed from the layout leaves its range |
| `PairedByPosition` | a connected context is connected to the one of the same position, which exists, on hosts that need not be alike |
| `EarlyReadsOnlyLast` | only reads through the last scheduler can come before the peer has connected |
| `TargetOutlivesReads` | the target's memory stays while reads are under way |
| `RoundRobinBalanced` | the contexts of a scheduler get equally many reads, up to one |
| `GidSearchCorrect` | the search passes over no suitable entry, and finds another only behind an IPv4 entry of another type: it describes the wrong match of `ibv_helper.cpp:118` rather than denying it |
| `FinishesUnlessTrouble` | unless hosts differ or a failure was ignored, both processes come through the exchange and the rounds to their shutdown, which ends or hangs in the stop of a context |

Of NVLink:

| Property | Says |
|---|---|
| `TypeOK` | types; what a key may name |
| `CopiesWithinRegions` | a copy starts in regions registered under its key, at the offsets asked for, if the remote one was registered by the start of its allocation and never read before it was registered |
| `WildOnlyAfterMiss` | wild remote pointers come only from a peer that read a key before it had registered it |
| `SourceOutlivesCopies` | no process takes its memory away while its peer copies from it |

## The runs

The data path: two or three requests of one to four assignments; `MAX_SEND_WR` is 4
or 5, so a piece holds two, longer requests need two pieces, and the send queue is
full with two pieces in it; `POLL_COUNT` is 1 or 2, so polling in several rounds and
several entries in a round both happen; one or two queue pairs. Two callers are
enough for every race the code has between callers: they meet at the cursor and at
one mutex.

The connection: two ends, since a context has one peer; two queue pairs, so that
`connect` can fail between them, and the default four where it matters how many are never
reached (`reads`); one key, registered once (`RegionsStayServed` covers any number of
registrations); two packet sequence numbers where a wrong one must show; two creations of the
queue pairs, so that a retry follows a failure.

Python: two threads, a batch with its own callback, two that share one and one without, so that
every pair of uses meets. The scheduler: two sockets or fewer, two threads or fewer, up to
three devices, in layouts that agree in the number of schedulers and differ in their
contexts, and the other way round (two schedulers of two contexts at the initiator only, where the
target's differ); two concurrent reads over one to three contexts in two rounds, so that the
round robin wraps around in the middle of a round. NVLink: two reads at each end, one key, two
regions at one end, of which one is registered by an address inside its allocation.

`CHECK_DEADLOCK` is off because all threads may rightly be blocked, waiting for
work that no caller submits, and because ends may rightly have nothing left to do.

| Run | Instance | Shows |
|---|---|---|
| `two_qps` | 2 reads, 3 pieces together, 2 queue pairs, failing work requests, spurious wake-ups | flow control, accounting, order, callbacks, record lifetime, events, meaning of SUCCESS, refinement, when callers share a queue pair or take one each and one completion thread serves both |
| `stop` | a read in 2 pieces and a send, 1 queue pair of 4, failing work requests, stop at any time, fair | the stop's own work request fits; callbacks stay exact; silence afterwards; every read is called back until then; the stop returns unless the wake-up is lost or the send has used the room up |
| `all_faults` | send, receive and read, all faults, stop | the state stays well formed whatever happens |
| `connect` | 2 ends, 2 queue pairs, all failures of `init` and `connect` | who is connected to whom, in what order, and that it is final |
| `reads` | 2 ends, 4 queue pairs, a hasty read at one and a patient one at the other, crashes, fair | regions stay served; an error in the middle of the peer's `connect`; every read is answered unless that error left its queue pair unready; the patient one succeeds unless a process dies or the hasty one failed |
| `python` | 2 threads, 4 batches, callbacks that may raise, stop at any time, fair | handles are kept as long as needed; `KeyError` only in the one race; `stop` returns when nothing is owed and its notification is heard; a `ReadService` |
| `scheduler` | 2 hosts of several layouts and GID tables, failing queue pairs and connects, slow peers, fair | pairing, early reads, memory that outlives reads, balance, GIDs, termination up to the stop of the contexts |
| `nvlink` | 2 processes, 3 allocations, 2 reads each | which bytes a copy takes and where it puts them |

The largest passing run has about 1.1 million distinct states (`all_faults`); the others
have between 60,000 and a million, and all finish within three minutes.

Fairness, data path: weak fairness of each thread, of `launch_future`, of the steps of
a stop once begun, and of the device on each queue pair. Threads are operating
system threads that are never disabled by one another for good, and a reliable
connection completes or fails every work request after bounded retries. There is
no fairness for submitting or for starting a stop, and none for spurious
wake-ups. A caller that waits for `assign_queue_mutex_` gets it: the dispatcher
releases it after finitely many pieces, so weak fairness suffices. The connection:
weak fairness of `connect` once begun and of `launch_future`, of the dispatcher and of
the device for each read; none for starting anything, for the peer, or for crashes.
Python: threads run when they can, the interpreter hands the GIL to those who wait for it,
the device completes what is posted; nobody must read or stop. The scheduler: both
processes run, and contexts call back what they can; nothing says which fault happens. Of a "half" context,
whose unready queue pairs complete nothing, that is too much; `FinishesUnlessTrouble` claims nothing then.

### Findings

Four runs state what the repository says and the code does not do; each ends in a
counterexample.

* `stop_hangs`: a dispatcher tests its predicate; `stop_future` stores the flag and
  notifies, without the mutex (`rdma_context.cpp:291-292`); the dispatcher blocks;
  the stop joins for ever.
* `freed_record`: pieces other than the last are deleted when they are popped, while their chains are in
  flight (`rdma_context.cpp:519`, `:582`). A request of two pieces is waited for; its first piece has been
  popped when another caller submits a request, whose record is made in that memory; the
  completion of the first piece calls that record back, and the second caller's `wait()` returns before its
  data has moved. Nothing fails.
* `overtaken`: a callback that runs before `read_batch_with_callback` has stored its handle
  (`rdma_endpoint.py:147`) ends the completion thread with `KeyError`; no later batch is called
  back.
* `gil_deadlock`: `stop_future` is bound without releasing the GIL (`bind.cpp:61`) and joins
  threads that need it, even when the caller has awaited every batch: the callback has run, but the completion
  thread has yet to delete its entry. (That no notification is lost is part of the property.)

Seen while modelling, with no run of their own:

* The result of a failing post is ignored (`rdma_context.cpp:576`): SUCCESS of the last
  piece may then be reported for a batch of which a piece was never posted.
* `wait()` cannot tell a failed read from one that arrived, since the default callback drops the
  status (`rdma_assignment.h:37`); `read_batch` documents a status that it does not return.
  `wait()` on a handle that was given a callback never returns.
* Sends and receives carry `wr_id` 0, are never called back, and their room is never given
  back (`rdma_context.cpp:373`, `:410`; `CqSkip`). `send_async` and `recv_async` construct an
  `Assignment` with arguments that the binding does not take, so from Python they raise first.
* On InfiniBand the address vector gets the local lid (`rdma_context.cpp:230`); on a port other than
  1 `connect` cannot succeed (`:226`; `MayEnterRtr`).
* When `connect` fails on a later queue pair the threads run all the same and submit to queue
  pairs that are not ready, because `connected_` is already set (`:268`). The peer can bring this
  about with one early read of a region this end has not registered: the error it causes finds a
  queue pair between RTR and RTS (`:262`), and with three or more queue pairs reads on the later
  ones never complete. `EveryReadAnswered` says so in its condition.
* The completion queue is created with `MAX_SEND_WR + MAX_RECV_WR` = 16384 entries (`:136`). It may be
  asked to hold `QpListLen * (MAX_SEND_WR - 1) + 1` (`CompletionsAreBounded`): enough for two queue pairs,
  while the default four may need 32765, if single reads fill them and the completion thread is slow.
* Further ways into the GIL deadlock: `submit` copies the callback with the mutex held
  (`:348`), and the dispatcher may destroy the last Python callback with it held (`:582`).
* The device may still move data into a buffer after `stop_future` has returned, since posted
  work requests are neither awaited nor cancelled.
* `nvlink_endpoint.py:30` passes a key and a description to `register_memory_region`, which takes
  other arguments. NVLink combines offset and address differently at the two ends of a copy.
* In the scheduler's program, hosts started with different numbers of threads name buffers by
  different keys; devices beyond a multiple of the number of groups are not used; TERMINATE received
  where a description is expected is no JSON and throws.

## The proofs

`RDMAContextProofs` holds for every finite nonempty set of requests, any batch
of at least one assignment, any opcodes and usages, any number of queue pairs, any `MAX_SEND_WR` of at least 2,
any positive `POLL_COUNT` and any set of faults (`ConstantsAssumption`), and for any
`NULL` that is no piece (`NullAssumption`).

* `PieceShape`: every piece has between 1 and `MAX_SEND_WR \div 2` assignments and
  stays within its batch. It rests on two facts about integer division and
  multiplication.
* `TypeCorrect` and `FlowControlHolds`: the inductive invariant is `TypeOK /\
  FlowControl`. They need each other: the head of a queue that is posted and
  popped exists because `FlowControl` says so, and room is a number because of
  `TypeOK`. `FlowControl` is inductive because it carries the tested room from
  `WqReserve` to `WqCharge`: between them the dispatcher owns the mutex, so the head
  stays, and everybody else only lowers the counter (`FlowControlFrame`). It does
  not depend on the counter being exact, which is why it survives failing posts
  and freed records.
* `NoEventIsLost`: `NoLostEvent` is inductive given the types. Its second part, that
  an unarmed queue always has an event pending or a thread about to arm it, is what
  makes the first one inductive.
* `NoDispatcherSleepsOnWork`: a dispatcher that blocks, or is about to, has an empty queue
  (`AwakeForWork`), so no `submit` goes unnoticed. That is what the mutex around test, wait and push is for;
  the flag of the stop, stored without the mutex, has no such theorem (`stop_hangs`).

`RDMAContextCallbackProofs` adds, under the same assumptions and as long as no post fails and
no freed record is handed out again (`Reliable`: with either fault the statements are false, as
`freed_record` shows of the second), what callers rely on. Failing work requests, spurious
wake-ups and a stop at any time are included.

* `CalledBackExactlyOnce`, `RecordsLiveWhenCalled`, `SuccessIsComplete` come from one inductive
  invariant, `CallbackInv`. Its core is `PlaceInv`: a read piece is in at most one place of its queue
  pair (queued, posted, completed or polled, at an index), and behind the earlier pieces of its
  request. `OwnerInv` and `PushInv` explain why: a request is pushed once, by one thread, to one
  queue pair. `CallInv` is `CallbackExactlyOnce` in terms of places, `HeldInv` says that a handle is
  held until the callback, and `DataInv` that what has left the send queue of a working queue
  pair has arrived, so that the completion of a last piece speaks for all of them
  (`LastCompletes`, with `SplitCovers`: the pieces leave nothing out).
* How each step moves pieces is stated once, in the lemmas `PushPlaces` to `TakePlaces`; all
  other steps are `Still` (`StillOrMoving`).

`RDMAContextServiceProofs` builds on that invariant.

* `AccountsAreRight`: `Accounting`, under `Reliable`. The counter is a number and what it counts is
  spread over three queues, so the proof first says when a piece is charged: when it has been taken
  from the queue (`Started`, from the history of what was pushed, `QueueInv`) and, if it is a read,
  has not yet passed the completion thread (`ChargedMeans`). A step then adds or removes one piece at a
  time, and with it as many work requests as the counter moves by (`ContentAdd`, `ContentRemove`).
* `IsReadService`: `ImplementsReadService`, under `Reliable`. `ServiceInv` adds to the accounts that
  the pieces of a read leave in order (`LaterInv`), that a status is set with the callback (`CodeInv`)
  and that a stop that has returned has joined the completion thread (`StopInv`). The phase needs the
  accounts: a context that sends and receives have exhausted stays exhausted (`ExhaustedStays`), so
  that the service never returns from ending to serving (`PhaseStep`).
* `StopLeavesQuiet`: `StopQuiesces`, without `Reliable`: it rests only on which threads have been joined
  (`EndedInv`).

`RDMAContextQueueProofs`, under `Reliable`, is about the order of the queues and the room in them.

* `PipelineIsFifo`: `FifoPipeline` compares what was pushed with what is queued, posted and completed. The
  comparison is one of places: `OrderInv` says that of two reads' pieces of a queue pair the one pushed
  first is further along, and `CallbackInv` that each is in one place. What a step does to the places is
  known (`PushPlaces` to `TakePlaces`), so each step is looked at only for the pieces it moves.
* `SendQueueNeverOverflows`: the counter does not count what is in the send queue. A failed chain gives back
  what its record says, whatever the device reports of it, sends are never given back, and
  `stop_future` posts a work request nobody counts. `LedgerInv` accounts for the work requests that
  name no read: those in the send and receive queues and those reported without an owner are no more than the
  sends and receives that were posted, and one for the stop. Those of reads are counted by piece
  (`PlaceInv` has each in one place). With `Accounting` and `FlowControl` all counted ones are
  fewer than `MAX_SEND_WR`, which leaves the one slot the stop needs.
* `CompletionsAreBounded`: the same ledger over the completion queue. An entry without a record belongs to
  the failed read reported behind it or to the ledger (`Owner`, `Anon`), so each queue pair has fewer than
  `MAX_SEND_WR` entries, the stop's aside.

`RDMAConnectionProofs` holds for any endpoints and peers, any number of queue pairs, keys
and reads, any bounds and any faults (`ConnectionAssumption`).

* `ConnectionTypes`: types, inductive as they stand.
* `QueuePairsArePaired`: `Paired` needs to know why the peer's description is still true
  when it is used. The inductive invariant `PairedInv` adds that descriptions are given
  away by initialized contexts only and equal their queue pairs' (`OffersTrue`), that the
  one in the argument of `connect` does (`GivenTrue`), and that both ends of a queue pair
  that was given a peer are initialized (`BothInitialized`), so that neither `init` can
  replace them.
* `ReadyInOrder`: `ReadyPrefix` is strengthened with where `connect` is: the queue pairs
  before its index are ready (`LoopInv`).
* `ConnectionStaysFinal`: an action property, from the types and `BothInitialized`: a context
  with `connected_` is initialized, so `init` and `connect` are both refused.
* `RegionsStayServed`: regions named in descriptions are registered (`NamedServed`), and
  registrations are never taken back.
* `PathsOnRoCE`: `PathLeadsToPeer` under the assumption that the link is RoCE and every
  port is 1 (`OnRoCE`).
* `PatientReadsAreSafe`: the safety half of `PatientReadsSucceed`, on RoCE and between two ends each of which is
  the other's peer (`Mutual`). `TroubleInv` says where trouble comes from: every queue pair in the error state
  is spoilt by a death or by the read of a caller that did not wait (`ErrorsSpoil`), and a patient read on a
  queue pair that is not spoilt finds both ends in RTS and, with `RegionsInv`, a region that is served
  (`Attended`). With `Paired` and `PathLeadsToPeer` the device answers it from the right queue pair.

`RDMASchedulerProofs` holds for any two hosts with any devices, GID tables, sockets and
threads, any number of concurrent reads and rounds, and any faults (`SchedulerAssumption`).

* `SchedulerTypes`: types, inductive as they stand. The layout needs facts about division and
  multiplication (`Layout`): there is at least one scheduler, of at least one context, and the
  round robin and the buffer of a scheduler stay within their ranges.
* `RoundRobin`: the inductive invariant `BalanceInv` says which contexts are one read ahead:
  those up to the last selection.
* `ConnectedByPosition`: `PairedByPosition` holds because the two ends take turns. `ExchangeInv` adds
  what is on the wire: descriptions in the order of their schedulers, each with the number of
  contexts of its sender (`WordInv`), as many as have been sent and not received (`CountInv`); that
  the description in hand is that of the scheduler in hand (`GivenInv`); and that who is
  through has at most as many schedulers as the peer (`ThroughInv`).
* `TargetsOutliveReads`: with `ShutdownInv`, a target that has heard a word leaves an initiator
  that is past waiting, or one with more schedulers, which then never comes to read: the word was a
  description.
* `EarlyReadsAreOfTheLast`: with `PositionInv`, the contexts behind a process in its loop are linked;
  an initiator that reads has received every description, so the target has sent the last one.
* `GidSearchIsCorrect`: tables of any length. What a recursive function computes cannot be shown by
  induction here; the proof takes the first index at which the loop of `ibv_find_sgid_type` ends (`Ends`,
  by the least number principle) and shows that the function returns what it does there.

`NVLinkProofs` holds for any two processes, any keys, allocations, regions, offsets and number of
reads (`NVLinkAssumption`).

* `NVLinkTypes`: types, with what a key may name.
* `WildRegionsComeFromMisses` and `CopiesStayWithinRegions`: the inductive invariant `PoolInv` adds to
  the types that whatever was described (`OffersTrue`) and learnt from a description
  (`RemoteTrue`) was registered at its owner, opened, or is what a miss left.
* `SourcesOutliveCopies`: a process that has left has a peer that has finished, and one that has finished
  has an empty stream (`EndInv`).

`PyEndpointProofs` holds for any Python threads, batches and callback objects, shared or not, for a stop
at any time or never, with callbacks that raise or not (`PyAssumption`).

* `PyTypes`: types, with when the completion queue may hold the entry that wakes the completion thread
  (`WakeInv`): what it polls before the stop is a batch.
* `HandlesAreHeld`, `EntriesAreFound`: `HandleHeldUntilCalled` is not inductive. `OwnInv` adds that a batch
  is with at most one Python thread and stored under its own callback; `WayInv` that between
  `submit` and its callback it is in exactly one place (`At`, `OnePlace`) and not yet called, so
  that no callback comes twice; `HeldInv` that a callback that is over, and did not end the
  thread, found its handle stored.
* `PythonSeesReadService`: the same invariant gives `Service!Spec`, the safety part of
  `ImplementsLiveReadService`, and that no batch is called back twice.

Every invariant and action property of the passing runs is stated by a theorem. Only model-checked are
the properties that need fairness, which are out of the prover's reach: `EveryReadFires`,
`StopReturnsUnlessStuck`, `EveryReadAnswered`, `PatientReadsSucceed` (whose safety half is proved),
`StopReturnsWhenSettled`, `FinishesUnlessTrouble`, and the refinements of the live `ReadService`, whose safety
part is proved (`IsReadService`, `PythonSeesReadService`).

## What is left

* What of the theorems under `Reliable` survives failing posts: `SuccessMeansData` does not, `FifoPipeline`
  loses a piece, `SendQueueRoom` may hold in a form that rests on `FlowControl` alone.
* A completion queue of bounded capacity (`rdma_context.cpp:136`) with more than two queue pairs, and
  what the device does when it overflows.

## Not modelled

* JSON and its Python conversion, logging, device discovery: data conversion and I/O. Most lines of
  the repository are the vendored `csrc/utils/json.hpp`; the engines, which carry its logic,
  are modelled.
* `offloading`, `topology`, `chunk`, `tcp_endpoint.py`: empty or without behaviour.
* `message_passing/sendrecv.py` imports a class that does not exist in `rdma_endpoint.py`;
  `example/sendrecv.py`, `tests/python/ops/sender.py` and `receiver.py` import what the
  package does not export. None of them runs at this commit.
* The data race on the region maps (`memory_pool.cpp:26`): concurrent insertion into an unordered map
  has no set of outcomes to enumerate. Callers are assumed not to register while a dispatcher
  looks keys up.
* `unregister_memory_region` and its kin are called by nothing.
* What happens when the completion queue overflows (`rdma_context.cpp:136`): the model's is unbounded, and
  `CompletionsAreBounded` says how far it can fill.
