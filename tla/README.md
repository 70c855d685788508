# A TLA+ model of pump (librabbit)

pump is an asynchronous, callback-based network library in C++ for tcp, tls and
udp transports, timers and posted tasks, with http and websocket on top. Its
difficulty is concurrency without locks: two poller threads, a timer thread, a
timer-callback thread, a task thread and any number of application threads
meet in atomic counters, compare-and-swapped states and lock-free queues.
These modules model that core and what is built on it, check it with TLC on
small instances and prove part of it with TLAPS for every instance.

All paths below are relative to the repository; `toolkit/` stands for
`src/include/pump/toolkit/`, `transport/` for `src/src/transport/`,
`http/` for `src/src/proto/http/`.

## 1. Inventory

How the parts interact:

```
 application threads                      service
   | send / async_read / stop     +----------+-----------+-------------+
   v                              |          |           |             |
 transports, dialers,      read poller  send poller   time engine   task worker
 acceptors, http           (thread)     (thread)      (thread)      (thread)
   | install/start/uninstall ^   ^          ^            | triggered_timers_
   | tracker, post event     |   |          |            v
   +-------------------------+---+----------+        timer worker (thread)
                on_read_event, on_send_event,            handle_timeout
                on_channel_event
```

| Component | State it keeps | Operations | What is hard | What makes it correct |
|---|---|---|---|---|
| `toolkit/semaphore.h` `light_semaphore` | `count_`, a kernel semaphore | `try_wait`, `wait`, `wait(timeout)`, `signal` | the counter and the kernel semaphore are changed in separate steps; a timed wait withdraws while a post is on its way | no lost wakeup, no permit made or lost, a negative counter counts the sleepers exactly |
| `toolkit/freelock_m2m_queue.h` | ring of nodes with `next`, `ready`; `head_`, `tail_` | `push` (with extension of the ring), `pop` | slots are claimed before they are filled; the ring grows under readers; ABA | elements come out in claim order, each once, none is stranded |
| `toolkit/freelock_o2o_queue.h` | ring of blocks, one producer, one consumer | `push`, `pop` | growth while the consumer reads | the same, for one producer |
| `toolkit/freelock_queue.h` | a queue and a `light_semaphore` | `enqueue`, `dequeue`, `try_dequeue` | a permit may be of an element behind an unfilled slot | permits and elements agree, `dequeue` finds an element |
| `toolkit/buffer.cpp` `io_buffer` | block, read position, data size, reference count | `write`, `read`, `shift`, `reset`, `refer`, `unrefer` | reference count across threads, position arithmetic | no read outside the data, freed once |
| `src/src/poll` poller, trackers, epoll | event queues with counters, map of trackers, tracker states, epoll registrations | `push_channel_event`, `install`/`start`/`uninstall_channel_tracker`, worker loop | raw pointers in the kernel's table, one-shot registrations, counters beside queues | no freed tracker reached, no event lost, no tracker leaked |
| `transport/tcp_transport.cpp`, `base_transport.cpp`, `flow/flow_tcp.cpp` | `state_`, `pending_opt_cnt_`, `pending_send_size_`, `sendlist_`, `last_send_iob_`, `rstate_`, trackers | `start`, `stop`, `force_stop`, `send`, `async_read`, read, send and channel events | who may send is decided by one counter; stop, failures and a peer that closes race | one sender at a time, no accepted buffer forgotten, one final callback |
| `transport/tls_transport.cpp` | the same with a tls session | the same, with a read channel event | the session may hold data epoll does not know of | the same |
| `transport/udp_transport.cpp` | `state_`, `rstate_`, read tracker | `start`, `stop`, `send`, `async_read`, read event | stop against a read | one stopped callback |
| `transport/*_dialer.cpp` | `state_`, tracker, connect timer | `start`, `stop`, send event, timeout | connect, timeout and stop race; the descriptor moves to the transport | exactly one outcome is reported |
| `transport/*_acceptor.cpp`, `tls_handshaker.cpp` | `state_`, tracker, table of handshakers | `start`, `stop`, read event, handshake steps, timeout | stop against an accept; a handshake that times out as it ends | each connection reported once, stop ends in one callback |
| `src/src/time` timer and engine | timer state, ordered map, queue of new timers | `start`, `stop`, `handle_timeout`, restart, observe loop | stop against a timeout in progress; repeated timers | a stopped timer is not called again, a started one fires |
| `src/src/service.cpp` | `running_`, pollers, engine, two workers | `start`, `stop`, `wait_stopped`, `post` | threads blocked in queues when `running_` is cleared | `wait_stopped` returns |
| `src/src/proto/http` connection, client, server | state, pending packet, cache, callbacks; the client's lock and condition; the server's table | `start_http`, `start_websocket`, `send`, `on_read`, `do_request`, `on_accepted`, ends | bytes cut anywhere, an upgrade while the end comes, answers that come late, callbacks that take the lock of a call | packets delivered as sent and in order, one end, each call gets its own answer and returns |
| http messages, websocket frames | parser state | `parse`, `pack`, `unpack` | input cut anywhere | same result for every cut |
| sockets, address, codec, uri, utilities, C interface, select and afd pollers | none of their own, or other platforms | wrappers, pure functions | - | - |

`PROJECT.json` lists the components with their files and says of each whether it
is modelled, and lists the hazards of the code, each at its line, with the
properties that watch it.

## 2. Modules

| Module | Models | Lines up with the code as follows |
|---|---|---|
| `CountingSemaphore` | what `light_semaphore` promises | `Release(n)` is `signal(n)`, `Acquire` a successful wait |
| `LightSemaphore` | `toolkit/semaphore.h` | one action per load, compare-and-swap, fetch_add and kernel call of `try_wait`, `__wait_with_spinning` and `signal`; implements `CountingSemaphore` |
| `SlotQueue` | what the queues promise one consumer | `Claim`, `Fill`, `Pop`: a slot is claimed in order, filled later, popped in order |
| `M2MQueue` | `toolkit/freelock_m2m_queue.h` | one action per access to shared memory of `push`, `__extend_list` and `pop`; implements `SlotQueue` |
| `O2OQueue` | `toolkit/freelock_o2o_queue.h` | one action per access to the indices and links of the ring of blocks by the producer and the consumer, with their cached copies; implements `SlotQueue` |
| `FreelockQueue` | `toolkit/freelock_queue.h` | composes `SlotQueue` and `CountingSemaphore` |
| `IoBuffer` | `toolkit/buffer.h`, `buffer.cpp` | one action per operation; every byte is its number in the order of writing, 32-bit sums wrap |
| `MCToolkit` | | the classes above in one run |
| `Poller` | `poll/poller.cpp`, `poll/epoll_poller.cpp`, `poll/channel.h` | the worker's loop, the calls of other threads, epoll as a table of registrations; both event queues are `SlotQueue`s |
| `Timer` | `src/src/time/timer.cpp`, `engine.cpp`, the timer worker of `service.cpp` | one action per load, compare-and-swap, queue operation and callback of `start_timer`, `stop`, `handle_timeout` and `restart_timer`; the observer's loop; any thread, and the callback the worker runs, may call the operations |
| `MCReactor` | | `Timer` and `Poller` in one run |
| `MCTcpOverlap` | | the symmetry of the two senders of `TcpTransport` |
| `TcpTransport` | `tcp_transport.cpp`, `base_transport.cpp`, `flow_tcp.cpp` | one action per access to shared state or socket call of `start`, `stop`, `force_stop`, `send`, `async_read`, `on_read_event`, `on_send_event`, `on_channel_event`; the sendlist is a `SlotQueue` |
| `TlsTransport` | `tls_transport.cpp`, `flow_tls.cpp`, `tls_utils.cpp` | extends `TcpTransport` with the session's unread data and the read channel event; sending and stopping are the same code, and the same actions |
| `UdpTransport` | `udp_transport.cpp`, `flow_udp.cpp` | as `TcpTransport`, without a connection |
| `TlsHandshaker` | `tls_handshaker.cpp` | `start` step by step, rounds, timeout, stop; composed by the next two |
| `Dialer` | `tcp_dialer.cpp`, `tls_dialer.cpp`, `base_dialer.cpp`, `flow_tcp_dialer.cpp` | one action per compare-and-swap and call of `start`, `stop`, `on_send_event`, `on_timeout`, `on_channel_event`, and of the tls dialer's handshake; `sync` is a dial through a synchronous dialer |
| `Acceptor` | `tcp_acceptor.cpp`, `tls_acceptor.cpp`, `base_acceptor.cpp`, `flow_tcp_acceptor.cpp` | `start`, `stop`, the accept loop, the table of handshakers and their callbacks |
| `MCConnect` | | `Dialer` and `Acceptor` in one run |
| `HttpMessage` | `http/header.cpp`, `body.cpp`, `request.cpp`, `response.cpp`, `frame.cpp`, `utils.cpp` | the incremental parsers and serializers as recursive functions on sequences of bytes; a line or a header is one symbol, sizes are digits |
| `HttpConnection` | `http/connection.cpp` | `on_read` with the cache, the packet and frame handlers, `start_http`, `start_websocket`, `stop`, both final callbacks |
| `HttpClient` | `http/client.cpp` | `do_request` and `open_websocket` step by step between lock, dial, wait and return; the notifications of both pollers |
| `HttpServer` | `http/server.cpp` | the acceptor's and the connections' callbacks, `stop`, the table |
| `MCHttp` | | `HttpConnection`, `HttpClient` and `UdpTransport` in one run |
| `M2MQueue_proofs`, `O2OQueue_proofs`, `Poller_proofs`, `TcpTransport_proofs` | | theorems about the module they are named after |
| `MCToolkit_proofs` | | theorems about `LightSemaphore`, `FreelockQueue` and `IoBuffer`, and about the toolkit's classes, both rings among them, in one specification |
| `MCReactor_proofs` | | theorems about `Timer`, and about timers and trackers in one specification |
| `MCConnect_proofs` | | theorems about `Acceptor` and `Dialer` in one specification |
| `MCHttp_proofs` | | theorems about `HttpClient`, `HttpConnection` and `UdpTransport` in one specification |

The composition goes by contract. `M2MQueue` and `O2OQueue` are shown to
implement `SlotQueue`, and `LightSemaphore` to implement `CountingSemaphore`;
`FreelockQueue`, `Poller` and `TcpTransport` use the two contracts instead of the
implementations. `TcpTransport`, `Dialer`, `Acceptor` and `UdpTransport` take a
tracker to be a flag (tracked by its poller) and the channel events to be
counted or in sequence; `Poller` justifies both (`EventsHandled`: a tracked
tracker gets its event, and events are handled). `Dialer` and `Acceptor` compose
the actions of `TlsHandshaker` with their own, as both objects live in the same
pollers. A dial of `HttpClient` may connect, fail or never return, which is what a
synchronous dialer may do (`DialEnds` fails for a tls connect that is refused).
It is also seen where the abstraction ends: the worker may abort (section 5).

The MC modules put components that share nothing into one run: a variable `part`
says which of them moves, and the others keep the state they were created in. The
states of a run are the sum, not the product, of those of its parts. Where a
component could move at the start, its fairness is that of the behaviours that
move it.

### What the models leave out

- **Memory order.** Atomics are sequentially consistent, plain accesses take
  effect in program order. The one plain field read in a race, `next` of a queue
  node, may be read twice by a `push` (the compiler may do so), and the model
  takes both. `last_send_iob_size_` is read again after the atomic subtraction,
  as the compiled code does.
- **Spurious failures** of `compare_exchange_weak` change nothing but time.
- **Data.** A transport's buffer is its size, an element is the pair of its
  producer and its number, a datagram or a tls record is a count.
- **External code.** The kernel semaphore, epoll, sockets, the tls library and the
  peer are modelled from how the code calls them: a call takes any of the
  outcomes its caller distinguishes.
- **`LightSemaphore`**: a wait's dead locals are zeroed, nanoseconds are scaled
  by `NsPerSec`.
- **Queues**: `empty()`, which nothing relies on, and the destructors, which run
  alone.
- **`IoBuffer`**: an allocation succeeds (`buffer.cpp:30` returns true when one
  fails, and the first write would use a null pointer), and a buffer is used by
  one thread at a time, as the library does.
- **`Poller`**: the worker's own pushes are one step, as nobody else pops; epoll
  knows a tracker by its descriptor, and each tracker has a descriptor of its
  own; the handlers are those of a transport, an acceptor and a dialer, reduced
  to what they do to the poller.
- **`Timer`**: time is abstract, a deadline passes when it likes, so the
  arithmetic of the engine's clock is left out. With it go two oddities that cost
  only time: a wait in microseconds passed where nanoseconds are expected
  (`engine.cpp:121`), and timers dated with a clock read before they were
  enqueued (`engine.cpp:137`). An enqueue or a dequeue is one step, which
  `FreelockQueue` justifies. A `sync_timer` is a timer whose starter waits;
  callbacks do not start one, as the worker would wait for itself.
- **`TcpTransport`, `TlsTransport`**: the user keeps a reference until the
  transport has ended, so the destructors are not modelled. Opening the flow and
  installing both trackers is one step with two outcomes: no other thread knows
  the transport before it returns. A tls read that must send first is left out.
  The peer of `TlsTransport` stays connected: what a peer that closes does to
  sending and ending is `TcpTransport`'s.
- **`TlsHandshaker`**: whether a round waits to read or to send is left out.
- **`Dialer`, `Acceptor`**: destructors; a failed allocation. The descriptor's
  hand-over to the new transport is one step: the dialer's tracker was
  uninstalled before it.
- **`HttpConnection`**: `send` is the bytes the other end gets; the key of a
  websocket's handshake is left out. `CutSizeLine` and `Pipelining` say which
  cuts and which packets in flight there are. The run has one websocket frame;
  what a second one meets is in section 5.
- **`HttpClient`**: one thread calls (two threads would share one `conn_` and one
  `resp_`: the condition has one waiter's answer).
- **`HttpServer`**: the tls start (section 5) and the text of
  `upgrade_to_websocket`.

## 3. Runs

Deadlock is not checked: each of these systems may come to rest when its bounded
calls are made. The passing runs together fire every action. Only `tcp_overlap` uses
symmetry and a view. Its two senders do the same and nothing orders them, and all its
properties are safety properties that name no sender. The view (`LiveState`)
leaves out locals between their last use and the next assignment, and two
histories that no guard reads: states with the same view have the same steps.
A constraint bounds it: after a packet was read one of the threads does not
send. Reading and sending share only `state_`, `pending_opt_cnt_` and the final
callbacks, and for those one sender beside the reader is enough.

| Run | Instance and bounds | States | What it shows |
|---|---|---|---|
| `toolkit` | semaphore: 2 waiters, each any kind of wait, 2 signallers, batches up to 2, 4 permits in all, one at the start, 1 spin; queue: 3 producers of 2 elements; m2m ring: 2 producers of 3, 1 consumer, blocks of 2, at most 2 of them; o2o ring: 6 elements, blocks of 2, at most 3; buffer: 4 bytes kept, 9 written, sums modulo 13, 2 handles, 2 references | 144 thousand | the invariants that are proved, `NoLostWakeup`, that the semaphore implements its contract and both rings theirs (`ImplementsCounting`, `M2MKeepsOrder`, `O2OKeepsOrder`), and that everything is delivered |
| `reactor` | timers: 1 timer of each kind in turn, 2 users' threads and the callbacks, stop of the service; poller: 2 owners, 1 tracker of each kind in turn, 1 event, or 2 events and one posted by a handler | 93 thousand | a timer has one way to fire, a stop holds, a service's timer threads end; counters agree with queues, no freed tracker is reached (these invariants are proved); events are handled |
| `tcp_overlap` | 2 senders of 1 buffer each, of size 1 or 2, `stop` and `force_stop`, 1 packet to read beside one sender (`ReadsBesideOneSender`), a peer that closes so that sends fail, `sent_cb` set; symmetry of the senders, view | 2.8 million | safety of sending and ending: `Accounted`, `OneActor`, `StopWaitsForOpts`, `OneEnd`, `NothingAfterEnd` |
| `tcp_live` | tcp with 2 buffers and 1 read, tls with 1 buffer and 2 reads out of records of up to 2, once mode, `stop`, a connection that stays up | 82 thousand | `OneRead`, `StopCompletes`, `AcceptedIsSent`, `PendingReadServed` |
| `connect` | a tcp or tls dialer, synchronous or not, with dial and handshake timeouts and a stop; a tcp or tls acceptor with 2 connections, handshake timeouts and a stop; a handshake may time out before its tracker is installed | 71 thousand | the invariants that are proved: one outcome of each dial, the table agrees with the handshakes; `NoLateAccept`, and that everything ends while the send poller lives |
| `http` | connection: 2 packets out of one with a length and one in chunks, cut anywhere but inside a chunk's size line, a wrong line or header, 1 websocket frame, stop, a peer that closes; client: 3 calls over up to 3 connections, each answered, late or lost, waits that end early, dials that hang; udp: 2 datagrams, 2 reads that find nothing | 228 thousand | packets delivered as sent, one end, a call gets its own answer and returns once it has a connection, a pending udp read is served |
| `semaphore_deadline` | 1 and 1, `NsPerSec` 3 | violation | `DeadlineNormalised`: `tv_nsec` reaches a second |
| `tcp_send_sizes` | 1 sender of 2 buffers, of size 1 or 2 | violation | `SendNeverAborts` |
| `tcp_stop_peer` | a peer that closes, `stop` | violation | `StopCompletes` |
| `poller_abort` | 1 poster and a handler that posts | violation | `PollerNeverAborts` |
| `tls_refused` | 1 dialer whose connect may be refused | violation | `DialEnds` |
| `http_server` | 1 connection, 1 request | violation | `RequestServed` |

Why the bounds are enough for the questions asked:

- A semaphore with two waiters has every case of the counter (a permit, none, one
  sleeper, two) on both sides of a batch of two, and a timed wait can withdraw
  while the other sleeper's post is on its way. `NsPerSec` is 1 in the passing
  run: then `tv_nsec` is always in range. With larger values the missing carry
  makes a timed wait fail at once, again and again, and a permit can be passed
  round for ever without reaching the sleeper: `WakeupDelivered` fails.
- A ring of two blocks of two has every relation of `head_` and `tail_`, an
  extension in the middle of another producer's push, and a failed extension.
  Three pushes of two producers go round once, and `HeadsFresh`, the hypothesis of
  the theorem about this ring, holds in this instance; with five, the ABA case of
  section 5 appears. Six pushes into an o2o ring of up to three blocks fill a
  block, link a new one, come round to the first and find the ring full.
- Nine bytes written to a buffer whose user keeps four of them meet all five cases
  of making room; the bound of the assumption (three times the limit below the
  modulus) is tight at 13, so that a sum that is too large would wrap.
- Two senders with a buffer each, of two sizes, have every step of the handover of
  the chance to send: a sender sends its own, the other sender or the poller
  sends the rest or goes on with the second buffer. They also meet both cases in
  which the code loses it, a stale read of `last_send_iob_size_` and a push that
  overlaps another's; `astray` records the step at which that happens, and
  `Accounted` and `OneActor` say what holds up to it. Two buffers of one sender are
  in `tcp_live` and `tcp_send_sizes`.
- One read at a time is asked for in `tcp_live`, in once mode, where the read state
  is freed before `read_cb` and the next `async_read` may overlap it: `OneRead`.
- Two reads out of one record leave data in the session while the socket has
  none, which is the case `PendingReadServed` is about.
- One tracker meets every relation of its own life to the worker: armed, fired
  and pending, dispatched, restarted, uninstalled by the handler or by either
  thread, or destroyed by the worker as it drops the last reference. Trackers
  share nothing but the event queue, which two owners and the worker fill. A
  second event from the poster is in the queue while its handler posts a third.
- One timer with two threads and its own callback has every race of start, stop,
  drop and timeout. Timers share only queues and threads; `IInv` and `StopHolds`
  also hold with two timers and one user (without the liveness properties, which
  take too long there).
- Two connections of an acceptor make a stop meet one handshake in the table,
  one that ends, and a connection being accepted. A dial has one connect.
- Two packets have every cut of the first, with and without bytes of the second
  behind it in the cache. Three calls are a call that times out or is woken early,
  a call during which its answer comes late, and one on a fresh connection.

### Fairness

- A thread inside a call keeps running (`WF` of its step). No fairness is assumed
  of calls being made: nobody has to send, wait, signal, dial or stop.
- Consumers keep consuming: a queue's consumer calls `pop` or `dequeue` again,
  the poller's worker loops, as its code does until it is stopped; `epoll_wait`
  has a timeout of at most 3 ms.
- A poller's loop turns to sockets and to channel events again and again, and
  neither can shut out the other: `SF` of `SendEvent` and `ChannelEvent` in the
  transports, the dialer and the acceptor, and of the notifications in
  `HttpClient`.
- A connection that stays up does not stay full for ever (`SF` of `NetSend`), the
  operating system answers a connect (`NetAnswers`), and timers that were started
  and not stopped run out, which is `StartedFires`. A peer has to do nothing: in a
  handshake it may be silent, and only the timeout ends it, which is why
  `HandshakeTimeout` is `TRUE` in these runs.
- `Timer` has fairness of the observer, the worker, calls in progress and the
  passing of deadlines, and strong fairness of the return of a callback: user
  code does not start and stop timers for ever in one callback.
- `LightSemaphore` has fairness of the waiter's and signaller's steps and strong
  fairness of taking a post, as the kernel's queue of sleepers is fair;
  `HttpClient` of waking up, as the wait has a timeout.

## 4. Proofs

TLAPS proves for any number of threads and any bounds:

**`LightSemaphore`** (in `MCToolkit_proofs`). `IInv` is the conjunction of `TypeOK`, `LocalsInv`
(what a control state says of the locals), `SleepersAccounted` and
`PermitsConserved`. `SleepersAccounted` is the heart: the number of sleepers
equals what a negative `count_` says, plus the posts in the kernel semaphore,
plus the posts signallers still owe. It is not inductive by itself: a compare-and-swap that
takes a permit succeeds on a value loaded earlier, and `LocalsInv` says that it
was positive; and the posts owed are a sum over signallers, whose change in one
step is a lemma. From `Invariance` follow `TypeCorrect`, `SleepersAlwaysAccounted`,
`PermitsAlwaysConserved`, `NoWakeupLost` (a waiter sleeps with a permit left
only if something is on its way to wake it) and `RefinesCounting`: the initial
states and each step map to `CountingSemaphore`, with the permits of the
abstract semaphore being those signalled and not yet acquired.

**`FreelockQueue`** (in `MCToolkit_proofs`). `FreelockInv` is `TypeOK` and `PermitPerElement`: as
many slots as permits, enqueues in progress and the pop in progress together. It is
inductive; the leaves are facts about the length of a sequence and the
cardinality of the set of busy producers. From it `PopFindsSlot`: a `dequeue`
that has a permit is never left with an empty queue.

**`IoBuffer`** (in `MCToolkit_proofs`). `BufferInv` is `BufferContent` (types, the data inside the
memory, the memory at most three times the limit, `data()` as written),
`BufferReferences`, and `Kept`: what lies in front of the data was taken before,
without which a shift to the left could give more than was ever written. `RoomFits`
says of each way of making room where the data is then, by the arithmetic of the
new size (`Growth`); `Copied` and `PutKeepsContent` carry the content over. The
assumption is that three times what a user keeps in one buffer is below 2^32.

**`O2OQueue_proofs`.** `RingInv` orders the ring without a history of it. An element
is the number of its push, so that "in order" is local: what a block holds is
consecutive (`BlocksInOrder`), and a block goes on where the one in front of it
ends, from `blk_head_` to `blk_tail_`, with only empty blocks between `blk_tail_` and
`blk_head_` (`RingInOrder`). No step needs more than one block and its successor.
`CopiesBehind` says that a cached position is behind the real one on the ring of
positions: the producer's copy of a head leaves it at most the room there is, and
the consumer's copy of a tail shows it at most the elements there are, except
between the step to the next block and its new look at the tail (`moved`).
`PushLocals` says that an element is written before the store that shows it,
also when that store is the one of `next` or of `blk_tail_`. From it `OldestTaken`
(`TakesOldest`) and `RefinesSlotQueue`: the store that shows an element fills
the slot, and a pop takes the first slot, which is filled. For blocks of any size
and any number of them.

**`M2MQueue_proofs`.** `QueueInv`, with one consumer, says that the nodes of the
allocated blocks form one ring (`RingLinked`); that the claims lie on the nodes
behind `tail_`, one after another (`ClaimsFollowTail`), on nodes that differ
(`ClaimsApart`), up to `head_` or the node it is locked at; that one push at most
has `head_` locked and extends the ring (`LockerOk`); that each push which has
claimed a slot owns that claim alone (`ClaimsOwned`); and that `ready` is 1 on a claimed
node only if it holds this claim's element, not one of an earlier lap
(`ReadyHolds`). A claim is a compare-and-swap of `head_` with a `next` read
earlier, and this is right only if what was read is still so: `HeadsFresh`, no
push succeeds on a `head_` that went round the ring since. It is a hypothesis and
not part of the invariant because the code does not guarantee it, see the ABA
case in section 5; `QueueInvariance` and `QueueOrder` are about the behaviours in which it
holds. `OneProducerIsFresh` discharges it for one producer: nobody else moves
`head_`, and `ProducerOk` says that what the producer has read still is so. TLC
checked `QueueInv`, under the constraint `HeadsFresh`, with two producers of three and of five
pushes and with three producers, and `QueueInv`, `ProducerOk` and `HeadsFresh`
with one.

**`Timer`** (in `MCReactor_proofs`). `SInv` is `TypeOK`, `Locals` (what a control
state says of the locals, and that whatever is on its way to `handle_timeout` has
its engine set) and `PendingHandled`. It is inductive without counting, and
already gives `PendingIsHandled` and `StopIsFinal`: a compare-and-swap never
expects `stopped` (the value a starter loaded is `none` or `finished`), so no step
leaves it, and the worker decides on a callback (`Decided`) only by a
compare-and-swap to `finished` or, in a restart, to `started`; a stop behind that
one still meets a callback that has not begun. `IInv` adds `OneEntry`:
the ways of a timer to `handle_timeout` are counted by `Entries`, a sum of
threads about to enqueue it, places in `new_timers_` and in the lists of
`triggered_timers_`, and the sets the observer and the worker hold. A timer moves to
`started` from `none`, `finished` or (in a restart) `pending`, in which states the
count is zero, and so has one entry; every later step moves one entry from one
place to the next, with a lemma for each place (`CountAppend`, `CountTail`,
`StartingChange`). `TimerInvariance` is the theorem.

**`Poller_proofs`.** The invariant is proved in two halves. `QInv` (types and
`CountersMatch`): as many slots in a queue as its counter says, plus what the
worker has taken and not popped, plus the threads between claiming a slot and
raising the counter. `Trk` is about trackers: what an owner or the worker has at
hand (`OwnerLocals`, `WorkerLocals`), that what is registered, queued or pending
was installed (`Installed`), and `MappedOrOver`: an installed tracker is in the
worker's map, or will be, and nobody removes it - or it is over, which means that
nothing arms it again. `MappedOrOver` makes `TrackerAlive` inductive: a tracker that
epoll knows is not over, hence in the map, or its append event holds a reference;
one that is pending is in the map or its removal is still queued, and the worker
does not pop it before it has dispatched the whole array. From it
`TrackersStayAlive`, and with the marks of the trackers `TrackedStaysArmed`. These
hold although the worker may abort (section 5).

**`Acceptor`** (in `MCConnect_proofs`). `HandshakerOk` says of each handshaker that
one channel event at most is ever posted for it (`toPost + events` is one while
its state is `timeouting` or `stopping`, unless its owner is finishing it, and
zero otherwise) and that its end is told once; `TableOk` that the table has every
handshake in progress while the acceptor is started, and that what it has is
started, or starting in the read poller, or about to be told; `ConnectionsMatch`
that connections to come, waiting, in the table and handed over are together no
more than `MaxConnects`. It takes all three: a handshaker is removed by the
callback of its end, which comes once because of the first and finds the
connection in the table because of the second. From it `AcceptorStaysRight`, and
with `NotLate` (after `stopped_cb` the state stays `stopped`, and the send poller is
not handing a connection over) `NothingAcceptedLate`.
A handshake may time out, fail, succeed or be stopped in any order; it may also
time out before `start` has installed its tracker, and then the send poller is at
the assertion of `__handshake_finished` and goes no further, which both theorems
cover: neither has a hypothesis on timers (section 5 says what a release build
does there). A connection that is accepted while `stop` destroys its handshaker
(`UseDestroyed`, section 5) leaves the read poller undefined; the theorems are
about the rest of the state from then on. `NothingAcceptedLate` is about the tls
acceptor: a tcp acceptor hands over what it was accepting when `stop` was called.

**`Dialer`** (in `MCConnect_proofs`). `EventMatches` is the heart: `timeouting` and
`stopping` are left by one channel event, which is about to be posted or queued,
and in no other state is there one; so the two compare-and-swaps that race for the
end of a dial leave one winner, and its callback. `ToldOk` ties what the user was
told to the state; `DialPollerOk` and `DialHandshakerOk` say where the send poller
is in a handshake, without which a timeout of the handshaker and the end of its
last round could both tell. `DialHasOneOutcome` has no hypothesis on timers, and
holds for refused connects too, of which the user is told nothing (`DialEnds`, a
liveness property, is where that shows).

**Compositions.** `TimersStayRight`, `PollerStaysRight` and `TrackersStaySafe` carry
these invariants to the specification of the run `reactor`, `SemaphoreStaysRight`,
`FreelockStaysRight`, `DequeueHasSlot`, `BufferKeepsContent` and
`BufferKeepsReferences`, `M2MRingKeepsOrder`, `M2MOneProducerKeepsOrder` and
`O2ORingKeepsOrder` to that of `toolkit`: each step of the composition is one of
the part that moves, or leaves the variables of the others alone.

**`TcpTransport_proofs`.** `EndInv` says who may make the final callback: `start`
is done once (`StartOrder`), a poller at a callback has moved the state to one that
nobody leaves and is the only one there (`FinalIsOwned`), afterwards the socket is
shut down both ways (`EndIsFinal`), and a stop that won its compare-and-swap keeps
the state at `stopping` or `stopped` (`StopIsKept`). From it follow `EndsOnce`
(`OneEnd`) and, since a write needs an open socket, `NoWriteAfterEnd`
(`NothingAfterEnd`). `OptInv` adds that `pending_opt_cnt_` is the number of senders
between entering and leaving, plus one for an `async_read`; a `stop` that saw zero
finds nobody there, and by `StopIsKept` nobody passes the look at the state
afterwards: `StopWaitsForOperations`. A step that only moves one thread along is
treated once (`Quiet`). `ReadHeld` states `ReadChance`, the half of `OneActor` about
reading, with its holders two by two and with what the read poller knows of the
state behind `try`; it gives `PendingReadIsHeld`. These hold for any number of senders and any sizes.

Sending is the other half. `pending_send_size_` is both a count of bytes and the
way the chance to send changes hands, so both are in one invariant, `SendInv`.
`PendingAccounted` says that the counter is the bytes of the buffers in the
sendlist and of `last_send_iob_`, less what was pushed and not yet added, plus
what was sent and not yet subtracted. `ChanceInv` says that one thread or the send
tracker has the chance, and only while something is pending; `HolderAt` where
`last_send_iob_` and the flow are in each of its steps, which rules out the
assertions and the abort of `__send_once`. It takes the rest to be inductive:
every buffer is in one place (`BufferInv`), the slot that is not filled is the last
one (`SlotInv`), `last_send_iob_` is whole and its size known (`LastWhole`), nothing
is sent before `start` is done (`NotBegun`). The bytes are the cardinality of a set
of pairs, and each step moves one buffer's pairs from one set to another. From it
`PendingIsAccounted` and `SendingHasOneActor`, which are `Accounted` and `OneActor` of the
run `tcp_overlap`. Neither has a hypothesis on senders, sizes or interleavings.
Where the code goes wrong is in the statement instead: `SendInv` holds until
`astray`, a history variable that becomes true in two steps only. One is the
comparison of `__send_once` or `on_send_event` if `last_send_iob_size_` has changed
since the subtraction so that the answer is another one (`Misread`); the other is a
`__send_once` whose oldest slot is of a buffer that its sender has pushed, or is
pushing, and not counted (`Uncounted`): two pushes overlap, and what the
counter promised was another's. Both happen (`tcp_send_sizes`, and section 5), so
nothing stronger is true; that nothing else goes wrong is what is proved: no
interleaving of entering, leaving, sending, partial sends, failures and stops
breaks the accounting or the handover without one of the two. In the induction a
step that keeps `astray` false is shown to keep `SendInv`; in the comparison the
second read may be of another buffer, and `~Misread` gives the same answer. Types,
`EndInv`, `OptInv` and the half about reading hold without the exception.

**`HttpClient`, `HttpConnection`, `UdpTransport`** (in `MCHttp_proofs`). `ClientInv`
follows an answer from the server to the call: what is under way on the current
connection is an answer to the call in progress, and between calls there is
nothing under way on a connection that is kept (`OnlyOurs`, `QuietBetween`), because
a call that ends without its answer stops and drops its connection before it lets
go of the lock (`StoppedIsReset`, `LockHeld`); a notification of an old connection finds
that `conn_` is another one. From it `AnswerReturned` (`AnswerIsOurs`). `wait_for` is called without a
predicate, so that a wait that returns for no reason is taken for an answer that
came: the connection is kept, and the next call takes the late answer. The model
has such wakeups at any time, a call says in its result whether it was woken by
one (`early`), and the theorem excepts the connections of those calls
(`Spoiled`), and no others.
`ErrorInv` ties the poller that calls `error_cb` to the state it has moved to its
end, which nobody leaves: `ErrorOnce` (`OneError`). `UdpInv` is `ReadChance` with the types
and with what the control states say of the end: a pending read is with the
tracker, with `async_read` or with the read poller (`PendingReadHasServer`).

Assumptions are those named in the modules: finite sets of threads,
natural-number bounds, and what is said above.

Only model-checked are liveness, which is out of the prover's reach, and
`DeliversAsSent`, since what the recursive parsers make of any sequence of bytes
is an induction over data; also `OneRead`. Of the m2m ring under ABA or with several
consumers, and of sending once the chance to send has gone astray, nothing is
claimed: there TLC finds the properties violated (section 5).

## 5. Where the code differs from what it says

Each is the violation of one property by a listed run, with a trace TLC prints:

1. `semaphore_deadline`: the carry from `tv_nsec` to `tv_sec` is commented out,
   although the comment above says that `sem_timedwait` does not take more than
   1e9. Such a timed wait returns at once.
2. `poller_abort`: the poller's counter says an event is there, the slot in front
   belongs to a thread that has not filled it yet, and the worker aborts. A
   posting thread and a `sent_cb` are enough. The same pattern is in
   `__send_once` when two threads send on one transport at once: the counter speaks
   of a buffer behind a slot that is not filled, or the slot in front is of a
   buffer that is not counted (`Uncounted`). `tcp_overlap` has both; of what comes
   afterwards its properties about sending say nothing.
3. `tcp_stop_peer`: `stop` meets a disconnection that the read poller has seen
   and turns it into a stop; nobody makes the stopped callback.
4. `tls_refused`: a refused connect moves a tls dialer to `error`, and the callback
   behind it is made only from `handshaking`: nobody is told, and a synchronous
   dial waits for ever.
5. `tcp_send_sizes`: `__send_once` and `on_send_event` subtract
   `last_send_iob_size_` from `pending_send_size_` and read it again for the
   comparison. By then another thread may have become the sender and stored the
   size of another buffer: one thread that sends buffers of two sizes is enough for
   the assertion that the sendlist is not empty to fail.
6. `http_server`: a server never asks a connection for its first packet.

Seen with other constants, or with properties that no run lists:

- Five pushes into the m2m ring of `toolkit` (`M2MPush = 5`): a producer reads
  `next` of the head node, is overtaken by a whole lap in which the ring is
  extended behind that node, and its compare-and-swap of `head_` succeeds with the
  old `next`. The new block is skipped, elements behind it are never popped, and
  `RingsGoOn` fails. Two consumers on one ring break `DeliversClaimed` (ABA on
  `tail_`; blocks of 3, one producer of 5); the library has one consumer a queue.
- `GracefulDrains` of `TcpTransport`, with one sender of 2 and a `stop`: the send
  poller tries the stopped callback after it has handed on the chance to send,
  without looking whether something is pending again, and an accepted buffer is cut.
- A `stop` together with a send that fails in the sending thread breaks
  `StopCompletes` as in 3.
- A call of `HttpClient` need not return, which is why `SentCallReturns` begins where
  the request has been sent. A call that dials holds `resp_mx_`, the send poller
  waits for it in `__notify_response` with the end of an earlier connection, and
  the dial needs the send poller. A tls dial never ends if its connect is refused
  (4), or if the peer is silent, since the client's handshake timeout is 0
  (`client.cpp:33`). A `wait_for` that returns for no reason hands out no answer and
  keeps the connection, and a late answer is taken by the next call
  (`client.cpp:60`): `AnswerIsOurs` excepts the connections of such calls. After a
  timeout in `open_websocket` `wait_for_response_` stays set.
- `connection::send` masks the bytes in front of the buffer's data instead of the
  payload (`connection.cpp:164`), and the receiver unmasks what was never masked:
  `FramesAsSent` of `HttpConnection` fails for a sender with a key, as every client
  is (`PeerKeys <- OneKey` in `MCHttp`). `frame_header::reset` leaves `is_unpacked_`
  set (`frame.cpp:147-152`): of the second frame on a connection the header is not
  read, its code is the unknown one that `reset` stored, and the connection stops.
  The run has one frame.
- With `CutSizeLine = TRUE` `DeliversAsSent` fails: the size line of a chunk that
  is cut between two reads is taken for a size of its own. `body::serialize`
  writes no final chunk (the model's peers do), and `header.cpp:140` keeps the
  value of the header before for one whose value is empty.
- A packet that lies whole in the cache is looked at only when more bytes arrive,
  which is why `PacketArrives` leaves those out: a peer that sends two requests at
  once gets one answer.
- Between the two steps of `start_websocket` the end of the connection calls an
  empty `error_cb`; and `ws_closed_`, which decides whether the callback is told
  of an error, is never initialised. `frame_header::unpack` takes four bits for the
  length (`frame.cpp:61`), so that a payload of 16 bytes or more is misread.
- A handshake's timer is started before its tracker exists (`tls_handshaker.cpp:90`,
  96-113), and `server.cpp:100` gives it 1000 ns. If it runs out in between,
  `__handshake_finished` asserts a tracker that is not there, and a release build
  calls a poller with a null pointer. In the model the poller stops at the assertion
  (`PollerStuck`); the invariants hold, and what must end does so unless that happens.
- `on_read_event` of a tls acceptor goes on using a handshaker it has put into the
  table (`tls_acceptor.cpp:104-131`), while a `stop`, or the end of the handshake in
  the other poller, destroys it: a use after free. The model has it as
  `UseDestroyed`, after which nothing is said of that thread; `AcceptorInv`, which
  holds around it, is about the others.
- A handshaker whose
  descriptor cannot be initialised closes it, and its owner closes it again
  (`tls_handshaker.cpp:46`, `184`).
- A tls transport in loop mode whose session holds the rest of a record waits for
  the socket (`tls_transport.cpp:331`); the once mode, which `tcp_live` runs, looks
  at the session first. A udp transport's read tracker stays tracked after `stop`,
  whose shutdown makes the socket readable for ever.
- `server.cpp:87` has its test inverted, so that a tls server never starts. A
  connection's callbacks, which `on_accepted` sets, hold a reference to the
  connection, so that it is never freed (`server.cpp:129`).
- A repeated timer that is being handled while the engine stops stays `pending`,
  and `is_started()` goes on saying that it is started. The repository's README
  says that `wait_stopped` blocks for ever unless timers are stopped first;
  `ServiceStops` shows that the timer threads end regardless. A second
  `wait_stopped` joins threads that were joined.

## 6. Not modelled, and why

Address, uri and the words of header lines, base64 and sha1 (pure functions on
text without state); socket wrappers (their outcomes are the choices of the
models); the select and afd pollers and iocp (other platforms);
`freelock_arr_queue` and `spin_mutex` (used by nothing in the library); the C
interface and initialisation (wrappers); the tls libraries. Of the service, the
task worker is the timer worker's loop over another `FreelockQueue`, and `start`
and `wait_stopped` create and join threads.

What could still be done: an abstract specification of a transport that tcp, tls
and udp implement and that `HttpConnection` and `HttpClient` use in the place of
their own links; a proof that the m2m ring is free of ABA under a bound on how
long a push may be overtaken; `HttpServer` and `TlsTransport`, of which no theorem
is stated.
