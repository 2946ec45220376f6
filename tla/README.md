# Verification of UNIXNetwork

UNIXNetwork collects network programs for UNIX: the KCP reliable-UDP protocol
with test drivers, a C++ wrapper around it, thread pools, and servers built on
select, poll, epoll, libevent and WebSocket. This directory holds TLA+ modules
for the parts with logic of their own, the TLC configurations that check them
on small instances, and TLAPS proofs that hold for every instance.

## Inventory

| Part | State it keeps | Operations | What is hard | What makes it correct |
|---|---|---|---|---|
| KCP core, `kcp_learn/ikcp.c` | per endpoint: send queue and buffer, `snd_una`, `snd_nxt`, receive buffer and queue, `rcv_nxt`, ack list, windows, congestion window, RTO | `ikcp_send`, `ikcp_recv`, `ikcp_input`, `ikcp_update`/`ikcp_flush`, `ikcp_check` | lost, repeated, reordered datagrams; stale acknowledgements and windows; zero window; retransmission; wrapping numbers | a reliable ordered message channel with bounded buffers that always makes progress |
| Latency simulator, `kcp_learn/test.h` | packets in flight, two directions | `send`, `recv` | loss, delay, a limit on packets | it is the environment of the core |
| KCP drivers, `test.cpp`, `server.c`, `client.c` | a socket and a control block | poll loops | client restarts under the same `conv` | messages come back in order (`test.cpp` checks it) |
| KCPNet, `kcp-cpp/` | client and server contexts, connection map, timeouts, two threads each | connect, send, receive thread, nudge thread, destructor | callbacks with the map lock released, timeouts racing packets, destruction racing threads | no context used after removal; a silent peer is dropped, a live one is not |
| Thread pool, `epoll_study/thread_pools.h` | task queue, mutex, condition variable, atomic stop and idle count | worker loop, `commit`, destructor | wakeups lost or spurious, destruction racing workers | tasks run once, in order; the destructor returns |
| Work queue, `mul_port_client_epoll/server_mulport_epoll.c` | job list, mutex, condition variable, terminate flags | worker loop, `workqueue_add_job`, `workqueue_shutdown` | the same, and a mutex left locked | jobs run once and are not lost |
| Multi-port server, same file | `curfds`, epoll set, descriptors | event loop, `client_job` | unlocked counter, two jobs for one descriptor | the count is the number of open descriptors |
| Reactors, `epoll_reactor/` | table of events with callbacks and buffers | accept, recv, send callbacks | full table, callback exchange, reused descriptors | an entry belongs to one connection |
| epoll, select, poll, UDP servers | descriptor sets, maximum descriptor | event loops | edge-triggered readiness, stale result sets | every ready descriptor is served, none is served twice |
| WebSocket servers, `websocket/` | per connection: handshake, transmission, end | handshake, frame decode and encode | split requests and frames | a frame is decoded as it was encoded |
| Web servers, `webserver/` | request line, epoll set | parse, decode URL, send file | split requests | decode inverts encode |
| Wrappers, `*/wrap.cpp` | static read buffer | `Readn`, `Writen`, `Readline` | short reads and writes, interruptions | all bytes, once, in order |
| libevent samples, process and thread servers, address samples | little or none | event callbacks | an event stack indexed by count | the event removed is the client's own |

The core calls its output callback with each datagram and is fed by the
program that reads the socket; nothing in it is concurrent, so the
interleavings that matter are those of two endpoints and the network. KCPNet
puts threads, locks and callbacks around the core, the pools have little data
and many threads, and the servers are single loops whose difficulty is the
kernel: readiness, reused descriptors, clients that come and go between two
calls. `PROJECT.json` lists every part with its files and, under `hazards`,
what could go wrong where.

## Modules

| Module | Models | Extends |
|---|---|---|
| `FifoChannel` | abstract: output grows along input | |
| `Ikcp` | `ikcp.c`, two endpoints, and the network between them | |
| `MCIkcp` | small instances of `Ikcp`, fairness, liveness properties | `Ikcp` |
| `IkcpSafety` | types, the protocol invariant and what follows, proved | `Ikcp` |
| `IkcpDelivery` | what the readers get: bytes and messages, proved | `IkcpSafety` |
| `IkcpTimer` | the clock of `ikcp.c`: `ikcp_update`, `ikcp_check`, RTO, resend times | |
| `IkcpTimerProofs` | arithmetic of wrapping time, flushes and resends, proved | `IkcpTimer` |
| `HeartBeat` | the unsigned connection timeout of both, and its decrement | |
| `KCPNetServer` | `KCPNetServer`: map, two threads, callbacks, destructor | `HeartBeat` |
| `KCPNetClient` | `KCPNetClient`: two threads, heart beats, time correction | `HeartBeat` |
| `MCKCPNet` | server, client and timer on small instances | `KCPNetServer`, `KCPNetClient`, `IkcpTimer` |
| `KCPNetProofs` | invariants of server and client, proved | `KCPNetServer`, `KCPNetClient` |
| `ThreadPool` | `thread_pools.h`; `thread_pool_yjs.*` is the same code | |
| `ThreadPoolProofs` | the pool's invariant and its refinement, proved | `ThreadPool` |
| `Workqueue` | the work queue of `server_mulport_epoll.c` | |
| `MulPort` | the rest of that server: event loop, `curfds`, jobs | `Workqueue`, instance of `Sockets` |
| `MulPortProofs` | the invariants of the queue and of the whole server, proved | `MulPort` |
| `Sockets` | the kernel as the servers see it, `wrap.cpp`, and the clients | |
| `EpollServers` | five echo servers on epoll | `Sockets` |
| `Reactors` | two reactors and the libevent server | `Sockets` |
| `SelectServers` | select, poll, UDP and TCP, thread and process servers | `Sockets` |
| `MCServers` | all of these, and what they promise | the three above |
| `ServersProofs` | the servers' invariant, proved | `MCServers` |
| `WebSocket` | `epoll_websocket.c`, `epoll_websocket.cpp` | `Sockets` |
| `Web` | `epoll_webserver.cpp`, `event_webserver.cpp`, `Readline` | `Sockets` |
| `Codec` | base64, percent encoding, `split` | |
| `WebProofs` | the invariants of the web servers and of the WebSocket server, proved | `Web`, `WebSocket` |
| `MCWeb` | `WebSocket`, `Web` and `Codec` on small instances, and what they promise | these three |

### Ikcp

One variable per field of `struct IKCPCB` that the control flow depends on, a
function from endpoint to value. Lists sorted by sequence number are functions
from number to segment; plain queues are sequences; a segment names its bytes
by their position in everything the application ever sent (`off`, `len`), so
that altered, repeated and missing data can be told apart without any data.
`numbered`, `delivered`, `sends`, `recvs` and `snd_off` are history.

* `Send` is `ikcp_send` with stream-mode extension, fragmentation, and the
  refusal (-2) that in stream mode comes after the first bytes were appended.
* `Recv` is `ikcp_recv` with `ikcp_peeksize`, the loop that refills
  `rcv_queue`, and the fast recover that announces a reopened window.
* `Deliver`/`Input` is `ikcp_input` of one datagram: `una`, selective acks,
  fast-ack counting, every PUSH segment against the moving window, duplicates,
  WASK, and the congestion window.
* `FlushStep`/`Flush` is `ikcp_update` when a flush is due: acks, window probes,
  numbering within `min(snd_wnd, rmt_wnd, cwnd)`, first transmissions, timeouts
  and fast resends, packing into datagrams of at most `mtu` bytes, `dead_link`,
  and the congestion window after loss.
* The network is a set of datagrams per direction. `Output` keeps any subset of
  a flush's datagrams within `NetCap`; `Deliver` takes any of them and may leave
  a copy behind. So datagrams are lost, reordered and repeated at will.

Abstractions. Time: a flush may find any set of transmitted segments expired
and the probe timer due or not, which includes every schedule the RTO
estimator could produce. `acklist` is a set, as acknowledging a number twice
has no further effect. The control segments of a flush fit into one datagram
(true while 24 bytes per acknowledgement stay within the mtu).
`xmit` and `fastack` saturate where they are no longer told apart. Sequence
numbers do not wrap. Datagrams are whole and of this `conv`: others are refused
by `ikcp_input` before they change anything. The loop of `ikcp_parse_data` runs
in the model once after all segments of the datagram, `InWindow` accounting for
the `rcv_nxt` each one would have met; it also runs for a datagram without
data, where `NothingStuck` says there is nothing to move.

### ThreadPool

A step is what one thread does between two points where another could
interfere: reading `stop`, taking or leaving the mutex, evaluating the
predicate of `wait`, blocking, `front`, `pop`, the task. `Predicate` and
`Block` are two steps although both happen under the mutex, because the
destructor does not take it. Callers may commit until the destructor has joined
the threads, and each may wait for its future or drop it. Spurious wakeups
happen at any time. Tasks do not call the pool themselves (they would block on
`_lock`, which their worker holds).

### Workqueue and MulPort

`Workqueue`: the list is a sequence used at its head only. `Mark` sets one
worker's `terminate` without the mutex, `DropAndBroadcast` is the rest of
`workqueue_shutdown`. `Terminate` leaves the mutex locked, as the code does
(`server_mulport_epoll.c:115`): the first worker to end keeps `jobs_mutex` for
ever, no other worker ends, and `workqueue_add_job` blocks. This is a defect.
The repository has no text or test that says how a shutdown should end, and
`main` calls none, so the model has it and no property is about it.

`MulPort` puts the program on top. `side` says which of two things a behaviour
is: the queue under any caller, who may also shut it down, or the server, whose
`main` never does. In the server an event becomes a job (`LoopEvent`), the job
is `client_job` (`Recv`, `Load`, `Store`, `Close`), and past `Crowd` connections
the loop does the same work itself. `curfds--` is a read and a write, since the
code has no lock for it, and every `recv` and `close` is a step, since two jobs
may be about one descriptor, or about one that was closed and handed out again.
`TakeJob` joins the three steps of a worker that gets a job, which nobody can
come between; the workers' sleep is left to the side "queue". `left` remembers
the clients whose input a full buffer cut off. A reset ends `nRecv` the way the
end of the connection does and is not told apart.

### IkcpTimer

What `Ikcp` leaves open: the timestamps. They are numbers modulo `Modulus` and
compared as `_itimediff` does. The driver is the nudge thread: it calls
`ikcp_update`, asks `ikcp_check`, sleeps that long and wakes up at most `MaxLate`
late. One segment is sent, resent and acknowledged; the RTO is estimated as in
`ikcp_update_ack`, in all three `nodelay` modes. `SetClock` sets the clock once,
as the time of day, which the samples use, may be. The `since...` variables
count the real time the properties speak of.

### KCPNetServer and KCPNetClient

The server: a step is what a thread does between two points where the other
threads can interfere. The map is a function from address to connection. The
nudge thread's iterator is `todo` and `key`; an insertion while it waits in a
callback may rehash the map, so what it still meets is chosen freely. Any
datagram may come from any address at any time. The network thread ends as
"crashed" where the code follows a null pointer: at `KCPNet.cpp:573` and `:635`
it looks up an entry that the nudge thread may have erased meanwhile. The
destructor waits for a thread until it has ended or gives up; `late` remembers
that it gave up, or that a thread had not even started.

Whether there is a disconnect callback is chosen at the start (`nudge.callback`,
`nudger.callback`), since the tests at `KCPNet.cpp:204` and `:462` ask for it:
without one nobody is dropped, and the timeout, an unsigned number that wraps at
`MaxUnsigned` (`HeartBeat`), is decremented past 0. The properties of the timeout
and of silent peers are about programs with a callback, as all in the repository
are.

The client: `mCurrentCorrection` and its target are used by both threads without
a lock, so a step is one access. `MaxComp` is the largest change of one round.
Server and client share nothing but messages, and each runs against everything
the other could send; so `MCKCPNet` runs one of them, or the timer, in each
behaviour, and need not multiply their states.

### Sockets and the servers

The kernel is one record, and a system call is a function from kernel to kernel:
`Accept` hands out the lowest free descriptor, `Read` returns one message, the
end, or the error of a reset, which is told once; `Watch`, `Reportable` and
`Reported` are epoll, level or edge triggered; `Stir` raises an edge. `limit` is
the number of descriptors the process may have, chosen at the start. Clients
connect, send, close and reset at any time.

A handler between two waits is one action where it makes its calls in one go,
and one action per call where it loops. Programs that keep their state in
different tables share the variable `mem`; `prog` says which one is running. A
blocking `read` with nothing to read is a step that is not enabled.

| Program | File | Notable |
|---|---|---|
| `level` | `epoll_study/epoll_server.cpp` | an ended connection leaves the epoll set and is never closed |
| `tcp` | `kcp_learn/tcp/server.c` | |
| `edge`, `pooled` | `epoll_server_edge_triggered*.cpp` | the buffer is not initialised |
| `rector` | `reactor_class.cpp` | not closed after an error; the first answer may carry garbage |
| `reactor` | `epoll_reactor.cpp` | answers "hello" |
| `slots` | `reactor.cpp` | with all entries taken, the listener's is overwritten (`:117`) |
| `libevent` | `libevent_tcp_server.cpp` | a client that leaves removes the last arrival's event |
| `select`, `array` | `select_study.cpp`, `select_advance.cpp` | |
| `poll` | `poll.cpp` | `revents` not initialised; a reset ends the program |
| `udptcp` | `udp_tcp_select_server.cpp` | the scan begins at the listeners: closes one, swallows a datagram; an empty datagram closes the UDP socket and ends the program |
| `pthread`, `process` | `tcp_pthread_server.cpp`, `tcp_process_server.cpp` | |

In `process` the child runs from the fork on, while its parent has yet to set the
handler of SIGCHLD and to unblock it (`ProcessAccept`, `ProcessHandler`).

`Steadfast` names the programs that answer every client whatever the others do.
`slots`, `libevent`, `poll` and `udptcp` are not among them, for the reasons in
the table: their handlers are modelled with these faults, and each takes part in
the properties it keeps (`EchoInOrder`, `TablesAgree`).

### WebSocket, Web and Codec

A connection of the WebSocket servers waits for the upgrade request, then for
frames; each answer changes the callback to output and back. One `recv`
(`epoll_websocket.c:360`) takes up to 1024 bytes of a stream, so it may return
several messages, or a part of one (`Chunk`; bound: a message comes in two
pieces at most). `handshark` and `transform` answer what is at the start of the
buffer and clear the rest (`:210`): an answer therefore names the message that it
is to and the last one taken with it, those behind the first are lost, and what
is not a whole frame is answered with a garbled one. A piece whose end is yet to
come may raise another edge. What a message
holds is chosen when it is looked at. Frames are bytes, and a byte is the set of
its one-bits, so that exclusive or is the symmetric difference: `DecodePacket` compares
the mask bit, not the length, with 126 and 127, and `EncodePacket` overwrites
the long length, as the code does, so that `FramesInOrder` is about payloads below
126 bytes. It says how far the answers account for what was read, not that
every frame has one of its own, which is false of the code.
`epoll_websocket.cpp` does not answer frames at all. A request whose
key has not come yet leaves the connection waiting for an edge.

`Web` has `Readline` with its static buffer as steps of their own, because the
buffer is shared by all connections. A line is what the pieces of input make it.

`Codec` is pure: the conversions, applied by `MCWeb` to every text over six
characters (zero, blank, percent, plus, a letter, 255) up to a length of four,
which meets every branch and every length of a last group.

## Runs

| Run | Checks | Instance | Shows |
|---|---|---|---|
| `kcp_congestion` | `TypeOK`, `NothingForgotten`, `InOrderDelivery`, `ReceiveBounded`, `NothingStuck`, `CwndTracksIncr` | 3 messages, windows of 2, congestion control, fast resend, 2 datagrams to the receiver and 1 back | reordering, loss and repetition never lose, alter or repeat a segment, no buffer exceeds its window, `cwnd` and `incr` stay within one segment of each other |
| `kcp_fragments` | `MessagesImplemented` | messages of 1 and 2 segments, receive window 3 | messages are read whole and in order: `Ikcp` implements `FifoChannel` |
| `kcp_duplex` | `ProgressKept` | one message each way, two datagrams in flight each way | data and acknowledgements share datagrams and overtake each other; numbers never go back |
| `kcp_stream` | `BytesInOrder` | stream mode, buffers of 700 and of 3453 bytes (3 segments, refused) | bytes stay in order through merging and partial refusal |
| `kcp_live` | `EventuallyRead`, `EventuallyAcked`, `WindowReopens` | 3 messages, window of 2, one datagram each way | the connection always makes progress, also out of a closed window |
| `kcpnet` | `IteratorValid`, `ToldOnce`, `CorrectionIsBest`, `SilentDropped`, `DestructorEnds`, `TimeoutsInRange`; `TimeoutInRange`, `CorrectionInHull`; `FlushedInTime`, `NeverEarly` | server with 2 peers, client with 3 corrections, both with and without a disconnect callback and with a timeout that wraps at 3; timer with a clock modulo 16 | callbacks outside the lock are safe, silent peers are dropped and told once and no timeout wraps where there is a disconnect callback, the time correction is the best known and never passes what the server sent, flushes and resends are neither late nor early |
| `kcpnet_drift` | `DriftBounded` (violated) | two corrections, 9 apart, 3 allowed | the correction may jump |
| `pool` | `NoLostWakeup`, `NeverFrontOfEmpty`, `PoolIsFifo`, `TasksRun` | 2 workers, 2 callers, 3 tasks, destructor | tasks start in order, once, and are all run while the pool lives |
| `pool_join` | `JoinReturns` (violated) | 2 workers, 1 caller, 1 task | the destructor may hang |
| `queue` | `JobsInOnePlace`, `NobodySleepsOverAJob`, `InputHasAJob`, `JobsRun` | queue: 3 workers, 4 jobs, shutdown; server: 2 workers, the loop, 2 clients, 2 messages, 2 jobs | jobs are run once and not lost before a shutdown; an edge reported once is enough for all input; the only way to lose a worker is a job on a closed descriptor |
| `servers` | `EchoInOrder`, `TablesAgree`, `NoZombieForgotten`, `Answered`, `DescriptorsReturned` | 14 programs, 2 clients, 2 messages, 1 or 2 descriptors | each server keeps what its code promises through every order of connects, messages, closes, resets and reuse of descriptors |
| `web` | `FramesInOrder`, `FramesAnswered`, `OwnRequest`, `ConnectionsEnd`, `CodecsInvert` | 4 programs, 2 clients, 3 messages, taken together or in parts; 1555 texts | every `recv` of frames is answered once, to its sender and in order, a whole frame with its payload; no connection sees another's bytes, conversions invert each other |

Bounds. `MaxSends` bounds calls of `ikcp_send`, or the messages of all clients,
`NetCap` datagrams in flight, `MaxTasks` and `MaxJobs` the calls of `commit` and
`workqueue_add_job`, `MaxServed` the events that become jobs, `MaxFd` the
descriptors, `MaxXmit` the copies of a segment, `MaxRto` the rto it may back off
to, `SyncKeys` the peers that send
time packets, `Serving` the workers that take part in the server; `Latecomer`
is a client that comes only when the event array of `slots` is full, where a
third one makes a difference, `Quiet` a client that sends one message at most, so
that of three one client has up to three and the other one. In `websocketpp`
one descriptor is enough, as its connections share nothing. Nothing else is cut. Three messages over a window of two are
the fewest with which the window closes and a number leaves the window while an old copy of it is
still in flight. A sender that acts on an outdated window of a full receiver
needs three messages and two datagrams back at once, and a full receive queue
with more in the buffer does not come about either with these numbers; those cases
are left to the proofs of `ReceiveBounded` and `NothingStuck`, as congestion
avoidance, which `ssthresh` of 2 leaves out, is to the proof of `CwndTracksIncr`. With two workers and two callers every pair of
threads meets at every pair of points. Two clients on one descriptor are the
fewest with which it is used again, two messages with which one arrives while
the other is read, two jobs with which both are about one descriptor. A clock
modulo 16 with an interval of 2 and RTOs up to 3 wraps at every point of a wait
and keeps the waits below half the modulus, as 2^32 milliseconds do the code's.
`WndRcv` stands for `IKCP_WND_RCV` (128), reduced like the windows. Deadlock is
not checked: an idle connection, a destroyed pool, a queue after shutdown and a
server without clients may rightly stop.

Fairness. `kcp_live` assumes that both programs go on calling `ikcp_update`,
`ikcp_recv` and the socket, as the loops of `test.cpp`, `server.c` and
`client.c` do (weak fairness of `Recv` and of delivery), and that infinitely
many flushes happen with the oldest segment and the probe timer expired and
their datagrams not lost (strong fairness: `resendts` lies a finite time ahead,
and the network loses with a probability below one). `pool` and `queue` assume
that the scheduler runs every thread that can run and that tasks return; they
assume neither that the pool is destroyed nor spurious wakeups, nor that the
event loop goes on. `kcpnet` assumes the same of the server's threads and that
heart beats keep coming due when the nudge thread gets the lock (strong
fairness, as time passes and other threads hold the lock briefly); callbacks
return. `servers` and `web` assume that the server's process, its threads,
children and signal handlers run when they can; clients need not do anything.

## Disagreements between code and comments

* `thread_pools.h:43` relies on every thread coming to its end. The destructor
  sets `stop` and notifies without `_lock`; a worker that has just found
  nothing to do, and has not blocked yet, misses both and sleeps for ever
  (`pool_join`).
* The same comment says join waits for the tasks. Workers leave their loop on
  `stop` with tasks still queued; evident from the code, so no run.
* `KCPNet.h:41` calls `MAX_TIME_DRIFT_PPM` the maximum adjustment per second.
  When the server's correction changes sides between the change and the check of
  it (`KCPNet.cpp:183-187`), the new one is taken over at once (`kcpnet_drift`).
* `thread_pools.h:26` and `:99` call `_idlThrNum` the number of idle threads; it
  starts at 0 and is -1 while a task runs. Evident from the code, so no run.
* `ikcp.h:437` gives 32 as the default receive window; the code has 128.

## Proofs

`IkcpSafety` first proves `Spec => []TypeOK`, one lemma per operation. The content is
in the segment sizes (no fragment or merged segment exceeds `mss`, which rests
on the rounding in `SplitCount`) and in the loops.

It then proves `Spec => []ArqInv` and, from it, `NothingForgotten`,
`InOrderDelivery`, `ReceiveBounded`, `NothingStuck`, `InFlightBounded` and
`ProgressKept`, for every window size, mtu, fast-resend setting, number of
messages and network capacity, in message and in stream mode. None of these is
inductive alone: that nothing is forgotten depends on acknowledgements *in
flight* naming only received segments, and that delivery is in order on data in
flight, in both buffers and in the queue being the segments as they were
numbered. `ArqInv` says exactly that: both ends and every datagram, however
old, agree on one numbering. It survives because what a datagram claims stays
true: `rcv_nxt` and the set of received numbers only grow, and a number is
given out once. Structure: `MoveOK` for the loop into `rcv_queue`; `PeerKept`, by
which a step of one endpoint that only extends what the other relies on leaves
the other's half alone; then one lemma per action.

`ThreadPoolProofs` proves `Spec => []PoolInv` for any number of threads, callers
and tasks, and from it `OneTaskAtATime`, `NeverFrontOfEmpty`, `NoLostWakeup` and
the refinement `Spec => PoolIsFifo`. The invariant adds who owns the mutex at
which place, and that between predicate and wait the queue is still empty,
which holds because `Push` needs the mutex; the missing counterpart for `stop`
is the defect above.

`IkcpSafety` also proves `CwndTracksIncr`: each of the places that change the
congestion window either sets `incr` to a multiple of `mss` or adds less than a
segment to it and rounds, which `TypeOK` is enough to show.

`IkcpDelivery` goes on from segments to what a reader gets. `ByteInv` says that
the segments of a direction, numbered and queued, continue one another up to
`snd_off`, and that the calls of `ikcp_recv` have returned exactly what was
delivered; with `ArqInv`, by which what is delivered is the beginning of what
was numbered, it is inductive and implies `BytesInOrder`, in message and in
stream mode. `MessageInv` says where in the segments each message ends
(`ends`), that `frg` counts down to it, and that reading has stopped at such a
place; so `ikcp_peeksize`, which trusts `frg`, finds whole messages, and in message
mode (`~Stream`, the hypothesis of those two theorems; in stream mode messages
are merged on purpose) the protocol implements `FifoChannel` in both directions:
`ikcp_send` puts or stutters, `ikcp_recv` gets, the rest stutters. Arguments over
a list ("the first segment with `frg` 0", "up to here they are consecutive") take
the least counterexample instead of induction.

`IkcpTimerProofs` proves `TimerInv`, and from it `FlushedInTime` and `NeverEarly`, for
every modulus, interval, lateness and `nodelay` mode. First comes what the signed
difference of two wrapped timestamps is (`DiffIs`: the true difference, while that
is below half the modulus). The invariant then measures everything from the last
call of `ikcp_update`: the driver sleeps no longer than to the next flush, which
is at most `MaxSlap` away; what remains of a segment's rto is what it was sent with
and at most an eighth more; and after the clock was set, either `ikcp_update`
has been called since, or the driver still sleeps the time it was told before.
The assumptions are the ones the code lives by: waits and five times the rto
below the modulus (10 seconds and minutes against 2^32 ms), and an interval below
`MaxSlap` (`ikcp_interval` allows 5000).

`KCPNetProofs` has two invariants, each for any set of peers, samples and
corrections. The server's: while `rDisconnect` runs without the lock, nobody else
erases, and what an insertion can make the iterator meet is in the map; whoever is
in the map has not been told, but for the entry about to be erased; a stable
connection has at least `MinPoints` samples. It gives `IteratorValid`, `ToldOnce`
and `CorrectionIsBest`; `TimeoutsInRange` needs besides that with a callback a
counter at 0 is erased in the same visit in which it wraps. The client's: between the change of the correction and the
check against the target the correction may be outside of what the server has
sent, but only on the side it moves to; that makes `CorrectionInHull` inductive,
though the target may change between any two accesses. `TimeoutInRange` needs
that, with a callback, the counter is positive where the nudge thread is about to
decrement it. Both are stated for programs with a callback only; without one the
counters wrap.

`MulPortProofs` proves `QueueInv`, any number of workers and jobs: who holds the
mutex where (`MutexDiscipline`), also when a terminated worker keeps it; where
each job is (`OnePlace`, without counting; a lemma shows that it is what
`JobsInOnePlace` counts); and that somebody is awake. From it `JobsInOnePlace`
and `NobodySleepsOverAJob`. There is at least
one worker, as `workqueue_init` makes sure.

It goes on to the whole server, `MulPortSpec => []MulPortInv`, and from that
`InputHasAJob` and the two properties of the queue again, now with the event
loop, the clients and the jobs' own steps beside it. `InputHasAJob` is not
inductive alone. Input that arrives must raise an edge, so every open descriptor
is registered for one, except the one that `main` has accepted and not yet
registered (`Registered`); and its registration itself raises the first edge. An
edge of the listening socket must stand for a connection (`ReportedWait` counts
them), since `main` calls `accept` for it without looking. An actor begins with
reading (`IdleAtRecv`), so that a job that is taken comes for the input. What makes
two jobs on one descriptor harmless is that `HasAJob` asks for a job about the
*descriptor*, not the connection: a job left over from a closed connection reads
for the next owner, and a `close` by the second job closes whatever is there, with
its input. The assumption that `MaxServed` is at most `MaxJobs` is one between the
bounds of the model.

`ServersProofs` proves `ServerInv` for thirteen servers (`epoll_reactor.cpp`
answers "hello" and keeps no table), any number of clients, descriptors and
messages, and from it `EchoInOrder`, `TablesAgree` and `NoZombieForgotten`. The
invariant has three parts. `KernelOK`: a connection is in the backlog once or has
one descriptor, the unread messages of a client go on where its answers end, and
only open descriptors are watched. `ReadyOK`: what was reported is still open when
its turn comes, which is what makes reused descriptors harmless. `MemOK`: the tables of
each program. First come lemmas on the system calls (`AcceptOK`, `ReadDataOK`,
`EchoOK`, `CloseOK`, `WatchIsOK`), stated for any kernel, then one lemma per
handler. Notable are the array of `select_advance.cpp` and `poll.cpp`, where a free
descriptor implies a free entry (`FreeSlotFacts`, by counting), and
`reactor.cpp`, which reads with one event and answers with the next: `Held` counts the
message in between, and the proof covers the overwritten entry of the
listener as well, after which reported descriptors may be closed ones.

`WebProofs` is about the web servers and `epoll_websocket.c`, for any number of
clients, descriptors, messages, payloads and masks. It starts from the system calls
again, for kernels into which a program writes whatever its answers are
(`KernelOf`), and then has two invariants.

`WebInv` gives `OwnRequest`. The static buffer of `my_read` is shared, and nothing in
`Readline` knows for whom it was filled; what saves the program is that it is empty
whenever the loop turns to another connection, and that while a request is
served (`Serving`) nobody else closes that connection, so that its descriptor
cannot pass to another client (`BuffersOwned`, `WebReady`). For
`event_webserver.cpp` it says that a `bufferevent` holds input of the present owner
of the descriptor: `listen_cb` makes a new one for each connection.

`WebSocketInv` gives `FramesInOrder`. Three things depend on each other: a
connection waits for output exactly while an answer is in `sendbuffer`; that
answer is the one after the last that was sent (`GoesNext`); and what is unread
begins behind the last message that the answer accounts for (`InputInOrder`,
`ItemOK`), however many messages, or parts of one, a `recv` took. So `recv_cb`
never overwrites an answer, and a descriptor that is used again starts with
`WS_HANDSHARK` and with a client that was sent nothing (`NoneBefore`). That a client reads
the payload it wrote is a fact about bytes: `FrameReadBack` follows a payload
below 126 bytes through the client's mask, `decode_packet` and `encode_packet`,
position by position, and rests on `Xor(Xor(a, b), b) = a`.

The assumptions are those named in the modules. `WebSocketAssumption` says that
payloads are sequences of bytes and masks have four. For `Ikcp`: two distinct endpoints,
windows positive with `RcvWnd >= WndRcv` (`ikcp_wndsize` enforces it), an mtu of
at least 50 (`ikcp_setmtu` refuses less), natural tuning parameters. `Latecomer`
is one of the clients.

The invariants behind the theorems (`ArqInv`, `ByteInv`, `MessageInv`, `TimerInv`,
`QueueInv`, `MulPortInv`, `WebInv`, `WebSocketInv`, `ClientInv`, `PoolInv` and both
called `ServerInv`) are in no run of
their own, like `InFlightBounded` and `OneTaskAtATime`: the runs check what a user of
the code would ask for. TLC has confirmed them on the instances of the runs.

Model-checked only: all liveness (outside the prover's reach), and `CodecsInvert`.
That one says what recursive definitions compute for every text, which needs
induction over the text; the induction theorems of the library take an operator
as a parameter, which the provers cannot instantiate, and a module
that declares a recursive operator has no SMT backend at all. Every other
invariant and action property of the passing runs is stated by a theorem.

## Plan

Modelled, in this order: `Ikcp`, `ThreadPool`, `Workqueue`, the servers on
`Sockets`, KCPNet, WebSocket and web servers, `IkcpTimer`, `MulPort`. Proved: the
safety of all of them, and the refinements of `Ikcp` and `ThreadPool`. Left:

1. The C++ WebSocket server (`websocketpp`), which does not answer frames, and
   `epoll_reactor.cpp`, which answers "hello": their actions run, but no theorem is
   about them.
2. Wrapping sequence numbers in `Ikcp`, with the arithmetic that `IkcpTimerProofs`
   has for timestamps.

## Not modelled

* `kissnet.hpp` is vendored. The KCP sample programs drive the core and add no
  state; one `ikcp_recv` for each datagram (`server.c`) leaves a second message
  waiting for the next datagram, and a client that restarts under the same
  `conv` meets an old control block.
* Of KCPNet, `getNetworkTimeus`, the client's destructor, `sendData` and the demonstration
  `main.cpp`. Of the multi-port program, the client, which generates load.
* `pipe_epoll.cpp`, `epoll_websocket2.cpp` (an earlier copy), the bufferevent
  samples, the single-connection servers and clients, UDP samples: loops
  over one descriptor.
* Wrapping sequence numbers of KCP, windows above 65535, and `SIGPIPE`, which ends
  a server that writes to a connection that was reset twice.
* `pub.c` (content types, directory listings), SHA-1, address and DNS samples,
  HTML and documents.
