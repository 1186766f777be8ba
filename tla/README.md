# A TLA+ model of RIOServerTest

RIOServerTest is a C++ TCP game server for Windows built on Registered I/O
(RIO).  This directory models the parts of it that are hard to test: what its
threads do to a session while the kernel completes I/O in its own order.  The
modules are checked with TLC on small instances and proved about with TLAPS.

All line numbers are those of the files under `src/`; `PROJECT.json` maps every
definition of the modules to the lines it models.

## 1. Inventory

### Components, their state and their operations

| Component | State | Operations | Interacts with |
|---|---|---|---|
| **Session lifecycle** (`RIOTestServer`, `RIOTestSession`) | `sessionMap` (SRW lock), `numOfSessionInWorkerThread`, `sessionCount`, per session `ioCount`, `socket`, `threadId`, registered buffers; `contextPool` | `Accepter`, `MakeNewSession`, `RecvPost`, `IOCountDecrement`, `ReleaseSession`, `GetSession`, `Disconnect`, `GetIOCompletedContext`, `Worker` | kernel (completion queues), Broadcaster, every thread that sends |
| **Send path** (`SendItem`) | `sendQueue` (lock-free), `reservedBuffer`, `rioSendBuffer`, `ioMode`, `sendDisconnect` | `SendPacket`, `SendPacketAndDisconnect`, `SendPost`, `MakeSendStream`, `SendIOCompleted`, `SendCompleted` | callers on any thread, the worker, the kernel |
| **Receive path** (`RecvItem`) | `recvRingBuffer`, `rioRecvOffset` | `RecvPost`, `RecvCompleted`, `GetPayloadLength` | packet dispatch |
| **Broadcaster** | `sessionIdSet` (mutex) | `OnSessionEntered`, `OnSessionLeaved`, `BroadcastToAllSession` | session lifecycle |
| **Packet dispatch** (`PacketManager`, `PacketHandler.cpp`, `Protocol.h`) | factory and handler maps | `Init`, `MakePacket`, `GetPacketHandler`, `OnRecvPacket`, the handlers | session (answers), DB jobs |
| **Server start and stop** (`StartServer`, `RunThreads`, `StopServer`, `main`) | `listenSocket`, `workerOnList`, `rioCQList`, `serverStop`, the threads | start, accept loop, worker loop, stop | operating system |
| **Logger** | `logWaitingQueue` (mutex), two events, the file | `RunLoggerThread`, `WriteLog`, `Worker`, `StopLoggerThread` | any thread |
| **MultiLanClient / DBClient** | per channel `m_sock`, `m_IOCount`, `IOMode`, `SendQ`, store of packets being sent, receive ring; `sessionReconnectIdList` (critical section), `stopClient` | `Start`, `Worker`, `RecvPost`, `SendPacket`, `SendPost`, `ReleaseSession`, `Reconnecter`, `Stop` | DB server, completion port |
| **DB jobs** (`DBJob`, `BatchedDBJob`, `ProcedureReplyHandler`) | job batches, registered keys | `AddDBJob`, `ExecuteBatchJob`, reply handlers | DBClient, sessions |
| **DeadlockChecker** | map of watched threads | register, deregister, check | workers (compiled out: `USE_DEDALOCK_CHECKER` is 0) |
| **Scope locks, options, utilities** | none | RAII locks, option parsing | all |

### What is hard

* **Concurrency.**  A session is touched by the Accepter (until
  `MakeNewSession` returns), by its worker, and by any thread that got a
  `shared_ptr` from `GetSession`.  Nothing but interlocked operations on
  `ioCount` and `ioMode`, and the map's lock, orders them.
* **The kernel.**  A request completes at any moment after `RIOReceive` or
  `RIOSend` was called, also before the caller executes its next statement.
* **Failure.**  RIO calls fail, clients vanish, packets do not decode; each
  error path has its own way of giving `ioCount` back.
* **Limits.**  One send buffer of fixed size per session, unsigned counters
  that are decremented by whoever releases.

### What makes the components correct

* `ioCount` is exact, so that zero means that nothing of the session is in
  flight; a session whose peer is gone is removed; a removed session is not a
  broadcast target; worker loads are the numbers of their sessions; an
  `IOContext` has one owner; RIO calls on one request queue do not overlap.
* A session's packets are sent once each and in order; the send buffer has one
  user; no packet waits with nobody going to send it.
* A posted receive never covers bytes that are still to be read; packets are cut
  out of the stream once each and in order; none is left in the ring.
* The Accepter starts when every worker has made its completion queue, and the
  queues outlive the workers that poll them; `StopServer` returns.
* A channel's `m_IOCount` is exact, its store of packets has one user, and one
  thread releases it when nothing of it is left; a channel that breaks down is
  connected again; `Stop` comes to an end.
* A registered packet reaches its handler; a log reaches the file.

`PROJECT.json` lists the hazards at the lines where they bite, with the
properties that would catch them.

## 2. Modules

| Module | What it is |
|---|---|
| `SessionLifecycle` | sessions from accept to release: Accepter, workers, other threads, kernel |
| `MCSessionLifecycle` | symmetry of the context pool for TLC |
| `SessionLifecycleProofs` | the inductive invariant and the theorems about `ioCount` |
| `SessionOwnershipProofs` | RIO calls of one session do not overlap while only its worker sends; one receive per session, one owner per `IOContext` |
| `SessionReleaseProofs` | the buffers of a released session are not with the kernel, when only its worker sends; its count does not go below zero, whoever sends |
| `SendPath` | the send path of one session, one step per interlocked operation |
| `SendChannel` | abstract: what `SendPacket` promises (a FIFO channel) |
| `MCSendPath` | packet sizes for TLC |
| `SendPathProofs` | the inductive invariant of the send path and its theorems; it implements `SendChannel` |
| `RecvStream` | the receive ring of one session and the cutting of packets |
| `RecvStreamProofs` | the receive never covers unread bytes; packets come out once and in order |
| `ServerLifecycle` | start and stop: main thread, workers, Accepter |
| `ServerLifecycleProofs` | its inductive invariant and theorems |
| `PacketDispatch` | from a packet id to its handler |
| `Logger` | the logger thread, its queue, lock and events |
| `LanClient` | the client of the DB server: channels, IOCP workers, senders, Reconnecter, start and stop |
| `MCLanClient` | symmetry of the workers for TLC |
| `LanClientProofs` | the types of `LanClient` and the one owner of a channel's store |
| `LanCountProofs` | `m_IOCount` is exact, and one thread releases a channel, with nothing of it left |

### SessionLifecycle

*State.*  The variables are the fields of the server and of the sessions.
`context` says of every `IOContext` of `contextPool` whether it is `free`, with
the kernel (`posted`), in a completion queue (`queued`), with a worker
(`held`) or lost (`leaked`: the error paths of `RecvPost` and `SendPost` do not
free it).  `cq[w]` is the RIO completion queue of worker `w`.  `rioRQ[s]` says
on which worker's completion queue `InitSession` created the request queue of
`s`, for receives and for sends; the kernel reports a request there.  `socket` is
`open`, `down` (the client is gone, or `shutdown` was called) or `closed`.

*Threads.*  `pc[t]` is where a thread is, `session[t]` the session it works
for, `ret[t]` where the called function (`SendPost`, `ReleaseSession`) returns
to.  Each interlocked operation, each section under a lock and each RIO call is
one step.  Three things are coarser: `GetMinimumSessionThreadId` reads the
counters in one step (only the Accepter adds to them); `closesocket` and the
two decrements of `ReleaseSession` are one step; claiming `ioMode` and draining
the queue in `SendPost` is one step, which module `SendPath` opens up.
`sendQueue` is the number of packets waiting, `reservedBuffer` included.
Taking the results of one `RIODequeueCompletion` one at a time is equivalent:
no other thread takes from the queue, and the worker polls again anyway.

*Callers* are threads that use a session without being its worker: a DB reply
thread, a worker of another session that broadcasts.  A broadcast is a sequence
of `GetSession`, `SendPacket` by such a thread; ids not in the map are skipped.

*The kernel* completes a posted receive with data while the socket is open, a
send with data at any time, and either with zero bytes when it is a receive of a
client that stopped sending, or when the connection is down or closed.

*Left out.*  `InvalidIOCompleted` and the failure of `sessionMap.emplace`
(unreachable: contexts have one of two types and ids are unique);
`isReleasedSession` and `ioCancle`, which are never set; `OnClientEntered`,
which is empty; the rebalancing functions, which nobody calls.  A packet handler
answers or does not answer.  The cast before it, which throws in this version
(`PacketDispatch`), is taken as repaired here: otherwise the process would end
with the first registered packet and no session would get further than that.

### SendPath and SendChannel

`SendPath` follows `SendPacket`, `SendPost` and `MakeSendStream` statement by
statement for one session: the compare-exchange on `ioMode`, the two looks at
the queue, the copy loop (one step per packet), the call of `RIOSend`, the
completion.  A packet is a model value with a size.  `rioSendBuffer` is the
sequence of packets copied to the buffer and `copiedSize` their bytes; `posted`
holds the `Length` of each request.  The kernel reads the buffer when it
transmits, so overwriting it earlier would show in `transmitted`.  `memcpy_s`
(external) ends the process if the destination size it is given is smaller than
the count; the size is an `int` that converts to an unsigned one, so a negative
size passes.  `RIOSend` refuses a request longer than the registered buffer.

When a packet does not fit, `MakeSendStream` puts it aside and returns a total
that still holds its size (lines 757-762).  The request is then longer than what
was copied.  If the total is beyond `MAX_SEND_BUFFER_SIZE` the send fails and the
session never sends again.  If it is exactly `MAX_SEND_BUFFER_SIZE`, `RIOSend`
accepts it, and old bytes of the buffer (of an earlier send, perhaps) follow the
packets to the client, which from then on is out of step with the packets.  So a
packet that is put aside never reaches the client as a packet.  `LengthIsCopied`
states that this is the only way in which the request differs from what was
copied.  `transmitted` are the packets whose bytes were sent, `received` those of
them the client can tell apart: it stops growing when stale bytes were sent.

`SendChannel` is the promise: `accepted` grows by one packet, `delivered` is a
prefix of it that grows, and grows as long as it is shorter.  `SendPath`
implements it with `delivered <- received`: with liveness while everything fits
(`SendFIFO`), and without it in general.  What the client gets after stale bytes
is outside the channel.

### RecvStream

One session's receive path.  A byte is the pair of its packet's number and its
place in the packet, so that a byte written over or read at a wrong place shows.
The client sends packets, good and bad; the kernel puts any number of the bytes
that are under way into the posted request; the worker moves the write position,
takes packets while there are any and posts the next receive.

The ring buffer (`CRingbuffer`) is not in the repository and is modelled from
its use: one cell stays free so that full and empty differ, and the "not broken"
sizes end at the end of the buffer.  `RecvPost` asks for the contiguous free size
*minus* the contiguous used size.  This never writes over unread bytes (checked)
but can be zero or negative while there is room; then the session of a client
that did nothing wrong ends.  `NeverStuck` counts that as an end.

`rioRecvOffset` is a 32-bit count of all bytes received, taken modulo the ring
size.  It is the ring's write position only as long as the ring size divides
2^32; the size is outside the repository, so this is `RingAssumption`
(`OffsetMod` stands for 2^32).

A packet with a wrong header code (lines 450-456) or with an empty payload makes
`GetPayloadLength` return 0, as does one that is not complete: `RecvCompleted`
breaks off, raises no error and posts the next receive.  The packet stays in the
ring of the open session and blocks every packet behind it, until the ring is so
full that the receive has no room and the session ends.  The model's client sends
both kinds.  `NeverStuck` is therefore about the packets in front of the first of
them: those are handed on, or the session ends.

### ServerLifecycle

`pcMain` follows `main`, `StartServer`, `RunThreads` and `StopServer`;
`pcWorker[w]` and `pcAccepter` the loops of the threads.  What the code does
without checking is modelled: `main` goes on after a start that failed, at any
point of it; a worker goes on with a completion queue that could not be made and
the process crashes when it polls it; `StopServer` does not wait for the
Accepter, which may read the deleted `rioCQList` or loop on a closed socket, and
whose joinable `std::thread` ends the process when the server is destroyed.  The
plain booleans `serverStop` and `workerOnList` are read and written without
synchronisation; they are modelled as variables all threads see alike, which is
what the x64 build does as long as the compiler does not keep them in registers.
`AcceptOnlyWithQueues` covers the time up to the joins of `StopServer`: until then
an Accepter finds the lists allocated and every queue either open or one that
could not be made, which nobody checks.  After the joins the queues are closed and
the lists deleted under an Accepter that may still run; the property does not
claim otherwise.

### PacketDispatch and Logger

`PacketDispatch` has PacketManager's maps, the reply handlers, and the static
types under which a packet pointer is put into a `std::any` and taken out of it.
`Logger` has the queue under its lock, the two auto-reset events and the drain
loop of the logger thread; the text of a log is left out.  Both serve to state
what the README of the repository promises, and both promises fail.

### LanClient

`CMultiLanClient` keeps a fixed list of sessions, called channels here, that all
share one completion port.  Its protocol resembles the server's (a count of I/O,
an interlocked `IOMode`) but differs where it matters: any worker may handle any
channel, a channel is never destroyed but released and connected again, and the
count is taken *before* the call.

*State.*  Per channel the fields of `Session`; `SendQ` is the length of the
queue, `lBufferCount` that of the store `pSeirializeBufStore`.  `dangling` are
the channels whose store points at packets that were given back to the pool
(`ReleaseSession` frees them and leaves `lBufferCount` as it was); freeing them
again, or following a pointer that `Dequeue` did not write, is undefined and ends
the process or does not.  `ringFull` is what `RecvPost` asks of the ring, which
`RecvStream` models for the server.  `sock` and `bound` describe the socket
handles; the lowest handle that is closed and holds no request is used again.
`iocp` is the port's queue, `recvs` and `sends` the requests the kernel holds.

*Threads.*  One step per interlocked operation, per call of Winsock and per
section under `reconnectListLock`; the dequeue loops of `SendPost` and
`ReleaseSession` are one step each, after a step of their own that reads the
size.  In `Start` the steps before a channel's `RecvPost` are one: nobody else
knows the channel yet.  What the code leaves open stays open: a new connection
exists before the port knows its socket, and a completion in between is `lost`;
`pop_front` runs without the lock under which workers append
(`AppendToListRaces`: the new id is lost or the process crashes); a failed
`WSASend` leaves `IOMode` at `SENDING`; a failure ends the Reconnecter for good;
the NULL packet by which a stopping worker wakes the next one crashes it; an
index beyond `sessionList` crashes.

*Left out.*  `UseSize < 0` and `WSAEISCONN` on a fresh socket cannot happen;
`bIsConnect` and `m_numOfReconnect` are never read, and the callbacks of
`DBClient` other than `OnRecv` are empty.  Of `m_channelSelector` only the
remainder that `GetChannelId` uses is kept.  Packets come from the pool, as
`SendPacket` and `Free` demand; `DBClient.cpp:86-89`, the only sender in the
repository, passes the address of a local buffer instead, which is dead before it
is sent and was never the pool's to free.  No property is about the contents or
the owner of a packet.  `m_IOCount` is an integer: it is a `UINT` that is only
compared with zero.

*What the history variables are for.*  Three properties hold except after events
in which the code really goes wrong, and these events are recorded: `filled`
(the ring was full in `RecvPost`, which then decrements a count that the worker
decrements once more), `disturbed` (a send and a release of one channel
overlapped: the release met a send with its store filled and not yet counted,
the queue was emptied under `SendPost`, or the send was counted on a channel
whose count was zero) and `raced` (an append to the list was lost).  Each
of these events happens in the instance of run `LanClient` (`disturbed` not in
`LanReconnect`, where nobody sends), so the properties say that nothing *else*
breaks them.

## 3. Runs

Bounds: `Sessions`, `Contexts`, `Packets` and the threads are small sets;
`MaxQueue` bounds the packets waiting, `MaxBatch` the packets one receive
brings, `UIntMod` stands for 2^32 and is larger than any count an instance
reaches without wrapping.  A session needs at most two contexts at a time (one
request of each kind), a worker holds one more while it handles a completion,
and a leaked one is lost for a session that can then do nothing with it, so
three contexts never run out with one session.

| Run | Instance | Result |
|---|---|---|
| `SessionShared` | 1 session, 1 worker, 1 other thread, bad packets, fairness | `TypeOK`, `IOCountAccounting`, `IOCountNotNegative`, `ContextHasOneOwner`, `OneReceive`, `DeadSessionRemoved` hold |
| `SessionWorkerOnly` | 1 session, 2 workers, failing RIO calls, several packets at a time; only the worker sends, well-formed packets | `IOCountAccounting`, `PostedBuffersRegistered`, `RequestQueueSerialized` hold |
| `SessionLoad` | 1 session, 1 worker | refutes README.md:51 |
| `SendFIFO` | 3 packets, 2 callers and the worker, all fits, fairness | `ImplementsChannel` holds |
| `SendOverflow` | 4 packets that overflow the buffer, one that never fits, a farewell packet, failing sends | `TypeOK`, `SendExclusive`, `LengthIsCopied`, `NothingLost`, `NoLostWakeup`, `ImplementsChannelSafety` (the channel without its fairness) hold |
| `SendCrash` | 2 packets of valid size | refutes the comment at RIOTestServer.cpp:778-779 |
| `RecvStream` | ring of 9, headers of 2, payloads 0 to 3 of which 3 is too long, wrong codes, packets that do not decode, 3 packets, fairness | `TypeOK`, `ReceiveLeavesUnread`, `PacketsInOrder`, `ErrorIsClients`, `NeverStuck` hold |
| `ServerStop` | 3 workers, fairness | `TypeOK`, `AcceptOnlyWithQueues`, `QueueOutlivesWorker`, `StopServerReturns` hold |
| `LanClient` | 1 channel, 2 workers, 1 caller, 1 packet, a store of 1, 2 handles, 1 failure | `TypeOK`, `IOCountExact`, `SendExclusive`, `ReleaseIsAlone` hold |
| `LanReconnect` | 2 channels, 1 worker, 2 failures, fairness | `IOCountExact`, `Reconnects`, `StopEnds` hold |
| `LoggerWrites` | 2 logs, fairness | refutes README.md:87 |
| `DispatchCast` | the registered packet ids, the reply ids and one that is not registered | refutes README.md:67 |

In `RecvStream` three packets of two to five bytes go around the ring of nine
cells, so packets and headers are cut at every place, a packet can wrap around
the end of the ring, and one that blocks the ring can have good ones before and
behind it.  That `rioRecvOffset` wraps takes more packets; for that there is the
proof.

In `SendOverflow` a buffer of eight bytes and packets of one and seven give a
total of exactly `MAX_SEND_BUFFER_SIZE`, larger ones a total beyond it.

In `LanClient` a failure is any of: the server disconnects, a call of Winsock
fails on an open socket, the ring fills up.  One failure is enough for a release,
a reconnect and a second use of the handle, and a channel number of two
(`NumOfUsingWorkerThread` and the workers are two, the channels one) shows the
unchecked index.  A packet that is sent while the channel goes down meets every
step of `ReleaseSession` and of the Reconnecter.  `LanReconnect` has two failures
so that both channels can be on the list, and in either order, or one can break
down again before it is popped.  With one worker `StopEnds` means that `Stop`
returns; with two, the NULL packet crashes the process.

`IOCountAccounting` does not depend on how many sessions and workers there are
(it is proved for all numbers), so one session serves in `SessionWorkerOnly`; the
second worker is there for `RequestQueueSerialized`: with the sends bound to the
other worker's completion queue, two workers would call RIO on one request queue.
That property is checked without other senders, because with them it is false
(see below).

What the refuted statements come from:

* **`SessionLoad`**: `RecvPost` increments `ioCount` after `RIOReceive`.  The
  receive completes with zero bytes, the worker decrements, the count is zero
  too early; the session is released by the worker and, after the late
  increment, by the Accepter again.  `numOfSessionInWorkerThread` wraps.
* **`SendCrash`**: `MakeSendStream` subtracts a packet's size twice from the room
  left.
* **`LoggerWrites`**: `WriteLogImpl` loops `while (restSize > 0)` and never
  changes `restSize`.
* **`DispatchCast`**: `OnRecvPacket` puts an `IPacket*` into the `std::any`; the
  handler's lambda asks for an `IGameAndClientPacket*`.

Five more disagreements are in the model and have no run of their own.
`OnSessionEntered` is the last thing `MakeNewSession` does, and the session may
be gone by then: its id stays in `sessionIdSet` (README.md:71 says a removed
session is taken off).  The bad-packet path of `RecvCompleted` calls
`ReleaseSession` right after `RecvPost`, with the receive in flight
(README.md:58-59 says a session is removed when no I/O is in progress).  That path
(line 422) does not go through `IOCountDecrement`, so `OnSessionLeaved` is not
called there; the completion of the receive finds no session and is dropped, the
count stays above zero, and the id stays in `sessionIdSet` for good.
`SendPost` calls `RIOSend` on the caller's thread, so a caller and the worker may
be in `RIOSend` and `RIOReceive` of one request queue at once (README.md:54 says a
session belongs to one worker and RIO needs no lock).  And `MakeSendStream`
returns the size of the packet it put aside with the rest, so that a send is
refused as too long or takes old bytes of the buffer with it (section 2;
`SendOverflow` contains both).

`PostedBuffersRegistered` is checked only without other senders and without bad
packets: with either, a session is released while a request is in flight.

### Fairness

`SessionShared` assumes that every thread keeps running (weak fairness of its
steps: workers poll in a loop, nothing in the modelled paths blocks except short
locked sections) and that the kernel reports the end of a request on a dead
connection, which TCP and RIO do: weak fairness for receives; for sends strong
fairness, because a send on such a connection may be reported as sent and the
worker then posts the next one, but not for ever.  Nothing is assumed of clients
or of calls.
`SendFIFO` assumes the same of the senders, the worker and the kernel.
`RecvStream` assumes that the worker keeps polling and that the kernel puts
what arrived into a posted receive; clients need not send.  `ServerStop` assumes
that the main thread and the workers run, not that anybody presses the escape
key.  `LanReconnect` assumes that threads are scheduled, that the server accepts
connections when the Reconnecter asks, and that the kernel ends the requests of
a broken or closed socket; nobody has to disconnect, send or call `Stop`.
`LoggerWrites` assumes that the logger thread runs.

## 4. Proofs

Every safety invariant of a run that passes is a theorem, for every value of the
constants the module's named `ASSUME`s allow: finite sets of threads, contexts,
channels or sockets, distinct kinds of threads, positive bounds.  Each theorem
rests on an inductive invariant that was first checked with TLC on the instances
of the runs.

### Sessions

`SessionLifecycleProofs`, for every number of sessions, workers, callers and
contexts:

* `TypeCorrect`: `Spec => []TypeOK`;
* `IOCountExact`: `Spec => []IOCountAccounting`.

`IOCountAccounting` says of a session that can be looked up (or is being made)

    ioCount + receives posted but not yet counted
        = requests in flight + handlers running + sends counted but not yet posted

It is not inductive.  A dequeue moves a request from "in flight" to "handler",
so the queues must hold each context once and only contexts in state `queued`
(`QueueInv`, `HeldInv`); a return from `SendPost` or `ReleaseSession` must end
or continue a handler as the caller was one (`ReturnInv`); a busy thread must
have a session (`SessionInv`); and a new session must start with empty sets on
the right-hand side (`FreshInv`, `NewInv`).  `IInv` is their conjunction.  Most
actions change neither side (lemma `Neutral`); the eight that do have a lemma
each.

`SessionOwnershipProofs` builds on `IInv`:

* `RIOCallsSerialized`: `Spec => []RequestQueueSerialized`, assuming `Callers = {}`.
  `InitSession` binds the request queue, for receives and for sends, to the worker
  that `threadId` names (`BindingInv`), so a completion waits in that worker's queue
  (`QueueOwnerInv`) and a busy worker works for a session of its own
  (`OwnWorkerInv`).  The Accepter posts the first receive while nothing of the
  session is in flight and no worker works for it, and it never sends
  (`FirstPostInv`).  The hypothesis is needed: a caller sends on its own thread.
* `ReceiveIsUnique`: `Spec => []OneReceive`.  A receive and a thread that is going
  to post one exclude each other, per session (`ReceiveInv`).  The thread may be
  inside a `SendPost` or `ReleaseSession` that returns to `RecvPost`, so the
  invariant looks at `ret` too.
* `ContextOwnedOnce`: `Spec => []ContextHasOneOwner`.  Who has an `ioContext` is a
  worker in a handler (`HolderInv`), and conversely a queued context is in some
  queue and a held one with some worker (`QueuedPlaced`, `HeldPlaced`).

`SessionReleaseProofs` proves `BuffersOutliveRequests`, which is
`Spec => []PostedBuffersRegistered` assuming `WorkerOnly`, with
`WorkerOnly == Callers = {} /\ ~BadPackets`.  The hypothesis is needed: with another
sender, or a packet that does not decode, TLC finds the violation (section 3).  The
argument is that a release starts from a count of zero, so by `IOCountExact`
nothing is in flight, and that under `WorkerOnly` no thread is on its way to post
once it has started (`OverInv`; `FlowInv` and `LiveInv` say where threads of a
released session may be and that its socket is closed before it leaves the map).

It also proves `CountNotNegative`: `Spec => []IOCountNotNegative`, without that
hypothesis.  `IOCountDecrement` tests for zero only, so a count below zero would
never be noticed.  While a session is in the map the accounting equation bounds
its count; a session that was released too early (section 3) is not bound by it:
completions that come later are dropped without counting down.  `GoneInv` says that
the count of such a session is at least the number of threads that are going to
subtract from it, and `ShareStep` that no step of a thread changes that.

### Send path

`SendPathProofs`, for every number of threads and packets of every size:

* `TypeCorrect`;
* `BufferExclusive`: `Spec => []SendExclusive`, the send buffer has one user;
* `LengthExact`: `Spec => []LengthIsCopied`, the `Length` of a posted send is what
  was copied, or exactly `MAX_SEND_BUFFER_SIZE` with a packet put aside;
* `NothingIsLost`: `Spec => []NothingLost`, the accepted packets are those
  transmitted, buffered, reserved and queued, in this order (which does not say that
  those waiting behind a failed send are ever sent);
* `NoWakeupIsLost`: `Spec => []NoLostWakeup`, a packet that waits has a thread or a
  completion that will look at the queue;
* `ChannelRefinement`: `Spec => ImplementsChannelSafety`, the initial states are
  those of `SendChannel` and every step is a step of it or a stutter.

`IInv` adds to the types and to `NothingLost` two facts: `OwnerInv`, whoever
is between a successful compare-exchange on `ioMode` and the completion of the
send is the only one there, and then nobody else fills the buffer; and `LoopInv`,
the copy loop never dequeues more than it counted, so that the queue cannot be
empty under it although others append meanwhile.  `WakeInv` is what the second
look at the queue in `SendPost` is for: while `ioMode` is free, somebody is between
giving it back and looking again, or about to claim it.  The refinement needs in
addition that a packet on its way to the queue is new and in one thread's hands
(`NewPacketInv`), because the channel accepts a packet once; that a
transmission takes whole packets off the front of what was accepted, which is
`NothingLost`; and that before any stale byte the client could tell all of them
apart (`ReceivedInv`).  `LengthInv` follows `totalSendSize` through the copy loop.

### Receive path

`RecvStreamProofs`, for every size of the ring, the header and the payloads:

* `TypeCorrect`;
* `UnreadIsSafe`: `Spec => []ReceiveLeavesUnread`;
* `EveryPacketOnce`: `Spec => []PacketsInOrder`;
* `OnlyBadClientsEnd`: `Spec => []ErrorIsClients`.

Packets with a wrong code and without payload are among the packets.
`OffsetInv` says that `rioRecvOffset`, which is never reduced modulo the ring,
and the ring's write position agree; this is where `RingAssumption` (the ring
size divides 2^32) is used, through the lemmas about `%` at the head of the
module. `RequestInv` says that the posted request is the one computed for the
ring as it is.  `StreamInv` is about the bytes: ring, completed bytes and
network together are the client's packets from the first that was not yet handed
on, each whole and behind the one before (`Follows`).  Sending appends a packet
to that stream, the kernel and `RecvCompleted` move the border inside it, and
taking a packet drops its head; each of these has a lemma that knows nothing of
the ring.

### Start and stop

`ServerLifecycleProofs`, for every number of workers:

* `TypeCorrect`;
* `QueuesBeforeAccept`: `Spec => []AcceptOnlyWithQueues`;
* `QueueUsableByWorker`: `Spec => []QueueOutlivesWorker`.

The invariant says what each loop of the main thread has established for the
workers before `next`: seen on, hence with a queue or with one that could not be
made (`QueuesInv`, which does not tell them apart, nor does the code); joined, hence
gone (`ClosedInv`); and that no thread exists before the lists do
(`StartedInv`), which a start that fails half-way needs.

### Client of the DB server

`LanClientProofs`, for every number of channels, workers, callers, handles and
packets:

* `TypeCorrect`;
* `OneSenderOwns`: `Spec => []SendExclusive`.

The types already need three facts: a thread at work has a channel (`ChanInv`),
what the port delivers belongs to one (`QueueInv`), and the list is not empty while
the Reconnecter works on its first entry (`ListInv`; workers append meanwhile).
`StoreInv` is the ownership of a channel's store and `OVERLAPPED`.  From a
successful compare-exchange to the reset of `IOMode` there is one owner: a thread
inside `SendPost`, the kernel, or one completion packet in the port; while `IOMode`
is free there is none.  A failed `WSASend` leaves `IOMode` taken with no owner and a
filled store, and a store that is not empty is how the invariant tells that case.

`LanCountProofs` adds

* `CountIsExact`: `Spec => []IOCountExact`;
* `OneReleases`: `Spec => []ReleaseIsAlone`.

`CountInv` says that `m_IOCount` is the number of receives and sends the kernel
holds, completions lost before `bind`, completion packets in the port, and threads
that serve a completion or are between an increment and their call.  The part
about the kernel (`Pending`) and the part about threads (`Holders`) have lemmas of
their own; what a step of one thread adds to the second is the difference of its
`Weight`, so that each action is a small sum.

The second theorem is about the life of a channel.  Any of the workers, a caller
and the Reconnecter may be the one whose decrement gives zero, and nothing but
the count keeps a second thread out of `ReleaseSession`.  `LifeInv` says that a
channel is released by at most one thread and listed at most once for the
Reconnecter; that its count is zero while it is released, listed or not yet
reached by `Start`; and that these three exclude each other.  So the decrement
to zero finds nobody else in `ReleaseSession`, and (on a channel that is not
`disturbed`) only `RecvPost` of Main or the Reconnecter raises a count from
zero.  `RoleInv` says which thread can be where and `HeadInv` that the
Reconnecter works on the first entry.  With the exact count, zero means that no
request, no completion packet and no serving thread is left (`ZeroIsEmpty`), and
the theorem follows.  The exceptions `disturbed` and `filled` are those of
section 2: in these the code does go wrong.

### Only model-checked

What needs fairness, which TLAPS does not handle: `DeadSessionRemoved`,
`NeverStuck`, `StopServerReturns`, `Reconnects`, `StopEnds`, and the liveness half of
`ImplementsChannel`.  `Logger` and `PacketDispatch` serve to refute a statement and
have no theorems.

## 5. Not modelled, and the plan

What is left to prove:

1. Action properties from the invariants that exist, such as: outside the recorded
   exceptions a channel's count is raised from zero only by `RecvPost` of Main or
   the Reconnecter, and an entry leaves the list only when its channel is counted
   again.
2. An abstract specification of a channel's life (new, in use, being released,
   listed), which `LanClient` implements outside the recorded exceptions.

Not modelled:

* **DB jobs** (`DBJob`, `BatchedDBJob`, `DBJobManager`).  No path of this version
  reaches them: the handler that would start a batch is behind the cast that
  throws (`DispatchCast`), `DBJob` never sets `jobSPBuffer`, so that
  `SendPacketImpl` refuses its job as null, and the reply of a batch has no
  handler in `SPReplyHandle`.  A model would be of a program that does not exist;
  once it does, note that `RegisterDBJob` takes a second key (`DBJob.cpp:111`).
* **`DeadlockChecker`**: compiled out (`USE_DEDALOCK_CHECKER` is 0).
* Option parsing, console output, the JSON of log objects, the RAII lock wrappers
  (a locked section is a step).
