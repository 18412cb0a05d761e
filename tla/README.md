# fuerte in TLA+

fuerte is a C++ client library for ArangoDB. A user thread hands a request and a
callback to a `Connection`; threads that run a boost asio `io_service` send it,
over VelocyStream (VST) or HTTP, and call the callback with a response or an
error. This directory holds TLA+ modules for the parts that carry the program's
concurrency, the TLC runs that check them on small instances, and TLAPS proofs
of some of the properties for instances of any size.

## The system

| component | state | operations | hard because |
|---|---|---|---|
| `VstConnection` (`src/VstConnection.{h,cpp}`) | `_sendQueue`, `_messageStore`, `_readLoop._current`, `_writeLoop._current`, `_socket`, `_connected`, `_permanent_failure`, `_messageID`; per loop object its socket, deadline and receive buffer | `sendRequest`, the handlers of resolve, connect, handshake and header, `startWriting`/`startReading`, the two loops, `restartConnection`, `shutdownConnection` | user threads and io threads interleave between seven mutexes and atomics; failures and timeouts restart the connection under running loops |
| `MessageStore`, `SendQueue`, `CallOnceRequestCallback` | requests in flight, requests waiting, whether a callback ran | add, insert, front, removeFirst, findByID, removeByID, cancelAll, minimumTimeout, invoke | several threads compete for one item, whose request can be moved out once |
| VST framing (`src/vst.{h,cpp}`) | the chunks received so far of each item, the receive buffer | buildChunks, write and read of chunk headers, isChunkComplete, addChunk, assemble | portions of any size, chunks in any order, responses interleaved |
| `WaitGroup`, synchronous `sendRequest` | counter, mutex, condition variable on the stack of the waiter | add, done, wait, wait_for | the waiter frees what the callback uses |
| `EventLoopService` (`include/fuerte/loop.h`, `src/loop.cpp`) | io_service, its work object and threads | run, the destructor | connections and loops own each other, handlers own both: the threads end only when all of them let go |
| `HttpConnection`, `CurlMultiAsio` | curl easy and multi handles, sockets, one timer | sendRequest, socket, timer and event callbacks, handleResult | callbacks between curl and asio, raw pointers in handlers |
| messages (`src/message.cpp`), `ConnectionBuilder`, requests, helpers, logging | payload buffer and slices | addVPack, addBinary, slices, conversions | none runs concurrently |

Interaction: `sendRequest` shares the queue, the flag `_connected` and
`_writeLoop` with the io threads; the write loop passes items from the queue to
the store and starts the read loop; the read loop takes items from the store;
either loop, on an error or a timeout, resets both loops, closes the socket,
fails the stored items (`cancelAll`) and resolves the host again; the setup
handlers set `_connected` and start the loops. Callbacks run on the io threads
and may send the next request from there.

## Modules

| module | models |
|---|---|
| `Connection` | what a connection promises its users, whatever the protocol: the abstract specification |
| `VstConnection` | the client: threads, items, queue, store, loops, restart, setup |
| `VstSystem` | the client composed with the io_service, the network and the server (external); specifications and properties |
| `VstCallbacks`, `MCVstCallbacks` | `VstSystem` with callbacks that send requests, and the mutex of the message store |
| `VstLifetime`, `MCVstLifetime` | `VstSystem` with users that drop the connection, its destructor, and the end of `EventLoopService` |
| `MCVstSystem` | model values for TLC |
| `VstSystemProofs` | type correctness of `VstSystem`; no stored request without its `Request` object |
| `VstAccountProofs` | no request lost, `VstSystem` implements `Connection`; a callback gets its request back |
| `VstWakeupProofs` | no lost wakeup of the write loop and of the read loop |
| `VstFaultFreeProofs` | without faults and timeouts: header first, then the authentication request, one write at a time, no crash, requests handed back |
| `VstLifetimeProofs` | a dropped connection is destroyed, and not before its store is empty |
| `VstFraming`, `MCVstFraming` | chunking, framing and reassembly |
| `VstFramingProofs` | responses of any size are reassembled as they were sent |
| `WaitGroup`, `MCWaitGroup`, `WaitGroupProofs` | wait groups and the synchronous `sendRequest` |
| `CurlMultiAsio` | the callbacks between curl and asio, with curl, the io_service and the network (external) |
| `HttpConnection`, `MCHttpConnection` | HTTP requests, their store and their results on top of `CurlMultiAsio`; specifications and properties |
| `HttpProofs` | types and ownership of easy handles in `HttpConnection`, which implements `Connection`; sockets, timer and count of requests in `CurlMultiAsio` |

### Connection

`include/fuerte/connection.h` promises: *"Send a request to the server and return
immediately. When a response is received or an error occurs, the corresponding
callback is called."* `Connection` says so with two variables: `pending`, the
requests the connection is responsible for, and `result`, what each callback was
called with. A request is accepted once; callbacks are called only for pending
requests, which are then no longer pending; nothing else ends it. Several
requests can be answered in one step, which is what `cancelAll` does.

`HttpConnection` implements it with `pending` the stored items that no thread has
come to the end of `handleResult` with, and `result` the variable `answer`.
`VstSystem` implements it with `pending` the requests of users that are with the
thread that enqueues them, in the send queue, in the message store, or with the
thread about to call back, and `result` the variable `outcome`, both without the
authentication requests, which are the connection's own. That every request is
also answered in the end is stated for each protocol by itself, with the fairness
it needs (`EveryRequestAnswered`, `StoredIsAnswered`, `EveryHttpRequestAnswered`).

### VstConnection and VstSystem

*Threads.* `todo[t]` is the stack of calls thread `t` has still to make. Each
call is one atomic step from one point where others can interfere (lock, atomic,
asio call) to the next, and pushes the calls the code makes next: `sendRequest`
is `SendRequest` (createRequestItem), `Enqueue` (`_sendQueue.add`),
`CheckConnected` (the read of `_connected`) and possibly `StartWriting`, `Front`
and so on. User threads start `sendRequest` with an empty stack; io threads with
an empty stack take the handler of any completed operation or expired timer
(`Dispatch`). User callbacks only record that they were called, with what, and
whether they received their request.

*Mutexes.* A critical section without another lock inside is one step. The only
one that spans steps is `getNextRequestToSend`, which holds `_writeLoop._mutex`
from `front()` to `removeFirst()` and takes the queue's and the store's mutex in
between: `WriteMutexFree` guards everything else that needs that mutex.

*Items.* A request is its message ID. `owns` is the set of items whose
`_request` has not been moved out, `sent` those whose send data was reset,
`chunks` the response chunks added, `outcome` what the callback was called with,
`handed` whether it got the request. `MoveRequest` and `Invoke` are two steps,
as in the code: the request is moved into the argument before `invoke` decides
whether this call is the first.

*Loops.* `rd[l]` and `wr[l]` are the loop objects, with the socket they were
created on, the state of their asynchronous operation, and their deadline, which
is armed, or expired with its handler queued; `cancel` only stops an armed one.
`readCur` and `writeCur` are the `_current` pointers. A loop started through the
raw pointer `newLoop` is alive only as long as it is current (`Freed`). Numbers
of loop objects nothing refers to are used again.

*Death.* Failed asserts and dereferences of what is not there are actions that
set `crash` (`DerefFreedLoop`, `DerefNullRequest`, `DerefNullSocket`,
`AssertFails`); nothing happens after them. The default CMake build defines no
`NDEBUG`, so asserts are active.

*Environment.* Each socket is open, connected, lost or closed. Pending
operations on a closed socket fail; writes on a lost one may still succeed. The
server answers a written request with `ChunksPerResponse` chunks in any order
relative to other responses, or not at all.

*Not in the model:* `requestsLeft`, which only reads, the torn copy that the
unsynchronised copy of `_socket` could produce, SSL's own traffic (the code
writes requests on the plain socket), the second and later endpoints of a
resolved host, the time `_sslSocket->shutdown` blocks under `_socket_mutex`
(VstConnection.cpp:168; `ShutdownSocket` is one step, so a peer that never answers
the SSL shutdown is not covered, and the liveness run `drains` is without SSL), JWT authentication (the code throws), and exceptions in handlers,
which end the process (`handleRunException`).

### VstCallbacks

A callback of `VstSystem` only records its result. Here the thread that called it
is inside it afterwards (`callback`), and the callback sends a request
(`SendFromCallback`: the calls of `sendRequest` go on top of the thread's stack)
or returns. `LockedCalls` are the calls that call back with the store's mutex
locked, which is `cancelAll`; while such a callback has not returned, no call
that locks the store (`StoreCalls`) can be made, by its own thread neither.

### VstLifetime

`holding` are the users with a `shared_ptr` to the connection, `exists` is true
until its destructor has run, `service` tells whether the threads of the
`EventLoopService` have been joined. `Referenced` lists who owns a connection:
users, calls in progress, handlers and timers, its current loops (each loop has a
`shared_ptr` to the connection, which has one to each current loop), and the
callback of an unanswered authentication request. `Destroy` is the destructor,
run by whichever thread dropped the last reference, and `Joined` the return of
`join_all`, which waits until the io_service has no work.

### VstFraming

A byte on the wire is the message it belongs to, the header field or `data`, and
the field's value or the position in the message. `Request` builds the chunks
(`BuildChunks`), the server returns them framed (`WriteChunk`) in any order;
`AsyncRead` moves any number of bytes to the receive buffer, `ProcessChunk` is a
turn of the loop in `asyncReadCallback` with `processChunk`, `addChunk` and
`assemble`, `ReadNextBytes` continues or ends the read loop. Header sizes and
offsets are the real ones; the maximum chunk size is scaled from 30000 to 26.
`Sums` adds up sizes as a recursive function, and `Sorted` places every chunk of
an item by the number of chunks before it, which is what `std::sort` by index
comes to, since no two have the same index.

### WaitGroup

`Start` is `add()` followed by `sendRequest`; a callback stores its result
(`Store`) and then runs `done()` as three steps (`Done` takes the mutex and
counts down, `Notify`, `Unlock`), so that what happens between them is visible.
The waiter blocks, may wake spuriously, and rechecks the counter with the mutex.

### CurlMultiAsio and HttpConnection

*Requests.* A request is its easy handle. `sendRequest` either throws (`Reject`)
or puts the item into the store (`StoreItem`) and gives the handle to curl
(`AddRequest`, which takes `_multi_mutex`); another thread can run in between.

*Calls into curl.* `timer_cb` and `event_cb` lock `_multi_mutex` and call
`curl_multi_socket_action`. The call is several steps: it starts (`TimerCb`,
`EventCb`) with the set of transfers it concerns, advances each of them
(`CurlStep`), and returns (`SocketActionReturns`). `holder` is the thread inside;
nobody else can enter curl. The rest of the handler interleaves: the write of
`_requests_left` (`Count`), each `curl_multi_info_read` (`ReadInfo`), each
`curl_multi_remove_handle` with the post of its result (`RemoveHandle`), and the
end of `event_cb` that stops the timer without `_multi_mutex` (`KillTimer`).
`handleResult` calls the callback (`HandleResult`) and removes the item (`Erase`).

*Callbacks of curl.* They run inside its calls and are part of its steps:
`MultiTimerCb`, `SetSocket` (add_socket and set_socket), `RemoveSocket`,
`OpenSocket`, `CloseSocket`. A wait that asio completes is gone
(`WaitCompletes`), one that is cancelled still calls `event_cb`.

*curl, external.* A transfer is new, resolving, connecting, sending, receiving or
done. curl calls the socket callback when the directions it waits for change,
and the timer callback when its next timeout changes: `told` is the timeout it
told last. A response comes in up to `Portions` portions. A transfer ends with
its last portion, an error, `readBody` out of memory (`BodyRefused`) or its deadline,
and leaves its connection open for another one or closes it. The deadline is
`CURLOPT_TIMEOUT_MS`, which a request may do without, and until the connection is
established `CURLOPT_CONNECTTIMEOUT`, which the code always sets (`HasDeadline`).
`polls` are timeouts curl sets itself before the deadline.

*Not in the model:* the destructors, the text of URLs, headers and bodies,
errors of curl that end the process (`assertCurlOK`), callbacks that throw.

## Runs

All runs finish within a few minutes. Deadlock is not checked: a connection with
nothing to do, or a finished wait, rests.

| run | checks | instance |
|---|---|---|
| `lost` | `TypeOK`, `StoreOwnsRequest`, `Accounted`, `QueueServed`, `StoreWatched` | 1 user, 1 io thread, 2 requests, 2 chunks per response, SSL, 2 attempts, 1 fault |
| `timeout` | `HandedBack` | 1 user, 2 io threads, 1 request, 2 attempts, 1 racing timeout |
| `auth_restart` | `QueueServed`, `ImplementsConnection` | authentication, 1 request, 3 attempts, 1 fault |
| `fault_free` | `NeverDies`, `OneWriteAtATime`, `HandshakeFirst`, `AuthenticatesFirst`, and `EveryRequestAnswered` with a server that answers | 1 user, 2 io threads, 2 requests sent by the user or by a callback, authentication |
| `drains` | `StoredIsAnswered`, `DestroyedDrained`, `NothingLeaks`, `ServiceStops` whatever the server does | 1 request, users that drop the connection at any time, 1 fault, 1 racing timeout |
| `framing` | `ResponseIntact`, `StartsWithHeader`, `StopsClean`, `ChunksFit`, `ResponseDelivered` | 2 messages, 3 chunks, one of them from a slice that needs two; both versions |
| `wait_group` | `TypeOK`, `ReturnIsSafe`, `WaitReturns` | 3 events, wait and wait_for |
| `http` | `TypeOK`, `OneOwner`, `TimerKept`, `WatchedInUse`, `LeftSettles`, `ImplementsConnection`, `EveryHttpRequestAnswered` | 2 requests, 1 socket number, 1 io thread, 2 portions, requests with a timeout |
| `unanswered` | violates `EveryRequestAnswered` | 1 fault |
| `restart_asserts` | violates `RestartAssertsHold` | 1 fault |
| `callback_stuck` | violates `SendReturns` | 2 requests, 1 fault |
| `http_unread` | violates `EveryHttpRequestAnswered` | 1 request without a timeout, 2 portions, up to 1 timeout of curl's own |

*Bounds.* `MaxRequests`, `MaxAttempts`, `MaxLoops`, `MaxFaults` and
`MaxTimeouts` bound the requests sent, the connection attempts, the loop objects
alive at once, the failures of network or server and the expiries that race with
something else. Two requests are enough for one to be queued while another is
written or stored; two attempts are one restart, three are needed for a second
one while the first is under way (`auth_restart`); three loop objects are a
current one, a failed one with its handlers still queued and a new one. One
fault or timeout at any moment already interleaves with every call. When the
budget of racing timeouts is used up, a deadline still expires once everything
else is quiet, so that `StoredIsAnswered` is not an artefact of the budget; with
a budget of 0 none expires. In `http` two requests on one socket number are
enough for a connection to be reused, for a number to be closed and opened again
while handlers of the old socket are queued, and for one transfer to be added
while the other ends. `Portions` is 2, since every portion but the last is
treated alike, and `MaxPolls` is 0: a deadline is a timeout too. `http_unread`,
whose request has no deadline, grants curl one timeout of its own at any
moment, besides the one to establish the connection.

*Fairness.* Threads that can take a step do (`WF` on `Run` of each thread), the
io_service runs handlers (`Dispatch`), the kernel completes operations that can
complete (`Completion`) and timers expire (`Expiry`): this is what the operating
system and asio guarantee. Only `fault_free`, `callback_stuck` and `unanswered`
also assume that the server answers, the first two that callbacks return. `drains` also assumes
that a setup operation on a lost connection fails, the destructor runs when
nothing refers to the connection, and `join_all` returns when there is no work;
it assumes nothing of when users drop the connection. `framing` assumes that the
server sends its chunks, `wait_group` that threads are scheduled. `http` assumes that threads go on and the io_service
runs what is ready, nothing of the network or the server; `http_unread` also
that the server sends its whole response.

*One io thread in `http`.* `OneOwner`, `WatchedInUse` and the refinement are proved
for any number of io threads. `TimerKept` and `LeftSettles` hold with one io thread only. With two,
`event_cb` on one thread can see 0 running transfers, release `_multi_mutex` and
stop the timer that curl asked for on the other thread for a transfer added
since; and `_requests_left` can be overwritten by an older count.

### What the failing runs show

A restart does not reset `_connected`. A `sendRequest` during a restart therefore
starts a write loop between the reset of the loops and the assert that they are
reset (`restart_asserts`), on a socket whose header is still being written (so
that `OneWriteAtATime`, which `fault_free` checks, fails with a fault), or on the
socket that is being closed, whose failure restarts the connection a second time,
so that two resolve handlers initialise the socket (which `RestartAssertsHold`
excludes as well). The same interleavings reach a null socket, a freed loop and a request that `cancelAll`
moved out. Independent of it, a failed connection attempt leaves queued requests
unanswered (`unanswered`), and a callback that `cancelAll` calls
and that sends its request again never returns (`callback_stuck`): `_connected` is
still true, so `sendRequest` starts a write loop, whose `_messageStore.add` waits
for the mutex that `cancelAll` holds on the same thread, with
`_writeLoop._mutex` locked. Callbacks of responses and of write errors are called
without a lock and may send: `fault_free` lets them.

With authentication, the authentication request can be inserted at the front of
the queue between `front()` and `removeFirst()`; it is then removed in place of
the request that was taken ("Remove item from send queue", VstConnection.cpp:617),
which is sent twice. `auth_restart` reaches this case and shows that users do
not notice: no request is lost or answered twice (`ImplementsConnection`). Because of it
`Accounted` and `StoreOwnsRequest` are claimed of connections without
authentication only. An authentication request that fails (its write, or by
`cancelAll`; the code does not look at the answer) also ends the connection for
good while a request may still be stored, which `StoreWatched` excludes, and
leaves `_current` set when the loops stop (VstConnection.cpp:381), so that the
connection is never destroyed, which `NothingLeaks` excludes.

Over HTTP, a response that does not arrive at once is not read to its end
(`http_unread`). The waits of `set_socket` end with the first event; `event_cb`
does not start another, and curl, which goes on waiting for the same direction,
does not call `socket_cb`. Only a timeout moves the transfer on: with the
default of 30 s the callback gets `Timeout` although the response was received,
and with a timeout of 0, which is none for curl, it is not called once curl's
other timers, such as the one of the connect timeout (at least 1 s), have run out:
what arrives before them they do read. With responses of one portion the property
holds.

Divergences seen while modelling that need no run: a lost connection is not
reported to `onFailure` (types.h:65), the read loop of an idle connection stops
(VstConnection.h:67 says it runs until the connection is stopped), and
`_maxChunkSize` is read nowhere (connection.h:117).

## Proofs

All theorems hold for any sets of threads, requests, sockets, messages and events
and any bounds, from the named assumptions of the modules they are about
(`ThreadsAssumption`, `BoundsAssumption` and `ConfigurationAssumption` for VST,
`PartsAssumption` and `SizesAssumption` for the framing, those of `CurlMultiAsio`
for HTTP). Some need more, and say so: `~Auth`, a connection that does not
authenticate; `MaxFaults = 0` and `MaxTimeouts = 0`, one whose network and server
do not fail and whose deadlines do not expire; or one io thread.
Every inductive invariant was an invariant of a TLC run before it was proved.

| theorem | states | needs |
|---|---|---|
| `VstSystemProofs!TypeCorrect` | `[]TypeOK` | |
| `VstSystemProofs!StoreOwned` | `[]StoreOwnsRequest` | `~Auth` |
| `VstAccountProofs!NothingLost` | `[]Accounted` | `~Auth` |
| `VstAccountProofs!Implements` | `ImplementsConnection` | |
| `VstAccountProofs!RequestHandedBack` | `[]HandedBack` | `~Auth` |
| `VstWakeupProofs!RequestsWritten` | `[]QueueServed` | |
| `VstWakeupProofs!ResponsesAwaited` | `[]StoreWatched` | `~Auth` |
| `VstFaultFreeProofs!HeaderBeforeRequests` | `[]HandshakeFirst` | `MaxFaults = 0`, `MaxTimeouts = 0` |
| `VstFaultFreeProofs!AuthenticationPrecedes` | `[]AuthenticatesFirst` | the same |
| `VstFaultFreeProofs!WritesDoNotOverlap` | `[]OneWriteAtATime` | the same |
| `VstFaultFreeProofs!ProcessSurvives` | `[]NeverDies` | the same |
| `VstFaultFreeProofs!StoreOwnedWithAuthentication` | `[]StoreOwnsRequest` | the same |
| `VstFaultFreeProofs!HandedBackWithAuthentication` | `[]HandedBack` | the same |
| `VstFramingProofs!ResponsesIntact`, `KeepsItsPlace` | `[]ResponseIntact`, `[]StartsWithHeader` | |
| `VstFramingProofs!StopLeavesNothing`, `ChunksAlwaysFit` | `[]StopsClean`, `[]ChunksFit` | |
| `VstLifetimeProofs!NoConnectionLeaks` | `[]NothingLeaks` | `~Auth` |
| `VstLifetimeProofs!DrainedWhenDestroyed` | `DestroyedDrained` | `~Auth` |
| `WaitGroupProofs!ReturnSafe`, `TypeCorrect` | `[]ReturnIsSafe`, `[]TypeOK` | finitely many events |
| `HttpProofs!TypeCorrect`, `StoreOwnsHandles` | `[]TypeOK`, `[]OneOwner` | |
| `HttpProofs!Implements` | `ImplementsConnection` | |
| `HttpProofs!WatchedSocketsInUse` | `[]WatchedInUse` | |
| `HttpProofs!TimeoutsKept` | `[]TimerKept` | one io thread |
| `HttpProofs!RequestsLeftSettles` | `[]LeftSettles` | one io thread |

`~Auth` is no convenience: with authentication the properties that need it do not
hold. A request that is taken from the queue twice is stored after its callback
had it (`StoreOwnsRequest`), the authentication request that is dropped in its
place is lost (`Accounted`), and an authentication request that fails ends the loops for
good with a request stored and `_current` set (`StoreWatched`, `NothingLeaks`).
`DestroyedDrained` and `HandedBack` need it because their proofs rest on the
invariants of `StoreWatched` and of `StoreOwnsRequest`; no counterexample to
`HandedBack` with authentication is known, and TLC finds none on the instance of
`auth_restart`.

### VST

`VstSystemProofs`. `TypeOK` is inductive as it stands because the set `Call` of
calls ties an operation to the loop, the attempt or the item it needs, and a
write in progress to its item; there is one lemma per group of actions.

`StoreOwnsRequest` is not inductive: a step that moves a
request out must be known to be about an item that is no longer stored, and an
item that enters the store to have its request still. The invariant `IndInv`
follows an item along its way. It *waits* with its sender or in the queue, then
*travels*: written, on the network, read, completed. The conjuncts say that
`Numbered` IDs are handed out in order, so a new item is nowhere else; `Locked`,
the write loop's mutex has one holder, whose item is the first of the queue;
`QueuedOnce`, an item is queued once; `Separate`, what waits does not travel, and
is stored only while `getNextRequestToSend` hands it over; `Ownership`, what is
stored or waits has its request, unless `cancelAll` took it during the hand-over,
and a callback is about to be called only for what left the store. The traffic
lemmas (`RunTraffic`, `HandlerTraffic`, `EnvironmentTraffic`) say once, for all
actions, which calls a step takes from a stack and puts on it; the later modules
use them too.

`VstAccountProofs`. `AccInv` says of a request, beside its types, that a callback
is called with a result and never with none (`Failing`); that whatever is in
anybody's hands was numbered (`Known`); that the mutex of the write loop spans
the hand-over from queue to store (`Guarded`); that an item taken from the queue
is in the store or answered before `removeFirst` drops it from the queue
(`Taken`), which is why nothing is lost between the two; and that every numbered
request is kept by somebody (`Kept`). `Kept` is `Accounted` for requests of users
and holds with authentication too: what `removeFirst` drops by mistake is an
authentication request, which is the connection's own, while the request of the
user stays in the queue although it was taken. From it every step is an `Accept`, an `Answer` (of several requests when `cancelAll`
runs) or a stutter of `Connection`.

The second half of the module proves `HandedBack`. `invoke` marks the callback as
called whether or not it brings a request, so the first `invoke` of an item must be
the one whose thread moved `_request`, while `asyncReadCallback`, a failed write
and `cancelAll` compete for it. `HandInv` adds two conjuncts per item to `IndInv`.
`Shares` is about who may complete it: one thread or write has the item as a whole
(`OneHolder`), or it is spread over the chunks of its response, those the server
owes and those on the wire, in a read or with a thread in `findByID` (`Copies`).
The chunks that were added and those still to come are never more than a response
has, so only one thread adds the last one and goes on to `removeByID`; `Unseen`
says that an item which the server has not seen has no chunk added, so that its
count starts right when the server answers. `Given` says where the request
is: with its item, with the callback, or on its way in an `invoke` that holds it;
and as long as an item owns its request nobody is about to call its callback.
The lemmas number the calls of a stack from below (`Stacked`, `Places`), so that a
call keeps its number while others come and go above it, and compare the copies
before and after a step by an injection (`CountInjected`), which needs no induction
over the sequences.

`VstWakeupProofs`. Both properties speak of states in which no handler runs; the
invariants say for all states who will look after the queue and the store.
`InOrder` says that calls which leave something unattended are followed, on the
same stack, by the call that sees to it: the append to the queue by the look at
`_connected`, `stopReading` by `cancelAll`, `stopWriting` by `shutdownSocket`,
`_connected = true` by `startWriting`. `ReaderRuns` and `WriterRuns` say that a
current loop has an operation in progress or a thread that goes on with it;
`ReaderComes`, that a stored request has a current read loop or a thread that
starts one or is about to cancel it; `WriterComes`, the same of the queue on an
established connection; `FlagComes`, that an established connection has
`_connected` set or a thread that is about to set it. That a handler of the
header belongs to the current socket needs `OnePlace` (a connection attempt is in
one place: to come, in an operation, or with one thread) and `Untouched` (nothing
refers to a socket that is still to be made). The order in the code that carries
the proof: `sendRequest` queues before it looks at `_connected`, the header's
handler sets `_connected` before it starts the loop, the loop stops only when it
finds the queue empty under its mutex, and whoever takes a loop away goes on to
close the socket or to cancel the store.

`VstFaultFreeProofs`. The run `restart_asserts` shows how a fault makes two writes
overlap and an assert fail, so these theorems are about connections without
faults and timeouts, with any number of users and threads and with or without
authentication. `CalmInv` adds to the invariants of the wakeups: `Healthy`, nothing
has failed, nobody handles a failure and no deadline has expired, so there is one
attempt and one socket; `HeaderFirst`, a loop, `_connected` or a thread that uses
the connection exists only after the header was written; `OneLoop`, only the
current loop of a kind has an operation in progress, on the current socket, and
at most one call in all stacks continues it, while it is idle. `startWriting` by
many users starts one loop because it is the only step that makes one, and it
tests the pointer it sets in the same step. `HandshakeFirst` and
`OneWriteAtATime` follow at once. That the process does not die needs the
invariant `IndInv` of the store as well, but with authentication an item can be
taken from the queue twice, which `IndInv` excludes by `Ownership`. `AuthFirst`
fills the gap: the authentication request is queued before the first write loop
exists, thus never between `front()` and `removeFirst()`; and `Staged` says that
an item is written once and is in the store before it is written and removed from
the queue. `StoreOwnsRequest` with authentication, which `NeverDies` rests on, is
a theorem of its own; what breaks it in general is the second attempt.
`HandedBack` with authentication follows from `NeverDiesInv` and the steps of
`HandInv`.

`AuthenticatesFirst` is proved with `AuthLeads`, which holds until the write of the
authentication request has ended. Before the request is queued nobody has, or can
get, a write loop (`NotBegun`): `_connected` is still false and no thread is past the
read of it, however many users queue their requests. Afterwards it is the first of
the queue unless a thread or a loop has it already (`AuthNext`), because `add` goes
to the end and `removeFirst` only follows `front()`; and nothing else is handed over
or written.

`VstLifetimeProofs`. While the connection exists, `ReadInv` and `WriteInv` hold,
since the destructor is the only step that is not one of `VstSystem`. With them a
loop that nobody works on is not current, so that a connection without users and
work has no reference left (`NoConnectionLeaks`); and a store that is not empty
has a current read loop, so that the last reference is dropped only with an empty
store (`DrainedWhenDestroyed`).

### Framing

`VstFramingProofs`. The proofs are about messages of any size in any slices, any
maximal chunk size that leaves room for a header, and both versions of VST.
Sizes and chunk numbers are natural numbers; the code keeps `chunkX` in 32 bits
and sizes in 32 and 64, so the theorems are about messages of fewer than 2^31
chunks. The first half of the module says what the operators compute: `Total` and
`FlattenSeq` of concatenations, `Pieces` (a slice cut in pieces is the slice, and
no piece is too long), `BuildChunks` (numbered from 0, the data of all chunks is
the message), `WriteChunk` (a header that `ReadChunkHeader` reads back, then the
data), `Sorted` (a permutation puts every chunk at its index), and `Assemble` (all
chunks of a message, in whatever order they came, give the message). Where this
takes induction over the length of a sequence, it is by least counterexample
(`SetInduction`).

The inductive invariant `FramingInv` looks at the stream as a whole: what is in
the receive buffer and on the wire together is the concatenation of whole chunks
(`InFlight`), none of them twice, none still unsent, and each one *awaited*: its
message is in the store and has not got that chunk. The chunks an item has are
`Collected`: chunks of its own message, no index twice, and the number of chunks
is known once the first one is there. From this follow the four properties: the
buffer starts with a header, because only whole chunks are taken from it; when the
number of chunks is reached, no index is missing (`AllArrived`), so that
`Assemble` gives the message; and a loop that stops has an empty store, so that
nothing is awaited and buffer and wire are empty.

### WaitGroup

The inductive invariant says that the counter is the number of events added and
not yet counted down, that the mutex is held exactly while a callback is between
counting down and returning, and that every event is added before the waiter
waits. When the waiter sees 0 with the mutex free, nothing is pending and nobody
is in `done()`.

### HTTP

`HttpProofs`. `IndInv` adds to the types and `OneOwner`: `Locked`, the thread
inside curl is the holder of `_multi_mutex` and works only on running transfers,
so that what it ends is in no other hand; `HasHandle`, a thread that removes or
erases has a handle to do it with; and `Unstored`, a request that was not stored
yet is not in the store. `OneOwner` says where a handle is as a set of *hands*; a
lemma per action shows that it leaves the hands of all other requests alone and
passes its own from one hand to the next. The refinement adds `Fresh`: a request
that is not yet sent, or whose callback is still to be called, has no answer.
`StoreItem` is then `Accept`; `HandleResult` is `Answer` of the one request it
takes from the queue of results, which `OneOwner` puts in no other hand; every
other step, `Erase` included, leaves `pending` and `result` alone.

`WatchedInUse` needs `HasSocket`, a transfer has an open socket
exactly from connecting to its end, and `OwnSocket`, no two transfers share one:
without it the end of one transfer would close the socket of another. Both rest
on `OneOwner`, which says that a handle enters curl and leaves it without a
transfer. With one io thread, `LoopInv` keeps the timer and the count:
`ToldKept`, a timeout that was told is in the timer or in the queue, also inside
a call of curl; `KillsNothing`, the thread that saw 0 transfers when curl returned
finds no timer that waits until it stops it, because a request added meanwhile
asks for `timer_cb` at once and only the same thread can go on to arm the timer;
`Counted`, the count that was or will be stored is 0 once no transfer is running.

### What stays with TLC

Liveness, since the prover has no fairness: `EveryRequestAnswered`,
`StoredIsAnswered`, `EveryHttpRequestAnswered`, `ResponseDelivered`,
`ServiceStops`, `WaitReturns`. Every invariant and every action property of a
passing run is the statement of a theorem, with two reservations: the theorem may
need more than the run (the table says what), and the theorems about what
`fault_free` checks are about the `Spec` of `VstSystem`, whose callbacks send
nothing, while the run is of `CallSpec`, where they may.

## Not modelled

* `HttpConnection::~HttpConnection` and `CurlMultiAsio::~CurlMultiAsio`. Results
  that curl posted call `handleResult` on a raw `this`. An owner that drops the
  connection in or after a callback, as `tests/test_connection_failures.cpp`
  does, races with the rest of `handleResult`; nothing in the code orders the
  two, so there is no property to keep.
* Messages: `Request` and `Response` are buffers that one thread uses at a time,
  and the header of a VST message is a VelocyPack array; VelocyPack is not in the
  repository. Seen while reading: `addVPack(VBuffer const&)` takes the size of a
  slice from the last element of `_slices`, which may be empty (message.cpp:252);
  `slices()` tests whether `_isVpack` is set, not what it is, so binary data is cut
  into slices as well; a copied `Request` shares its builder and its slices with
  the original; `Response::payload()` is longer than its buffer by the length of
  the header.
* `ConnectionBuilder`, the constructors of requests, string conversions, logging,
  `fuerte-get` and the examples have no state that interacts.
* `3rdParty/googletest` is vendored.

## Plan

1. `HandedBack` with authentication and faults: an invariant of the store for
   items that are taken from the queue twice, in place of `IndInv`.
2. The escaping of dots in URLs (`createSafeDottedCurlUrl`) as an operator checked
   against a reference.
