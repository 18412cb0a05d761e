--------------------------- MODULE VstConnection ---------------------------
(***************************************************************************)
(* The VelocyStream connection of fuerte (src/VstConnection.{h,cpp}, with  *)
(* src/MessageStore.h and src/CallOnceRequestCallback.h): user threads     *)
(* that call sendRequest, the threads that run the io_service, the socket  *)
(* and its timers, and the server at the other end.                        *)
(*                                                                         *)
(* A thread is a stack of calls: todo[t] holds the calls that t has still  *)
(* to make, the next one first.  A call runs atomically from one point at  *)
(* which other threads can interfere (a lock, an atomic, an asio call) to  *)
(* the next.  A thread of the io_service with an empty stack takes the     *)
(* handler of any completed operation or expired timer.                    *)
(***************************************************************************)
EXTENDS Integers, Sequences, FiniteSets

CONSTANTS
  Users,              \* threads that call sendRequest
  IoThreads,          \* threads that run the io_service
  MaxRequests,        \* bound: requests the users send
  MaxAttempts,        \* bound: connection attempts, each with its own socket
  MaxLoops,           \* bound: ReadLoop objects, and WriteLoop objects, alive at a time
  MaxFaults,          \* bound: failures of the network or of the server
  MaxTimeouts,        \* bound: expiries of a deadline
  ChunksPerResponse,  \* chunks in which the server sends a response
  Ssl,                \* _configuration._ssl
  Auth                \* _authenticationType is Basic (else None)

ASSUME ThreadsAssumption == Users \cap IoThreads = {}
ASSUME BoundsAssumption ==
  /\ MaxRequests \in Nat /\ MaxLoops \in Nat
  /\ MaxAttempts \in Nat \ {0}
  /\ MaxFaults \in Nat /\ MaxTimeouts \in Nat
  /\ ChunksPerResponse \in Nat \ {0}
ASSUME ConfigurationAssumption == Ssl \in BOOLEAN /\ Auth \in BOOLEAN

VARIABLES
  todo,               \* per thread: the calls it has still to make
  nextID,             \* _messageID
  authIDs,            \* message IDs of authentication requests
  owns,               \* items whose _request has not been moved out
  sent,               \* items whose send data was reset after writing
  chunks,             \* per item: response chunks added so far
  outcome,            \* per item: what the callback was called with
  handed,             \* items whose callback received its request
  sendQueue, store,   \* _sendQueue, keys of _messageStore
  connected, permanentFailure,
  socket,             \* _socket (and _sslSocket): its number, or NoSocket
  failures,           \* calls of the onFailure callback (none, or some)
  readCur, writeCur,  \* _readLoop._current, _writeLoop._current
  rd, wr,             \* the ReadLoop and WriteLoop objects
  setup, attempts,    \* asynchronous resolve/connect/handshake/header
  sock,               \* per socket: its state in the kernel
  helloed,            \* sockets on which the VST header was written
  wire, owed,         \* chunks on their way; chunks the server will send
  faults, timeouts,   \* budget used so far
  crash               \* how the process died, or "no"

Threads  == Users \cup IoThreads
MaxID    == MaxRequests + MaxAttempts   \* at most one authentication per attempt
IDs      == 1 .. MaxID
Sockets  == 1 .. MaxAttempts
Loops    == 1 .. MaxLoops
NoID     == 0
NoSocket == 0
NoLoop   == 0

Errors   == {"VstReadError", "VstWriteError", "Timeout", "CanceledDuringReset"}
Outcomes == {"none", "ok"} \cup Errors
Crashes  == {"no", "assertLoops", "assertSocket", "assertBuffers",
             "nullSocket", "nullRequest", "freedLoop"}

(* A call: its name, the loop or connection attempt it runs on, the item   *)
(* and the error it is about, and whether it runs below a handler that     *)
(* holds a shared_ptr to the loop (self).                                  *)
Ops == {"enqueue", "checkConnected", "startWriting", "front", "addToStore",
        "removeFirst", "issueWrite", "startReading", "readNextBytes",
        "issueRead", "findByID", "removeByID", "moveRequest", "invoke",
        "restartRead", "restartWrite", "restart", "stopWriting",
        "stopReading", "shutdownSocket", "cancelAll", "resolveAgain",
        "initSocket", "handshake", "finishInit", "insertAuth",
        "setConnected", "onFailure"}
ReadCalls  == {"readNextBytes", "issueRead", "restartRead"}
WriteCalls == {"front", "addToStore", "removeFirst", "issueWrite", "restartWrite"}
SetupCalls == {"initSocket", "handshake", "finishInit"}
ItemCalls  == {"enqueue", "addToStore", "removeFirst", "issueWrite", "findByID",
               "removeByID", "moveRequest", "invoke"}
Call == {c \in [op: Ops, on: Nat, id: IDs \cup {NoID}, err: Outcomes, held: BOOLEAN] :
           /\ c.op \in ReadCalls \cup WriteCalls => c.on \in Loops
           /\ c.op \in SetupCalls => c.on \in Sockets
           /\ c.op \in ItemCalls => c.id \in IDs}

Plain(op)            == [op |-> op, on |-> 0, id |-> NoID, err |-> "none", held |-> FALSE]
On(op, n, self)      == [op |-> op, on |-> n, id |-> NoID, err |-> "none", held |-> self]
Item(op, i, e)       == [op |-> op, on |-> 0, id |-> i, err |-> e, held |-> FALSE]
Send(op, n, i, self) == [op |-> op, on |-> n, id |-> i, err |-> "none", held |-> self]
Fail(op, n, e)       == [op |-> op, on |-> n, id |-> NoID, err |-> e, held |-> TRUE]

(* A loop object: its socket, the state of its asynchronous operation, of  *)
(* its deadline timer (armed, or expired with its handler queued), and     *)
(* the item being written or the chunks that were read.                    *)
LoopRec   == {r \in [sock: Sockets \cup {NoSocket}, op: {"idle", "pending", "ok", "err"},
                     armed: BOOLEAN, expired: BOOLEAN, data: Seq(IDs)] :
                r.op # "idle" => r.sock \in Sockets}
WriteRec  == {r \in LoopRec : r.op # "idle" => r.data # <<>>}
NewLoop(s) == [sock |-> s, op |-> "idle", armed |-> FALSE, expired |-> FALSE, data |-> <<>>]
SetupRec  == {r \in [kind: {"none", "resolve", "connect", "handshake", "header"},
                     sock: Sockets \cup {NoSocket}, res: {"pending", "ok", "err"}] :
                r.kind \in {"connect", "handshake", "header"} => r.sock \in Sockets}
NoSetup   == [kind |-> "none", sock |-> NoSocket, res |-> "pending"]
OwedRec   == [sock: Sockets \cup {NoSocket}, left: 0 .. ChunksPerResponse]

itemVars   == <<nextID, authIDs, owns, sent, chunks, outcome, handed>>
queueVars  == <<sendQueue, store>>
connVars   == <<connected, permanentFailure, socket, failures>>
loopVars   == <<readCur, writeCur, rd, wr>>
setupVars  == <<setup, attempts>>
netVars    == <<sock, helloed, wire, owed>>
budgetVars == <<faults, timeouts>>
outsideVars == <<setupVars, netVars, budgetVars, crash>>
vars == <<todo, itemVars, queueVars, connVars, loopVars, outsideVars>>

----------------------------------------------------------------------------
(* Control: the next call of a thread, its return, and its death.          *)

At(t, op) == crash = "no" /\ todo[t] # <<>> /\ Head(todo[t]).op = op
Now(t)    == Head(todo[t])
Idle(t)   == crash = "no" /\ todo[t] = <<>>

\* The current call returns after making the given calls.
Then(t, calls) == todo' = [todo EXCEPT ![t] = calls \o Tail(@)]
Return(t)      == Then(t, <<>>)

\* The process dies: a failed assert, or undefined behaviour.
Abort(why) ==
  /\ crash' = why
  /\ UNCHANGED <<todo, itemVars, queueVars, connVars, loopVars, setupVars, netVars, budgetVars>>

\* _writeLoop._mutex is held from front() to removeFirst(); every other
\* critical section of the connection is a single step.
WriteMutexFree ==
  \A u \in Threads : todo[u] # <<>> => Now(u).op \notin {"addToStore", "removeFirst"}

\* The calls thread t has still to make.
CallsOf(t) == {todo[t][k] : k \in DOMAIN todo[t]}

\* A loop started through the raw pointer newLoop lives as long as it is current.
Freed(c, cur) == ~c.held /\ c.on # cur

\* Loop objects nothing refers to: their numbers are used again.
Unused(loop, cur, calls) ==
  {l \in Loops : /\ l # cur
                 /\ loop[l].op = "idle" /\ ~loop[l].armed /\ ~loop[l].expired
                 /\ \A u \in Threads : \A c \in CallsOf(u) : c.op \in calls => c.on # l}
NextLoop(l, loop, cur, calls) ==
  /\ l \in Unused(loop, cur, calls)
  /\ \A k \in Unused(loop, cur, calls) : l <= k

----------------------------------------------------------------------------
(* Sending: sendRequest, startWriting and the write loop.                  *)

\* createRequestItem: the next message ID, and an item that has its request.
NewItem == /\ nextID < MaxID
           /\ nextID' = nextID + 1
           /\ owns' = owns \cup {nextID + 1}

\* Variants: the item keeps message ID 0; _connected is read before the item
\* is queued.
SendCallsUnnumbered(i) == <<Item("enqueue", NoID, "none"), Plain("checkConnected")>>
SendCallsFlagFirst(i)  == <<Plain("checkConnected"), Item("enqueue", i, "none")>>

\* sendRequest once the item exists: the queue, then the flag.
SendCalls(i) == <<Item("enqueue", i, "none"), Plain("checkConnected")>>

\* sendRequest up to createRequestItem, which numbers the item.
SendRequest(t) ==
  /\ Idle(t)
  /\ nextID - Cardinality(authIDs) < MaxRequests
  /\ NewItem
  /\ todo' = [todo EXCEPT ![t] = SendCalls(nextID + 1)]
  /\ UNCHANGED <<authIDs, sent, chunks, outcome, handed, queueVars, connVars, loopVars,
                 outsideVars>>

Enqueue(t) ==
  /\ At(t, "enqueue")
  /\ sendQueue' = Append(sendQueue, Now(t).id)
  /\ Return(t)
  /\ UNCHANGED <<itemVars, store, connVars, loopVars, outsideVars>>

\* Variant: _connected is not looked at.
CheckConnectedAlways(t) ==
  /\ At(t, "checkConnected")
  /\ Then(t, <<Plain("startWriting")>>)
  /\ UNCHANGED <<itemVars, queueVars, connVars, loopVars, outsideVars>>

\* _connected decides whether sendRequest starts the write loop.
CheckConnected(t) ==
  /\ At(t, "checkConnected")
  /\ Then(t, IF connected THEN <<Plain("startWriting")>> ELSE <<>>)
  /\ UNCHANGED <<itemVars, queueVars, connVars, loopVars, outsideVars>>

\* Variant: a new write loop replaces the current one.
NoWriteLoopUnchecked == TRUE

\* startWriting keeps the loop there is, if any.
NoWriteLoop == writeCur = NoLoop

StartWriting(t) ==
  /\ At(t, "startWriting")
  /\ WriteMutexFree
  /\ \/ /\ ~NoWriteLoop
        /\ Return(t)
        /\ UNCHANGED <<writeCur, wr>>
     \/ /\ NoWriteLoop
        /\ \E l \in Loops :
             /\ NextLoop(l, wr, writeCur, WriteCalls)
             /\ writeCur' = l
             /\ wr' = [wr EXCEPT ![l] = NewLoop(socket)]
             /\ Then(t, <<On("front", l, FALSE)>>)
  /\ UNCHANGED <<itemVars, queueVars, connVars, readCur, rd, outsideVars>>

\* getNextRequestToSend up to _sendQueue.front(): the write loop stops, or
\* goes on to hand its first item over from the queue to the store.
Front(t) ==
  LET c == Now(t) IN
  /\ At(t, "front")
  /\ WriteMutexFree
  /\ ~Freed(c, writeCur)
  /\ \/ /\ writeCur # c.on \/ permanentFailure
        /\ Return(t)
        /\ UNCHANGED writeCur
     \/ /\ writeCur = c.on /\ ~permanentFailure /\ sendQueue = <<>>
        /\ writeCur' = NoLoop
        /\ Return(t)
     \/ /\ writeCur = c.on /\ ~permanentFailure /\ sendQueue # <<>>
        /\ Then(t, <<Send("addToStore", c.on, Head(sendQueue), c.held)>>)
        /\ UNCHANGED writeCur
  /\ UNCHANGED <<itemVars, queueVars, connVars, readCur, rd, wr, outsideVars>>

AddToStore(t) ==
  LET c == Now(t) IN
  /\ At(t, "addToStore")
  /\ store' = store \cup {c.id}
  /\ Then(t, <<Send("removeFirst", c.on, c.id, c.held)>>)
  /\ UNCHANGED <<itemVars, sendQueue, connVars, loopVars, outsideVars>>

\* Variant: nobody is made to listen for the response.
WriteCallsUnread(c) == <<Send("issueWrite", c.on, c.id, c.held)>>

\* What sendNextRequest does with the item it got.
WriteCallsFor(c) == <<Plain("startReading"), Send("issueWrite", c.on, c.id, c.held)>>

RemoveFirst(t) ==
  LET c == Now(t) IN
  /\ At(t, "removeFirst")
  /\ sendQueue # <<>>
  /\ sendQueue' = Tail(sendQueue)
  /\ Then(t, WriteCallsFor(c))
  /\ UNCHANGED <<itemVars, store, connVars, loopVars, outsideVars>>

\* Variant: the deadline is not armed.
StartedUntimed(loop, data) ==
  [sock |-> loop.sock, armed |-> FALSE, expired |-> loop.expired, data |-> data,
   op |-> IF sock[loop.sock] = "closed" THEN "err" ELSE "pending"]

\* Arm the deadline of a loop and start its operation, which fails at once
\* on a socket that was closed since.
Started(loop, data) ==
  [sock |-> loop.sock, armed |-> TRUE, expired |-> loop.expired, data |-> data,
   op |-> IF sock[loop.sock] = "closed" THEN "err" ELSE "pending"]

\* The rest of sendNextRequest: the deadline and async_write.
IssueWrite(t) ==
  LET c == Now(t) IN
  /\ At(t, "issueWrite")
  /\ ~Freed(c, writeCur) /\ c.id \notin sent /\ c.id \in owns /\ wr[c.on].sock # NoSocket
  /\ wr' = [wr EXCEPT ![c.on] = Started(wr[c.on], <<c.id>>)]
  /\ Return(t)
  /\ UNCHANGED <<itemVars, queueVars, connVars, readCur, writeCur, rd, outsideVars>>

\* asyncWriteCallback: the item failed and the connection restarts, or the
\* loop continues with the next item.
FailedCalls(l, i) == <<Item("removeByID", i, "VstWriteError"),
                       Fail("restartWrite", l, "VstWriteError")>>
WrittenCalls(l)   == <<On("front", l, TRUE)>>

WriteCallback(t, l) ==
  LET i == Head(wr[l].data) IN
  /\ Idle(t)
  /\ wr[l].op \in {"ok", "err"}
  /\ wr' = [wr EXCEPT ![l] = [@ EXCEPT !.op = "idle", !.armed = FALSE, !.data = <<>>]]
  /\ \/ /\ wr[l].op = "err"
        /\ todo' = [todo EXCEPT ![t] = FailedCalls(l, i)]
        /\ UNCHANGED sent
     \/ /\ wr[l].op = "ok"
        /\ sent' = sent \cup {i}
        /\ todo' = [todo EXCEPT ![t] = WrittenCalls(l)]
  /\ UNCHANGED <<nextID, authIDs, owns, chunks, outcome, handed, queueVars, connVars, readCur,
                 writeCur, rd, outsideVars>>

WriteDeadline(t, l) ==
  /\ Idle(t)
  /\ wr[l].expired
  /\ wr' = [wr EXCEPT ![l].expired = FALSE]
  /\ todo' = [todo EXCEPT ![t] = <<Fail("restartWrite", l, "Timeout")>>]
  /\ UNCHANGED <<itemVars, queueVars, connVars, readCur, writeCur, rd, outsideVars>>

----------------------------------------------------------------------------
(* Receiving: startReading, the read loop and processChunk.                *)

\* Variant: a new read loop replaces the current one.
NoReadLoopUnchecked == TRUE

\* startReading keeps the loop there is, if any.
NoReadLoop == readCur = NoLoop

StartReading(t) ==
  /\ At(t, "startReading")
  /\ \/ /\ ~NoReadLoop
        /\ Return(t)
        /\ UNCHANGED <<readCur, rd>>
     \/ /\ NoReadLoop
        /\ \E l \in Loops :
             /\ NextLoop(l, rd, readCur, ReadCalls)
             /\ readCur' = l
             /\ rd' = [rd EXCEPT ![l] = NewLoop(socket)]
             /\ Then(t, <<On("readNextBytes", l, FALSE)>>)
  /\ UNCHANGED <<itemVars, queueVars, connVars, writeCur, wr, outsideVars>>

\* Variant: a loop that stops stays current.
ReadNextBytesKept(t) ==
  LET c == Now(t) IN
  /\ At(t, "readNextBytes")
  /\ ~Freed(c, readCur)
  /\ \/ /\ readCur # c.on \/ permanentFailure \/ (store = {} /\ sendQueue = <<>>)
        /\ Return(t)
     \/ /\ readCur = c.on /\ ~permanentFailure /\ ~(store = {} /\ sendQueue = <<>>)
        /\ Then(t, <<On("issueRead", c.on, c.held)>>)
  /\ UNCHANGED <<itemVars, queueVars, connVars, loopVars, outsideVars>>

\* readNextBytes up to shouldStopReading (with minimumTimeout), which holds
\* the read loop's, the queue's and the store's mutex.
ReadNextBytes(t) ==
  LET c == Now(t) IN
  /\ At(t, "readNextBytes")
  /\ ~Freed(c, readCur)
  /\ \/ /\ readCur # c.on \/ permanentFailure
        /\ Return(t)
        /\ UNCHANGED readCur
     \/ /\ readCur = c.on /\ ~permanentFailure /\ store = {} /\ sendQueue = <<>>
        /\ readCur' = NoLoop
        /\ Return(t)
     \/ /\ readCur = c.on /\ ~permanentFailure /\ ~(store = {} /\ sendQueue = <<>>)
        /\ store \subseteq owns
        /\ Then(t, <<On("issueRead", c.on, c.held)>>)
        /\ UNCHANGED readCur
  /\ UNCHANGED <<itemVars, queueVars, connVars, writeCur, rd, wr, outsideVars>>

\* The rest of readNextBytes: arm the deadline, start async_read.
IssueRead(t) ==
  LET c == Now(t) IN
  /\ At(t, "issueRead")
  /\ ~Freed(c, readCur) /\ rd[c.on].sock # NoSocket
  /\ rd' = [rd EXCEPT ![c.on] = Started(rd[c.on], <<>>)]
  /\ Return(t)
  /\ UNCHANGED <<itemVars, queueVars, connVars, readCur, writeCur, wr, outsideVars>>

\* asyncReadCallback: every complete chunk is processed, then the loop goes on.
ReadCallback(t, l) ==
  /\ Idle(t)
  /\ rd[l].op \in {"ok", "err"}
  /\ rd' = [rd EXCEPT ![l] = [@ EXCEPT !.op = "idle", !.armed = FALSE, !.data = <<>>]]
  /\ \/ /\ rd[l].op = "err"
        /\ todo' = [todo EXCEPT ![t] = <<Fail("restartRead", l, "VstReadError")>>]
     \/ /\ rd[l].op = "ok"
        /\ todo' = [todo EXCEPT ![t] =
                      [k \in 1 .. Len(rd[l].data) |-> Item("findByID", rd[l].data[k], "ok")]
                      \o <<On("readNextBytes", l, TRUE)>>]
  /\ UNCHANGED <<itemVars, queueVars, connVars, readCur, writeCur, wr, outsideVars>>

ReadDeadline(t, l) ==
  /\ Idle(t)
  /\ rd[l].expired
  /\ rd' = [rd EXCEPT ![l].expired = FALSE]
  /\ todo' = [todo EXCEPT ![t] = <<Fail("restartRead", l, "Timeout")>>]
  /\ UNCHANGED <<itemVars, queueVars, connVars, readCur, writeCur, wr, outsideVars>>

\* Variant: the callback is called before the item leaves the store.
CompletedCallsEarly(i) == <<Item("moveRequest", i, "ok"), Item("removeByID", i, "ok")>>

\* processChunk: a chunk of an unknown message is dropped; the last chunk
\* of a response completes its item.
CompletedCalls(i) == <<Item("removeByID", i, "ok")>>

FindByID(t) ==
  LET i == Now(t).id IN
  /\ At(t, "findByID")
  /\ \/ /\ i \notin store
        /\ Return(t)
        /\ UNCHANGED chunks
     \/ /\ i \in store /\ chunks[i] + 1 < ChunksPerResponse
        /\ chunks' = [chunks EXCEPT ![i] = @ + 1]
        /\ Return(t)
     \/ /\ i \in store /\ chunks[i] + 1 >= ChunksPerResponse
        /\ chunks' = [chunks EXCEPT ![i] = ChunksPerResponse]
        /\ Then(t, CompletedCalls(i))
  /\ UNCHANGED <<nextID, authIDs, owns, sent, outcome, handed, queueVars, connVars, loopVars,
                 outsideVars>>

\* Variant: the item stays in the store.
WithoutNothing(i) == store

\* MessageStore::removeByID
Without(i) == store \ {i}

\* removeByID, in processChunk and asyncWriteCallback: the callback is next.
RemoveByID(t) ==
  LET c == Now(t) IN
  /\ At(t, "removeByID")
  /\ store' = Without(c.id)
  /\ Then(t, <<Item("moveRequest", c.id, c.err)>>)
  /\ UNCHANGED <<itemVars, sendQueue, connVars, loopVars, outsideVars>>

\* std::move(item->_request) as the argument of invoke; held tells whether
\* there was a request left to move.
MoveRequest(t) ==
  LET c == Now(t) IN
  /\ At(t, "moveRequest")
  /\ owns' = owns \ {c.id}
  /\ Then(t, <<[op |-> "invoke", on |-> 0, id |-> c.id, err |-> c.err, held |-> c.id \in owns]>>)
  /\ UNCHANGED <<nextID, authIDs, sent, chunks, outcome, handed, queueVars, connVars, loopVars,
                 outsideVars>>

\* Variant: the _invoked flag is not looked at.
NotInvokedAssumed(i) == TRUE

\* _invoked.exchange(true)
NotInvoked(i) == outcome[i] = "none"

\* CallOnceRequestCallback::invoke.  The callback of an authentication
\* request marks the connection as broken for good.
Invoke(t) ==
  LET c == Now(t)
      first == NotInvoked(c.id)
      authFailed == first /\ c.id \in authIDs /\ c.err \in Errors IN
  /\ At(t, "invoke")
  /\ outcome' = IF first THEN [outcome EXCEPT ![c.id] = c.err] ELSE outcome
  /\ handed' = IF first /\ c.held THEN handed \cup {c.id} ELSE handed
  /\ permanentFailure' = (permanentFailure \/ authFailed)
  /\ Then(t, IF authFailed THEN <<Plain("onFailure")>> ELSE <<>>)
  /\ UNCHANGED <<nextID, authIDs, owns, sent, chunks, queueVars, connected, socket, failures,
                 loopVars, outsideVars>>

----------------------------------------------------------------------------
(* Restarting: a loop whose operation failed or timed out closes the       *)
(* connection and resolves the host again.                                 *)

\* restartConnection(loop, error): once per pair of current loops.
RestartOf(t, cur) ==
  LET c == Now(t) IN
  /\ WriteMutexFree
  /\ \/ /\ cur # c.on
        /\ Return(t)
        /\ UNCHANGED <<readCur, writeCur>>
     \/ /\ cur = c.on
        /\ readCur' = NoLoop
        /\ writeCur' = NoLoop
        /\ Then(t, <<Fail("restart", 0, c.err)>>)
  /\ UNCHANGED <<itemVars, queueVars, connVars, rd, wr, outsideVars>>
RestartRead(t)  == At(t, "restartRead") /\ RestartOf(t, readCur)
RestartWrite(t) == At(t, "restartWrite") /\ RestartOf(t, writeCur)

\* shutdownConnection(error)
ShutdownCalls(e) == <<Plain("stopWriting"), Plain("stopReading"), Plain("shutdownSocket"),
                      Fail("cancelAll", 0, e)>>

\* restartConnection(error), whose asserts hold.
Restart(t) ==
  /\ At(t, "restart")
  /\ readCur = NoLoop /\ writeCur = NoLoop
  /\ Then(t, ShutdownCalls(Now(t).err) \o <<Plain("resolveAgain")>>)
  /\ UNCHANGED <<itemVars, queueVars, connVars, loopVars, outsideVars>>

StopWriting(t) ==
  /\ At(t, "stopWriting")
  /\ WriteMutexFree
  /\ writeCur' = NoLoop
  /\ Return(t)
  /\ UNCHANGED <<itemVars, queueVars, connVars, readCur, rd, wr, outsideVars>>

StopReading(t) ==
  /\ At(t, "stopReading")
  /\ readCur' = NoLoop
  /\ Return(t)
  /\ UNCHANGED <<itemVars, queueVars, connVars, writeCur, rd, wr, outsideVars>>

\* What closing socket s does to the operations pending on it.
Aborted(loop, s) ==
  [l \in Loops |-> IF loop[l].sock = s /\ loop[l].op = "pending"
                   THEN [loop[l] EXCEPT !.op = "err"] ELSE loop[l]]

\* shutdownSocket, under _socket_mutex; the SSL shutdown, which blocks, is
\* taken as one step with the rest.
ShutdownSocket(t) ==
  /\ At(t, "shutdownSocket")
  /\ \/ /\ socket = NoSocket
        /\ UNCHANGED <<sock, wire, rd, wr, setup>>
     \/ /\ socket # NoSocket
        /\ sock' = [sock EXCEPT ![socket] = "closed"]
        /\ wire' = [wire EXCEPT ![socket] = <<>>]
        /\ rd' = Aborted(rd, socket)
        /\ wr' = Aborted(wr, socket)
        /\ setup' = [n \in Sockets |->
                       IF setup[n].sock = socket /\ setup[n].res = "pending"
                       THEN [setup[n] EXCEPT !.res = "err"] ELSE setup[n]]
  /\ socket' = NoSocket
  /\ Return(t)
  /\ UNCHANGED <<itemVars, queueVars, connected, permanentFailure, failures, readCur, writeCur,
                 attempts, helloed, owed, budgetVars, crash>>

\* Variant: the store is cleared without calling anybody.
CancelledSilently == {}

\* The stored items whose callback cancelAll calls.
Cancelled == {i \in store : NotInvoked(i)}

\* MessageStore::cancelAll, which holds the store's mutex throughout.
CancelAll(t) ==
  LET c == Now(t)
      authFailed == Cancelled \cap authIDs # {} IN
  /\ At(t, "cancelAll")
  /\ outcome' = [i \in IDs |-> IF i \in Cancelled THEN c.err ELSE outcome[i]]
  /\ handed' = handed \cup (Cancelled \cap owns)
  /\ owns' = owns \ store
  /\ store' = {}
  /\ permanentFailure' = (permanentFailure \/ authFailed)
  /\ Then(t, IF authFailed THEN <<Plain("onFailure")>> ELSE <<>>)
  /\ UNCHANGED <<nextID, authIDs, sent, chunks, sendQueue, connected, socket, failures, loopVars,
                 outsideVars>>

\* startResolveHost, unless the connection is broken for good (or the bound
\* on attempts is reached).
ResolveAgain(t) ==
  /\ At(t, "resolveAgain")
  /\ \/ /\ ~permanentFailure /\ attempts < MaxAttempts
        /\ attempts' = attempts + 1
        /\ setup' = [setup EXCEPT ![attempts + 1] = [NoSetup EXCEPT !.kind = "resolve"]]
     \/ /\ permanentFailure \/ attempts = MaxAttempts
        /\ UNCHANGED setupVars
  /\ Return(t)
  /\ UNCHANGED <<itemVars, queueVars, connVars, loopVars, netVars, budgetVars, crash>>

----------------------------------------------------------------------------
(* Connecting: resolve, connect, SSL handshake, VST header.                *)

\* A handler of attempt n runs: its operation succeeded or failed.
Handles(t, n, kind, onSuccess, onError) ==
  /\ Idle(t)
  /\ setup[n].kind = kind /\ setup[n].res # "pending"
  /\ setup' = [setup EXCEPT ![n] = NoSetup]
  /\ todo' = [todo EXCEPT ![t] = IF setup[n].res = "ok" THEN onSuccess ELSE onError]
  /\ UNCHANGED <<itemVars, queueVars, permanentFailure, socket, failures, loopVars, attempts,
                 netVars, budgetVars, crash>>

\* The handler of async_resolve.
ResolveCallback(t, n) ==
  /\ Handles(t, n, "resolve", <<On("initSocket", n, FALSE)>>, <<Plain("onFailure")>>)
  /\ UNCHANGED connected

AsyncConnectCallback(t, n) ==
  /\ Handles(t, n, "connect", <<On(IF Ssl THEN "handshake" ELSE "finishInit", n, FALSE)>>,
             ShutdownCalls("CanceledDuringReset") \o <<Plain("onFailure")>>)
  /\ UNCHANGED connected

\* The handler of async_handshake.
HandshakeCallback(t, n) ==
  /\ Handles(t, n, "handshake", <<On("finishInit", n, FALSE)>>,
             <<Plain("shutdownSocket"), Plain("onFailure")>>)
  /\ UNCHANGED connected

\* The handler of the write of the VST header.
HeaderCallback(t, n) ==
  /\ Handles(t, n, "header", <<Plain("insertAuth"), Plain("setConnected"),
                               Plain("startWriting"), Plain("startReading")>>,
             ShutdownCalls("CanceledDuringReset") \o <<Plain("onFailure")>>)
  /\ connected' = (connected /\ setup[n].res = "ok")

\* An operation of attempt n starts on the current socket.
Begin(n, kind, s) ==
  setup' = [setup EXCEPT ![n] = [kind |-> kind, sock |-> s,
                                 res |-> IF sock'[s] = "closed" THEN "err" ELSE "pending"]]

\* initSocket and startConnect; attempt n creates socket n.
InitSocket(t) ==
  LET n == Now(t).on IN
  /\ At(t, "initSocket")
  /\ socket = NoSocket
  /\ socket' = n
  /\ sock' = [sock EXCEPT ![n] = "open"]
  /\ Begin(n, "connect", n)
  /\ Return(t)
  /\ UNCHANGED <<itemVars, queueVars, connected, permanentFailure, failures, loopVars, attempts,
                 helloed, wire, owed, budgetVars, crash>>

StartSSLHandshake(t) ==
  /\ At(t, "handshake")
  /\ socket # NoSocket
  /\ UNCHANGED sock
  /\ Begin(Now(t).on, "handshake", socket)
  /\ Return(t)
  /\ UNCHANGED <<itemVars, queueVars, connVars, loopVars, attempts, helloed, wire, owed,
                 budgetVars, crash>>

FinishInitialization(t) ==
  /\ At(t, "finishInit")
  /\ socket # NoSocket
  /\ UNCHANGED sock
  /\ Begin(Now(t).on, "header", socket)
  /\ Return(t)
  /\ UNCHANGED <<itemVars, queueVars, connVars, loopVars, attempts, helloed, wire, owed,
                 budgetVars, crash>>

\* Variant: the authentication request waits for its turn.
InsertAuthenticationRequestsLast(t) ==
  /\ At(t, "insertAuth")
  /\ \/ /\ Auth
        /\ NewItem
        /\ authIDs' = authIDs \cup {nextID + 1}
        /\ sendQueue' = Append(sendQueue, nextID + 1)
     \/ /\ ~Auth
        /\ UNCHANGED <<nextID, owns, authIDs, sendQueue>>
  /\ Return(t)
  /\ UNCHANGED <<sent, chunks, outcome, handed, store, connVars, loopVars, outsideVars>>

\* The authentication request goes to the front of the queue.
InsertAuthenticationRequests(t) ==
  /\ At(t, "insertAuth")
  /\ \/ /\ Auth
        /\ NewItem
        /\ authIDs' = authIDs \cup {nextID + 1}
        /\ sendQueue' = <<nextID + 1>> \o sendQueue
     \/ /\ ~Auth
        /\ UNCHANGED <<nextID, owns, authIDs, sendQueue>>
  /\ Return(t)
  /\ UNCHANGED <<sent, chunks, outcome, handed, store, connVars, loopVars, outsideVars>>

SetConnected(t) ==
  /\ At(t, "setConnected")
  /\ connected' = TRUE
  /\ Return(t)
  /\ UNCHANGED <<itemVars, queueVars, permanentFailure, socket, failures, loopVars, outsideVars>>

OnFailure(t) ==
  /\ At(t, "onFailure")
  /\ failures' = TRUE
  /\ Return(t)
  /\ UNCHANGED <<itemVars, queueVars, connected, permanentFailure, socket, loopVars, outsideVars>>

----------------------------------------------------------------------------
(* Where the code asserts, or dereferences, what may not be there.         *)

DerefFreedLoop(t) ==
  /\ \/ \E op \in {"front", "issueWrite"} : At(t, op) /\ Freed(Now(t), writeCur)
     \/ \E op \in {"readNextBytes", "issueRead"} : At(t, op) /\ Freed(Now(t), readCur)
  /\ Abort("freedLoop")

\* next->_request->timeout() and item.second->_request->timeout()
DerefNullRequest(t) ==
  LET c == Now(t) IN
  /\ \/ /\ At(t, "issueWrite") /\ ~Freed(c, writeCur)
        /\ c.id \notin sent /\ c.id \notin owns
     \/ /\ At(t, "readNextBytes") /\ readCur = c.on /\ ~permanentFailure
        /\ ~(store \subseteq owns)
  /\ Abort("nullRequest")

\* *_socket, *_sslSocket
DerefNullSocket(t) ==
  LET c == Now(t) IN
  /\ \/ /\ At(t, "issueWrite") /\ ~Freed(c, writeCur)
        /\ c.id \notin sent /\ c.id \in owns /\ wr[c.on].sock = NoSocket
     \/ At(t, "issueRead") /\ ~Freed(c, readCur) /\ rd[c.on].sock = NoSocket
     \/ At(t, "handshake") /\ socket = NoSocket
     \/ At(t, "finishInit") /\ socket = NoSocket
  /\ Abort("nullSocket")

AssertFails(t) ==
  \/ /\ At(t, "restart")
     /\ ~(readCur = NoLoop /\ writeCur = NoLoop)
     /\ Abort("assertLoops")
  \/ /\ At(t, "initSocket")
     /\ socket # NoSocket
     /\ Abort("assertSocket")
  \/ /\ At(t, "issueWrite") /\ ~Freed(Now(t), writeCur)
     /\ Now(t).id \in sent
     /\ Abort("assertBuffers")
============================================================================
