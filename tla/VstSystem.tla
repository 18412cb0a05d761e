----------------------------- MODULE VstSystem -----------------------------
(***************************************************************************)
(* A VstConnection composed with what it runs on: the io_service that      *)
(* completes operations and expires timers, the network, and the server.   *)
(***************************************************************************)
EXTENDS VstConnection

----------------------------------------------------------------------------
(* The io_service, the network and the server (external).                  *)

Alive == crash = "no"

\* A write reaches the server, or is accepted by the kernel of a connection
\* that is already lost.
WriteCompletes(l) ==
  LET s == wr[l].sock IN
  /\ Alive /\ wr[l].op = "pending" /\ sock[s] \in {"connected", "lost"}
  /\ wr' = [wr EXCEPT ![l].op = "ok"]
  /\ owed' = IF sock[s] = "connected" /\ s \in helloed
             THEN [owed EXCEPT ![Head(wr[l].data)] = [sock |-> s, left |-> ChunksPerResponse]]
             ELSE owed
  /\ UNCHANGED <<todo, itemVars, queueVars, connVars, readCur, writeCur, rd, setupVars, sock,
                 helloed, wire, budgetVars, crash>>

\* A write fails on a lost connection, or on a socket that is not connected.
WriteFails(l) ==
  /\ Alive /\ wr[l].op = "pending" /\ sock[wr[l].sock] \in {"open", "lost"}
  /\ wr' = [wr EXCEPT ![l].op = "err"]
  /\ UNCHANGED <<todo, itemVars, queueVars, connVars, readCur, writeCur, rd, outsideVars>>

\* A read returns the first k chunks that have arrived.
ReadCompletes(l) ==
  LET s == rd[l].sock IN
  /\ Alive /\ rd[l].op = "pending" /\ sock[s] \in {"connected", "lost"}
  /\ \E k \in 1 .. Len(wire[s]) :
       /\ rd' = [rd EXCEPT ![l] = [@ EXCEPT !.op = "ok", !.data = SubSeq(wire[s], 1, k)]]
       /\ wire' = [wire EXCEPT ![s] = SubSeq(@, k + 1, Len(@))]
  /\ UNCHANGED <<todo, itemVars, queueVars, connVars, readCur, writeCur, wr, setupVars, sock,
                 helloed, owed, budgetVars, crash>>

ReadFails(l) ==
  /\ Alive /\ rd[l].op = "pending" /\ sock[rd[l].sock] \in {"open", "lost"}
  /\ rd' = [rd EXCEPT ![l].op = "err"]
  /\ UNCHANGED <<todo, itemVars, queueVars, connVars, readCur, writeCur, wr, outsideVars>>

\* resolve, connect, handshake or header write of attempt n succeeds.
SetupCompletes(n) ==
  LET s == setup[n].sock IN
  /\ Alive /\ setup[n].kind # "none" /\ setup[n].res = "pending"
  /\ setup[n].kind \in {"handshake", "header"} => sock[s] = "connected"
  /\ setup' = [setup EXCEPT ![n].res = "ok"]
  /\ sock' = IF setup[n].kind = "connect" THEN [sock EXCEPT ![s] = "connected"] ELSE sock
  /\ helloed' = IF setup[n].kind = "header" THEN helloed \cup {s} ELSE helloed
  /\ UNCHANGED <<todo, itemVars, queueVars, connVars, loopVars, attempts, wire, owed, budgetVars,
                 crash>>

\* It fails: the host is unknown, nobody listens, the peer resets.
SetupFails(n) ==
  /\ Alive /\ setup[n].kind # "none" /\ setup[n].res = "pending"
  /\ \/ faults < MaxFaults /\ faults' = faults + 1
     \/ setup[n].kind \in {"handshake", "header"} /\ sock[setup[n].sock] = "lost"
        /\ UNCHANGED faults
  /\ setup' = [setup EXCEPT ![n].res = "err"]
  /\ UNCHANGED <<todo, itemVars, queueVars, connVars, loopVars, attempts, netVars, timeouts, crash>>

\* The peer goes away; what it had not answered is never answered.
ConnectionLost(s) ==
  /\ Alive /\ sock[s] = "connected" /\ faults < MaxFaults
  /\ faults' = faults + 1
  /\ sock' = [sock EXCEPT ![s] = "lost"]
  /\ UNCHANGED <<todo, itemVars, queueVars, connVars, loopVars, setupVars, helloed, wire, owed,
                 timeouts, crash>>

\* The server sends the next chunk of a response, in any order of requests.
Respond(i) ==
  LET s == owed[i].sock IN
  /\ Alive /\ owed[i].left > 0 /\ sock[s] = "connected"
  /\ wire' = [wire EXCEPT ![s] = Append(@, i)]
  /\ owed' = [owed EXCEPT ![i].left = @ - 1]
  /\ UNCHANGED <<todo, itemVars, queueVars, connVars, loopVars, setupVars, sock, helloed,
                 budgetVars, crash>>

\* Nothing is left to run or to complete: only time passes.
Quiet == /\ \A t \in Threads : Idle(t)
         /\ \A l \in Loops : /\ rd[l].op \in {"idle", "pending"} /\ ~rd[l].expired
                             /\ wr[l].op = "idle" /\ ~wr[l].expired
         /\ \A n \in Sockets : setup[n].kind = "none"

\* The bound on expiries counts those that race with something; with
\* MaxTimeouts = 0 no deadline expires.
MayExpire ==
  \/ timeouts < MaxTimeouts /\ timeouts' = timeouts + 1
  \/ timeouts = MaxTimeouts /\ MaxTimeouts > 0 /\ Quiet /\ UNCHANGED timeouts

\* A deadline expires: its handler is queued and can no longer be cancelled.
ReadExpires(l) ==
  /\ Alive /\ rd[l].armed /\ MayExpire
  /\ rd' = [rd EXCEPT ![l] = [@ EXCEPT !.armed = FALSE, !.expired = TRUE]]
  /\ UNCHANGED <<todo, itemVars, queueVars, connVars, readCur, writeCur, wr, setupVars, netVars,
                 faults, crash>>

WriteExpires(l) ==
  /\ Alive /\ wr[l].armed /\ MayExpire
  /\ wr' = [wr EXCEPT ![l] = [@ EXCEPT !.armed = FALSE, !.expired = TRUE]]
  /\ UNCHANGED <<todo, itemVars, queueVars, connVars, readCur, writeCur, rd, setupVars, netVars,
                 faults, crash>>

----------------------------------------------------------------------------
(* The constructor, followed by start().                                   *)
Init ==
  /\ todo = [t \in Threads |-> <<>>]
  /\ nextID = 0 /\ authIDs = {} /\ owns = {} /\ sent = {} /\ handed = {}
  /\ chunks = [i \in IDs |-> 0]
  /\ outcome = [i \in IDs |-> "none"]
  /\ sendQueue = <<>> /\ store = {}
  /\ connected = FALSE /\ permanentFailure = FALSE /\ socket = NoSocket /\ failures = FALSE
  /\ readCur = NoLoop /\ writeCur = NoLoop
  /\ rd = [l \in Loops |-> NewLoop(NoSocket)]
  /\ wr = [l \in Loops |-> NewLoop(NoSocket)]
  /\ attempts = 1
  /\ setup = [n \in Sockets |-> IF n = 1 THEN [NoSetup EXCEPT !.kind = "resolve"] ELSE NoSetup]
  /\ sock = [s \in Sockets |-> "none"]
  /\ helloed = {}
  /\ wire = [s \in Sockets |-> <<>>]
  /\ owed = [i \in IDs |-> [sock |-> NoSocket, left |-> 0]]
  /\ faults = 0 /\ timeouts = 0
  /\ crash = "no"

Writing(t)    == \/ Enqueue(t) \/ CheckConnected(t) \/ StartWriting(t) \/ Front(t)
                 \/ AddToStore(t) \/ RemoveFirst(t) \/ IssueWrite(t)
Reading(t)    == \/ StartReading(t) \/ ReadNextBytes(t) \/ IssueRead(t) \/ FindByID(t)
                 \/ RemoveByID(t) \/ MoveRequest(t) \/ Invoke(t)
Restarting(t) == \/ RestartRead(t) \/ RestartWrite(t) \/ Restart(t) \/ StopWriting(t)
                 \/ StopReading(t) \/ ShutdownSocket(t) \/ CancelAll(t) \/ ResolveAgain(t)
Connecting(t) == \/ InitSocket(t) \/ StartSSLHandshake(t) \/ FinishInitialization(t)
                 \/ InsertAuthenticationRequests(t) \/ SetConnected(t) \/ OnFailure(t)
Dying(t)      == \/ DerefFreedLoop(t) \/ DerefNullRequest(t) \/ DerefNullSocket(t)
                 \/ AssertFails(t)

\* One call of thread t.
Run(t) == Writing(t) \/ Reading(t) \/ Restarting(t) \/ Connecting(t) \/ Dying(t)

\* A thread of the io_service takes a handler.
Dispatch(t) ==
  \/ \E l \in Loops : \/ ReadCallback(t, l) \/ ReadDeadline(t, l)
                      \/ WriteCallback(t, l) \/ WriteDeadline(t, l)
  \/ \E n \in Sockets : \/ ResolveCallback(t, n) \/ AsyncConnectCallback(t, n)
                        \/ HandshakeCallback(t, n) \/ HeaderCallback(t, n)

Completion == \/ \E l \in Loops : \/ WriteCompletes(l) \/ WriteFails(l)
                                  \/ ReadCompletes(l) \/ ReadFails(l)
              \/ \E n \in Sockets : SetupCompletes(n)
Expiry     == \E l \in Loops : ReadExpires(l) \/ WriteExpires(l)
Server     == \E i \in IDs : Respond(i)
Fault      == \/ \E n \in Sockets : SetupFails(n)
              \/ \E s \in Sockets : ConnectionLost(s)

Next == \/ \E t \in Users : SendRequest(t)
        \/ \E t \in Threads : Run(t)
        \/ \E t \in IoThreads : Dispatch(t)
        \/ Completion \/ Expiry \/ Server \/ Fault

Spec == Init /\ [][Next]_vars

(* Threads that can go on do go on, the io_service runs the handlers of    *)
(* completed operations, the kernel completes operations that can be       *)
(* completed, and timers expire.  Nothing is assumed of the server.        *)
Fairness == /\ \A t \in Threads : WF_vars(Run(t))
            /\ \A t \in IoThreads : WF_vars(Dispatch(t))
            /\ WF_vars(Completion)
            /\ WF_vars(Expiry)

FairSpec == Spec /\ Fairness
ServedSpec == FairSpec /\ WF_vars(Server)

----------------------------------------------------------------------------
(* Properties.                                                             *)

\* The types of the connection's members, of the loop objects, of the calls
\* the threads have still to make and of the network.
TypeOK ==
  /\ todo \in [Threads -> Seq(Call)]
  /\ nextID \in 0 .. MaxID /\ authIDs \subseteq IDs
  /\ owns \subseteq IDs /\ sent \subseteq IDs /\ handed \subseteq IDs
  /\ chunks \in [IDs -> 0 .. ChunksPerResponse]
  /\ outcome \in [IDs -> Outcomes]
  /\ sendQueue \in Seq(IDs) /\ store \subseteq IDs
  /\ connected \in BOOLEAN /\ permanentFailure \in BOOLEAN /\ failures \in BOOLEAN
  /\ socket \in Sockets \cup {NoSocket}
  /\ readCur \in Loops \cup {NoLoop} /\ writeCur \in Loops \cup {NoLoop}
  /\ rd \in [Loops -> LoopRec] /\ wr \in [Loops -> WriteRec]
  /\ attempts \in Sockets /\ setup \in [Sockets -> SetupRec]
  /\ sock \in [Sockets -> {"none", "open", "connected", "lost", "closed"}]
  /\ helloed \subseteq Sockets
  /\ wire \in [Sockets -> Seq(IDs)]
  /\ owed \in [IDs -> OwedRec]
  /\ faults \in 0 .. MaxFaults /\ timeouts \in 0 .. MaxTimeouts
  /\ crash \in Crashes

Queued == {sendQueue[k] : k \in DOMAIN sendQueue}
InCall(ops) == {i \in IDs : \E t \in Threads : \E c \in CallsOf(t) : c.id = i /\ c.op \in ops}
Answered == {i \in IDs : outcome[i] # "none"}
Resting == \A t \in Threads : Idle(t)

\* Every item of the message store still has its request: minimumTimeout,
\* which shouldStopReading calls on each turn of the read loop, dereferences
\* _request of every stored item, while processChunk, asyncWriteCallback and
\* cancelAll move requests out on other threads.
StoreOwnsRequest == store \subseteq owns

\* No request is lost between the hands it passes through: until its
\* callback ran, a request is with the thread that enqueues it, in the send
\* queue, in the message store, or with the thread about to call it back.
Accounted ==
  1 .. nextID \subseteq Answered \cup Queued \cup store
                        \cup InCall({"enqueue", "moveRequest", "invoke"})

\* The requests of users whose callback is still to be called and that are
\* in somebody's hands.
Pending == {i \in (1 .. nextID) \ (authIDs \cup Answered) :
              i \in Queued \cup store \cup InCall({"enqueue", "moveRequest", "invoke"})}

C == INSTANCE Connection
       WITH Requests <- IDs, Results <- Outcomes \ {"none"}, NoResult <- "none",
            pending <- Pending,
            result <- [i \in IDs |-> IF i \in authIDs THEN "none" ELSE outcome[i]]

\* VstConnection keeps what Connection promises: a request is in the hands of
\* the queue, the store or a thread from sendRequest to its callback, and only
\* its callback ends that, also when authentication requests are put before it
\* and restarts take it from the queue twice.
ImplementsConnection == C!Spec

\* A callback gets its request back: the first invoke of an item is the one
\* that moved _request, although the write handler, processChunk and
\* cancelAll compete for it and invoke takes the request before it decides.
HandedBack == Answered \subseteq handed

\* No lost wakeup of the write loop: with an established connection and no
\* handler running, a queued request has a write in progress before it.
QueueServed ==
  (/\ Resting /\ sendQueue # <<>> /\ ~permanentFailure
   /\ socket \in helloed
   /\ \A n \in Sockets : setup[n].kind = "none")
  => writeCur # NoLoop /\ wr[writeCur].op # "idle"

\* No lost wakeup of the read loop: while a request waits for its response
\* and no handler runs, a read is in progress (with its deadline), so the
\* response, an error or the timeout will be noticed.
StoreWatched ==
  Resting /\ store # {} => readCur # NoLoop /\ rd[readCur].op # "idle"

\* What asio requires of async_write: a second write on a socket starts
\* after the first has completed, the VST header included.
OneWriteAtATime ==
  /\ \A k, l \in Loops : k # l /\ wr[k].op = "pending" /\ wr[l].op = "pending"
                           => wr[k].sock # wr[l].sock
  /\ \A l \in Loops, n \in Sockets :
       wr[l].op = "pending" /\ setup[n].kind = "header" /\ setup[n].res = "pending"
         => wr[l].sock # setup[n].sock

\* sendNextRequest: "make sure we are connected and handshake has been done".
HandshakeFirst == \A l \in Loops : wr[l].op = "pending" => wr[l].sock \in helloed

\* insertAuthenticationRequests: "Insert all requests needed for
\* authenticating a new connection at the front of the send queue".  Requests
\* that users queue while the connection is set up are not written before the
\* authentication request was, although their threads read _connected and
\* start the write loop at any moment of the header's handler.
AuthenticatesFirst ==
  Auth => \A l \in Loops :
            wr[l].op # "idle" => Head(wr[l].data) \in authIDs \/ authIDs \cap sent # {}

\* No assert fails and nothing is dereferenced that is not there.
NeverDies == crash = "no"

\* A request that was taken into the message store is answered, whatever the
\* server and the network do: by its response, an error or its timeout;
\* unless the process died meanwhile.
StoredIsAnswered == \A i \in IDs : i \in store ~> (outcome[i] # "none" \/ crash # "no")

\* connection.h: "When a response is received or an error occurs, the
\* corresponding callback is called.", unless the process died before.
EveryRequestAnswered == \A i \in IDs : nextID >= i ~> (outcome[i] # "none" \/ crash # "no")

----------------------------------------------------------------------------
(* What comments and asserts of the code say, and the code does not keep.  *)

\* restartConnection: "Read & write loop must have been reset by now", and
\* initSocket: "socket must be empty before. Check that". Both are asserted,
\* after the caller reset the loops and the socket and released the mutexes.
RestartAssertsHold == crash \notin {"assertLoops", "assertSocket"}
============================================================================
