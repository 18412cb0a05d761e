--------------------------- MODULE HttpConnection ---------------------------
(***************************************************************************)
(* HttpConnection (src/HttpConnection.cpp) on top of CurlMultiAsio: users  *)
(* send requests from any thread; a request is put into the message store, *)
(* its easy handle is given to curl, and handleResult calls its callback.  *)
(* The store owns the item, and with it the easy handle.                   *)
(***************************************************************************)
EXTENDS CurlMultiAsio

VARIABLES
  request,     \* per handle: how far sendRequest is
  store,       \* _messageStore: the requests in flight
  answer       \* per handle: what its callback was called with

userVars == <<request, store, answer>>
vars == <<multiVars, userVars>>

Requests == {"new", "stored", "sent", "rejected"}
Answers == {"none"} \cup Results

Init ==
  /\ MultiInit
  /\ request = [h \in Handles |-> "new"]
  /\ store = {}
  /\ answer = [h \in Handles |-> "none"]

----------------------------------------------------------------------------
(* sendRequest: queueRequest and createRequestItem.                        *)

\* An illegal verb or JWT authentication: an exception ends sendRequest.
Reject(h) ==
  /\ request[h] = "new"
  /\ request' = [request EXCEPT ![h] = "rejected"]
  /\ UNCHANGED <<multiVars, store, answer>>

\* The item and its easy handle are made and go into the store,
StoreItem(h) ==
  /\ request[h] = "new"
  /\ request' = [request EXCEPT ![h] = "stored"]
  /\ store' = store \cup {h}
  /\ UNCHANGED <<multiVars, answer>>

\* then the handle goes to curl.
AddRequest(h) ==
  /\ request[h] = "stored"
  /\ request' = [request EXCEPT ![h] = "sent"]
  /\ AddHandle(h)
  /\ UNCHANGED <<store, answer>>

----------------------------------------------------------------------------
(* handleResult, in an io thread.                                          *)

\* Call the callback, with the response or with the error that the code of
\* curl stands for; some are told to onFailure first, which changes nothing.
HandleResult(t) ==
  /\ thread[t].pc = "idle"
  /\ \E p \in posted :
       /\ posted' = posted \ {p}
       /\ thread' = [thread EXCEPT ![t].pc = "erase", ![t].easy = p[1]]
       /\ answer' = [answer EXCEPT ![p[1]] = IF @ = "none" THEN p[2] ELSE @]
  /\ UNCHANGED <<curlVars, timerVars, holder, socketVars, requests_left, netVars,
                 request, store>>

\* Variant: the item stays in the store.
EraseForgotten(t) ==
  /\ thread[t].pc = "erase"
  /\ thread' = [thread EXCEPT ![t] = Idle]
  /\ UNCHANGED <<curlVars, timerVars, holder, socketVars, requests_left, posted,
                 netVars, userVars>>

\* removeByID: the item goes, and its easy handle with it.
Erase(t) ==
  /\ thread[t].pc = "erase"
  /\ store' = store \ {thread[t].easy}
  /\ thread' = [thread EXCEPT ![t] = Idle]
  /\ UNCHANGED <<curlVars, timerVars, holder, socketVars, requests_left, posted,
                 netVars, request, answer>>

----------------------------------------------------------------------------

IoStep(t) ==
  \/ MultiStep(t) /\ UNCHANGED userVars
  \/ HandleResult(t)
  \/ Erase(t)

Asio ==
  \/ TimerExpires
  \/ \E s \in Sockets, d \in Directions : WaitCompletes(s, d)

Next ==
  \/ \E h \in Handles : Reject(h) \/ StoreItem(h) \/ AddRequest(h)
  \/ \E t \in IoThreads : IoStep(t)
  \/ Asio /\ UNCHANGED userVars
  \/ Network /\ UNCHANGED userVars

Spec == Init /\ [][Next]_vars

\* Threads go on, and the io_service runs what is ready.
FairSpec ==
  /\ Spec
  /\ \A h \in Handles : WF_vars(AddRequest(h))
  /\ \A t \in IoThreads : WF_vars(IoStep(t))
  /\ WF_vars(Asio /\ UNCHANGED userVars)

\* The server answers every request that reaches it.
ServedSpec ==
  /\ FairSpec
  /\ \A s \in Sockets : WF_vars(Network /\ Establish(s) /\ UNCHANGED userVars)
  /\ \A s \in Sockets : WF_vars(Network /\ Deliver(s) /\ UNCHANGED userVars)

----------------------------------------------------------------------------
(* Properties.                                                             *)

CurlType ==
  /\ phase \in [Handles -> Phases]
  /\ sock \in [Handles -> SUBSET Sockets]
  /\ polls \in [Handles -> Nat]
  /\ messages \subseteq Handles \X Results

TimerType ==
  /\ told \in {"none", "now", "later", "past"}
  /\ armed \in BOOLEAN
  /\ timers \in Nat

SocketType ==
  /\ socket_map \subseteq Sockets
  /\ action \in [Sockets -> SUBSET Directions]
  /\ waits \in [Sockets -> [Directions -> Nat]]
  /\ events \in [Sockets -> [Directions -> Nat]]

Calls == [pc : Steps, call : {"timer", "event"}, due : SUBSET Handles,
          late : SUBSET Handles, left : Nat, easy : Handles \cup {NoHandle},
          result : Results]

ThreadType ==
  /\ thread \in [IoThreads -> Calls]
  /\ holder \in IoThreads \cup {NoHandle}
  /\ posted \subseteq Handles \X Results
  /\ requests_left \in Nat

NetType ==
  /\ link \in [Sockets -> {"closed", "pending", "up", "broken"}]
  /\ coming \in [Sockets -> Nat]
  /\ avail \in [Sockets -> Nat]

UserType ==
  /\ request \in [Handles -> Requests]
  /\ store \subseteq Handles
  /\ answer \in [Handles -> Answers]

\* The variables keep their types: counters of waits, queued handlers and
\* transfers never fall below 0, and only known handles travel from curl to
\* handleResult.
TypeOK == CurlType /\ TimerType /\ SocketType /\ ThreadType /\ NetType /\ UserType

\* The hands a request in flight can be in: sendRequest before it reaches
\* curl, a transfer, a message of curl or the thread that read it, the queue
\* of results, or the thread that runs handleResult.
Places == ({"unsent", "running"} \X {NoHandle}) \cup ({"message", "posted"} \X Results)
          \cup ({"read", "handled"} \X IoThreads)

ReadBy(t, h) == thread[t].pc = "remove" /\ thread[t].easy = h
HandledBy(t, h) == thread[t].pc = "erase" /\ thread[t].easy = h

Holds(p, h) ==
  CASE p[1] = "unsent"  -> request[h] = "stored"
    [] p[1] = "running" -> h \in Running
    [] p[1] = "message" -> <<h, p[2]>> \in messages
    [] p[1] = "read"    -> ReadBy(p[2], h)
    [] p[1] = "posted"  -> <<h, p[2]>> \in posted
    [] p[1] = "handled" -> HandledBy(p[2], h)

Hands(h) == {p \in Places : Holds(p, h)}

\* The item in the message store owns the easy handle: curl, the queue of
\* results and the io threads only use handles of stored items, every stored
\* item is in exactly one of their hands, and curl keeps a finished transfer
\* only until its message was read (createRequestItem adds to the store before
\* curl; check_multi_info removes from curl before it posts).
OneOwner ==
  \A h \in Handles :
    /\ h \in store <=> Hands(h) # {}
    /\ \A p, q \in Hands(h) : p = q
    /\ phase[h] = "done" => \E p \in Hands(h) : p[1] \in {"message", "read"}
    /\ \A p \in Hands(h) : p[1] \in {"message", "read"} => phase[h] = "done"

\* With one io thread, a timeout that curl asked for is never forgotten:
\* while no call of curl is in progress, the timer waits for it or timer_cb
\* is queued, although event_cb stops the timer without _multi_mutex.
TimerKept ==
  holder = NoHandle =>
    /\ told = "later" => armed
    /\ told \in {"now", "past"} => timers > 0
    /\ Running # {} => told # "none"

\* curl has a SocketInfo only for open sockets that a transfer uses, and
\* asynchronous waits are only in progress on open sockets.
WatchedInUse ==
  \A s \in Sockets :
    /\ action[s] # {} => s \in socket_map /\ Using(s) # {}
    /\ waits[s] # NoWaits => s \in socket_map

\* requestsLeft() is 0 again when every transfer has ended and the io thread
\* has returned from its handlers.
LeftSettles ==
  (Running = {} /\ \A t \in IoThreads : thread[t].pc = "idle") => requests_left = 0

\* The requests whose callback is still to be called: their item is in the
\* message store, and no thread has come to the end of handleResult with it.
Pending == {h \in store : \A t \in IoThreads : ~HandledBy(t, h)}

C == INSTANCE Connection
       WITH Requests <- Handles, NoResult <- "none", pending <- Pending, result <- answer

\* HttpConnection keeps what Connection promises: a request is in the store
\* from sendRequest to its callback, handleResult answers only requests that
\* wait for an answer, and none leaves the store without one.
ImplementsConnection == C!Spec

\* Every request that reached the message store is answered: by a response,
\* an error or its timeout.
EveryHttpRequestAnswered ==
  \A h \in Handles : request[h] = "stored" ~> answer[h] # "none"

=============================================================================
