---------------------------- MODULE HttpProofs ----------------------------
(***************************************************************************)
(* Proofs about HttpConnection: the types, that the message store owns     *)
(* every easy handle in use, and that it implements Connection, for any    *)
(* number of requests, sockets and io threads.                             *)
(*                                                                         *)
(* Then the callbacks between curl and boost::asio: sockets are watched    *)
(* only while a transfer uses them, whatever the number of io threads;     *)
(* with one io thread, which is what EventLoopService starts by default,   *)
(* no timeout of curl is forgotten and the count of requests settles.      *)
(***************************************************************************)
EXTENDS HttpConnection, FiniteSetTheorems, TLAPS

\* Only the thread that holds _multi_mutex is inside curl, and it works on
\* transfers that are running.
Locked ==
  \A t \in IoThreads : thread[t].pc = "curl" =>
    holder = t /\ thread[t].due \subseteq Running

\* A thread that read a message or handles a result has its handle.
HasHandle ==
  \A t \in IoThreads : thread[t].pc \in {"remove", "erase"} => thread[t].easy \in Handles

\* What sendRequest has not stored is not in the store.
Unstored == \A h \in Handles : request[h] \in {"new", "rejected"} => h \notin store

\* The inductive invariant.
IndInv == TypeOK /\ Locked /\ HasHandle /\ Unstored /\ OneOwner

----------------------------------------------------------------------------
(* Types.                                                                  *)

\* curl counts its running transfers.
LEMMA RunningCounted == Cardinality(Running) \in Nat
<1>1. Running \subseteq Handles
  BY DEF Running
<1> QED
  BY <1>1, HandlesFinite, FS_Subset, FS_CardinalityType

\* The record of an idle thread has its type.
LEMMA IdleType == Idle \in Calls
BY DEF Idle, Calls, Steps, Results

\* No wait in progress is a count of its type.
LEMMA NoWaitsType == NoWaits \in [Directions -> Nat]
BY DEF NoWaits, Directions

\* The initial state has its types.
LEMMA InitType == Init => TypeOK
<1> SUFFICES ASSUME Init PROVE TypeOK
  OBVIOUS
<1>1. CurlType
  BY DEF Init, MultiInit, CurlType, Phases
<1>2. TimerType
  BY DEF Init, MultiInit, TimerType
<1>3. SocketType
  BY NoWaitsType DEF Init, MultiInit, SocketType
<1>4. ThreadType
  BY IdleType DEF Init, MultiInit, ThreadType
<1>5. NetType
  BY DEF Init, MultiInit, NetType
<1>6. UserType
  BY DEF Init, UserType, Requests, Answers
<1> QED
  BY <1>1, <1>2, <1>3, <1>4, <1>5, <1>6 DEF TypeOK

\* The callbacks of curl keep the types of what they change.
LEMMA TimerCbType ==
  ASSUME TimerType, NEW when \in {"none", "now", "later"}, MultiTimerCb(when)
  PROVE  TimerType'
<1>1. armed' \in BOOLEAN
  BY Zenon DEF MultiTimerCb
<1> QED
  BY <1>1 DEF TimerType, MultiTimerCb

LEMMA TellTimeoutType ==
  ASSUME TimerType, TellTimeout
  PROVE  TimerType'
<1>1. CASE MultiTimerCb("none")
  BY <1>1, TimerCbType
<1>2. CASE MultiTimerCb("later")
  BY <1>2, TimerCbType
<1>3. CASE UNCHANGED timerVars
  BY <1>3 DEF TimerType, timerVars
<1> QED
  BY <1>1, <1>2, <1>3 DEF TellTimeout

LEMMA SetSocketType ==
  ASSUME SocketType, NEW s, NEW what \in SUBSET Directions, NEW map,
         SetSocket(s, what, map), socket_map' \subseteq Sockets
  PROVE  SocketType'
<1>1. action' \in [Sockets -> SUBSET Directions]
  BY DEF SocketType, SetSocket
<1>2. waits' \in [Sockets -> [Directions -> Nat]]
  <2> DEFINE w == [d \in Directions |-> IF d \in what /\ s \in map
                                       THEN waits[s][d] + 1 ELSE waits[s][d]]
  <2>1. CASE s \in Sockets
    <3>1. waits[s] \in [Directions -> Nat]
      BY <2>1 DEF SocketType
    <3>2. w \in [Directions -> Nat]
      BY <3>1
    <3>3. waits' = [waits EXCEPT ![s] = w]
      BY DEF SetSocket
    <3> HIDE DEF w
    <3> QED
      BY <3>2, <3>3 DEF SocketType
  <2>2. CASE s \notin Sockets
    BY <2>2 DEF SocketType, SetSocket
  <2> QED
    BY <2>1, <2>2
<1> QED
  BY <1>1, <1>2 DEF SocketType, SetSocket

LEMMA RemoveSocketType ==
  ASSUME SocketType, NEW ss, RemoveSocket(ss), socket_map' \subseteq Sockets
  PROVE  SocketType'
<1>1. action' \in [Sockets -> SUBSET Directions]
  BY DEF SocketType, RemoveSocket
<1>2. waits' \in [Sockets -> [Directions -> Nat]]
  BY NoWaitsType DEF SocketType, RemoveSocket, CancelWaits
<1>3. events' \in [Sockets -> [Directions -> Nat]]
  BY DEF SocketType, RemoveSocket, CancelWaits
<1> QED
  BY <1>1, <1>2, <1>3 DEF SocketType

LEMMA CloseSocketType ==
  ASSUME NetType, NEW ss, CloseSocket(ss), socket_map \subseteq Sockets
  PROVE  NetType' /\ socket_map' \subseteq Sockets
BY DEF NetType, CloseSocket

LEMMA EndsType ==
  ASSUME CurlType, SocketType, NetType, NEW h \in Handles, NEW r \in Results,
         NEW keep \in BOOLEAN, Ends(h, r, keep), polls' = polls
  PROVE  CurlType' /\ SocketType' /\ NetType'
<1>1. CurlType'
  BY DEF CurlType, Ends, Phases
<1>2. NetType' /\ socket_map' \subseteq Sockets
  <2>1. CASE keep
    BY <2>1 DEF Ends, NetType, SocketType
  <2>2. CASE ~keep
    BY <2>2, CloseSocketType DEF Ends, SocketType
  <2> QED
    BY <2>1, <2>2
<1>3. SocketType'
  BY <1>2, RemoveSocketType DEF Ends
<1> QED
  BY <1>1, <1>2, <1>3

\* A step of curl for one transfer keeps the types.
LEMMA ServesType ==
  ASSUME ThreadType, NEW t \in IoThreads, NEW h \in Handles, Serves(t, h)
  PROVE  ThreadType' /\ polls' = polls /\ UNCHANGED timerVars
<1>1. thread[t] \in Calls
  BY DEF ThreadType
<1>2. [thread[t] EXCEPT !.due = @ \ {h}] \in Calls
  BY <1>1 DEF Calls
<1>3. thread' = [thread EXCEPT ![t] = [thread[t] EXCEPT !.due = @ \ {h}]]
  BY DEF Serves
<1>4. thread' \in [IoThreads -> Calls]
  BY <1>2, <1>3 DEF ThreadType
<1> QED
  BY <1>4 DEF ThreadType, Serves

LEMMA StartsRequestType ==
  ASSUME CurlType, SocketType, NetType, NEW h \in Handles, NEW s,
         StartsRequest(h, s), UNCHANGED <<socket_map, link, avail>>
  PROVE  /\ phase' \in [Handles -> Phases]
         /\ SocketType' /\ NetType'
<1>1. phase' \in [Handles -> Phases]
  BY DEF StartsRequest, CurlType, Phases
<1>2. SocketType'
  BY SetSocketType DEF StartsRequest, SocketType, Directions
<1>3. coming' \in [Sockets -> Nat]
  BY PortionsAssumption DEF StartsRequest, NetType
<1> QED
  BY <1>1, <1>2, <1>3 DEF NetType

LEMMA CurlStepType ==
  ASSUME TypeOK, NEW t \in IoThreads, CurlStep(t), UNCHANGED userVars
  PROVE  TypeOK'
<1> USE DEF TypeOK
<1> PICK h \in Handles :
    \/ Resolving(t, h) \/ CannotConnect(t, h) \/ Connected(t, h) \/ Sent(t, h)
    \/ Nothing(t, h) \/ ReadPortion(t, h) \/ ReadLast(t, h)
    \/ Broken(t, h) \/ BodyRefused(t, h) \/ TimedOut(t, h)
    \/ \E s \in Sockets : Connect(t, h, s) \/ Reuse(t, h, s)
  BY DEF CurlStep
<1>u. UserType'
  BY DEF UserType, userVars
<1>s. Serves(t, h)
  BY DEF Resolving, CannotConnect, Connected, Sent, Nothing, ReadPortion, ReadLast,
         Broken, BodyRefused, TimedOut, Connect, Reuse, InTime
<1>t. ThreadType' /\ polls' = polls /\ TimerType'
  BY <1>s, ServesType DEF TimerType, timerVars
<1>k. "ok" \in Results /\ "error" \in Results
  BY DEF Results
<1>1. CASE Resolving(t, h)
  BY <1>1, <1>u, <1>t DEF Resolving, CurlType, SocketType, NetType, Phases,
     socketVars, netVars
<1>2. CASE CannotConnect(t, h)
  BY <1>2, <1>u, <1>t, <1>k, EndsType DEF CannotConnect
<1>3. CASE Connected(t, h)
  <2>1. phase' \in [Handles -> Phases] /\ SocketType' /\ NetType'
    BY <1>3, StartsRequestType DEF Connected
  <2> QED
    BY <1>3, <2>1, <1>u, <1>t DEF Connected, CurlType
<1>4. CASE Sent(t, h)
  <2>1. SocketType'
    BY <1>4, SetSocketType DEF Sent, SocketType, Directions
  <2>2. NetType'
    <3> PICK n \in 1 .. Portions : coming' = [coming EXCEPT ![TheSocket(h)] = n]
      BY <1>4 DEF Sent
    <3>1. n \in Nat
      BY PortionsAssumption
    <3>2. coming' \in [Sockets -> Nat]
      BY <3>1 DEF NetType
    <3> QED
      BY <1>4, <3>2 DEF Sent, NetType
  <2>3. CurlType'
    BY <1>4, <1>t DEF Sent, CurlType, Phases
  <2> QED
    BY <2>1, <2>2, <2>3, <1>u, <1>t
<1>5. CASE Nothing(t, h)
  BY <1>5, <1>u, <1>t DEF Nothing, CurlType, SocketType, NetType, socketVars, netVars
<1>6. CASE ReadPortion(t, h)
  BY <1>6, <1>u, <1>t DEF ReadPortion, CurlType, SocketType, NetType, socketVars
<1>7. CASE ReadLast(t, h)
  BY <1>7, <1>u, <1>t, <1>k, EndsType DEF ReadLast
<1>8. CASE Broken(t, h)
  BY <1>8, <1>u, <1>t, <1>k, EndsType DEF Broken
<1>9. CASE BodyRefused(t, h) \/ TimedOut(t, h)
  BY <1>9, <1>u, <1>t, <1>k, EndsType DEF BodyRefused, TimedOut
<1>10. ASSUME NEW s \in Sockets, Connect(t, h, s)
       PROVE  TypeOK'
  <2>1. NetType' /\ socket_map' \subseteq Sockets
    BY <1>10 DEF Connect, OpenSocket, NetType, SocketType
  <2>2. SocketType'
    BY <1>10, <2>1, SetSocketType DEF Connect, Directions
  <2>3. CurlType'
    BY <1>10, <1>t DEF Connect, CurlType, Phases
  <2> QED
    BY <2>1, <2>2, <2>3, <1>u, <1>t
<1>11. ASSUME NEW s \in Sockets, Reuse(t, h, s)
       PROVE  TypeOK'
  <2>1. phase' \in [Handles -> Phases] /\ SocketType' /\ NetType'
    BY <1>11, StartsRequestType DEF Reuse
  <2>2. CurlType'
    BY <1>11, <2>1, <1>t DEF Reuse, CurlType
  <2> QED
    BY <2>1, <2>2, <1>u, <1>t
<1> QED
  BY <1>1, <1>2, <1>3, <1>4, <1>5, <1>6, <1>7, <1>8, <1>9, <1>10, <1>11

\* Entering curl keeps the types of threads and transfers.
LEMMA SocketActionType ==
  ASSUME TypeOK, NEW t \in IoThreads, NEW call \in {"timer", "event"},
         NEW ready \in SUBSET Handles, SocketAction(t, call, ready)
  PROVE  /\ CurlType' /\ ThreadType' /\ NetType'
         /\ told' \in {"none", "now", "later", "past"}
         /\ UNCHANGED <<armed, socket_map, action, waits>>
<1> USE DEF TypeOK
<1> PICK expired \in SUBSET Timed, late \in SUBSET Handles :
      /\ holder' = t
      /\ thread' = [thread EXCEPT ![t] =
           [Idle EXCEPT !.pc = "curl", !.call = call,
                        !.due = ready \cup New \cup expired, !.late = late]]
      /\ polls' = [h \in Handles |-> IF h \in expired /\ polls[h] > 0
                                     THEN polls[h] - 1 ELSE polls[h]]
      /\ told' = IF told = "later" THEN told ELSE "none"
      /\ UNCHANGED <<phase, sock, messages, armed, socket_map, action, waits,
                     requests_left, posted, netVars>>
  BY DEF SocketAction, Timed, Running
<1>1. expired \subseteq Handles /\ late \subseteq Handles /\ New \subseteq Handles
  BY DEF Timed, Running, New
<1>2. [Idle EXCEPT !.pc = "curl", !.call = call,
                   !.due = ready \cup New \cup expired, !.late = late] \in Calls
  BY <1>1, IdleType DEF Calls, Steps
<1>3. ThreadType'
  BY <1>2 DEF ThreadType
<1>4. polls' \in [Handles -> Nat]
  BY DEF CurlType
<1>5. CurlType'
  BY <1>4 DEF CurlType
<1> QED
  BY <1>3, <1>5 DEF NetType, netVars

\* The steps of an io thread in CurlMultiAsio keep the types.
LEMMA MultiStepType ==
  ASSUME TypeOK, HasHandle, NEW t \in IoThreads, MultiStep(t), UNCHANGED userVars
  PROVE  TypeOK'
<1> USE DEF TypeOK
<1>u. UserType'
  BY DEF UserType, userVars
<1>c. thread[t] \in Calls
  BY DEF ThreadType
<1>1. CASE TimerCb(t)
  <2>1. SocketAction(t, "timer", {}) /\ timers' = timers - 1 /\ timers > 0 /\ events' = events
    BY <1>1 DEF TimerCb
  <2>2. /\ CurlType' /\ ThreadType' /\ NetType'
        /\ told' \in {"none", "now", "later", "past"}
        /\ UNCHANGED <<armed, socket_map, action, waits>>
    BY <2>1, SocketActionType
  <2>3. timers' \in Nat
    BY <2>1 DEF TimerType
  <2>4. TimerType'
    BY <2>2, <2>3 DEF TimerType
  <2> QED
    BY <2>1, <2>2, <2>4, <1>u DEF SocketType
<1>2. ASSUME NEW s \in Sockets, NEW d \in Directions, EventCb(t, s, d)
      PROVE  TypeOK'
  <2>1. SocketAction(t, "event", Using(s)) /\ timers' = timers /\ events[s][d] > 0
        /\ events' = [events EXCEPT ![s][d] = @ - 1]
    BY <1>2 DEF EventCb
  <2>2. Using(s) \in SUBSET Handles
    BY DEF Using, Running
  <2>3. /\ CurlType' /\ ThreadType' /\ NetType'
        /\ told' \in {"none", "now", "later", "past"}
        /\ UNCHANGED <<armed, socket_map, action, waits>>
    BY <2>1, <2>2, SocketActionType
  <2>4. events' \in [Sockets -> [Directions -> Nat]]
    BY <2>1 DEF SocketType
  <2>5. TimerType'
    BY <2>1, <2>3 DEF TimerType
  <2> QED
    BY <2>3, <2>4, <2>5, <1>u DEF SocketType
<1>3. CASE CurlStep(t)
  BY <1>3, CurlStepType
<1>4. ASSUME NEW s \in Sockets, CloseBroken(t, s)
      PROVE  TypeOK'
  <2>1. NetType' /\ socket_map' \subseteq Sockets
    BY <1>4, CloseSocketType DEF CloseBroken, SocketType
  <2>2. SocketType'
    BY <1>4, <2>1, RemoveSocketType DEF CloseBroken
  <2> QED
    BY <1>4, <2>1, <2>2, <1>u
       DEF CloseBroken, CurlType, TimerType, ThreadType, curlVars, timerVars
<1>5. CASE SocketActionReturns(t)
  <2>1. TimerType'
    BY <1>5, TellTimeoutType DEF SocketActionReturns
  <2>2. [thread[t] EXCEPT !.pc = "count", !.late = {},
                          !.left = Cardinality(Running)] \in Calls
    BY <1>c, RunningCounted DEF Calls, Steps
  <2>3. thread' = [thread EXCEPT ![t] = [thread[t] EXCEPT !.pc = "count", !.late = {},
                          !.left = Cardinality(Running)]]
    BY <1>5 DEF SocketActionReturns
  <2>4. ThreadType'
    BY <1>5, <2>2, <2>3 DEF SocketActionReturns, ThreadType
  <2> QED
    BY <1>5, <2>1, <2>4, <1>u DEF SocketActionReturns, CurlType, SocketType, NetType,
       curlVars, socketVars, netVars
<1>6. CASE Count(t)
  <2>1. thread[t].left \in Nat /\ [thread[t] EXCEPT !.pc = "info"] \in Calls
    BY <1>c DEF Calls, Steps
  <2>2. ThreadType'
    BY <1>6, <2>1 DEF Count, ThreadType
  <2> QED
    BY <1>6, <2>2, <1>u DEF Count, CurlType, TimerType, SocketType, NetType,
       curlVars, timerVars, socketVars, netVars
<1>7. CASE ReadInfo(t)
  <2>1. messages' \subseteq messages
    BY <1>7 DEF ReadInfo
  <2>2. AfterInfo(t) \in Calls
    <3>1. [thread[t] EXCEPT !.pc = "kill"] \in Calls
      BY <1>c DEF Calls, Steps
    <3> QED
      BY <3>1, IdleType DEF AfterInfo
  <2>3. ASSUME NEW m \in messages
        PROVE  [thread[t] EXCEPT !.pc = "remove", !.easy = m[1], !.result = m[2]] \in Calls
    <3>1. m[1] \in Handles /\ m[2] \in Results
      BY DEF CurlType
    <3> QED
      BY <1>c, <3>1 DEF Calls, Steps
  <2>4. \/ thread' = [thread EXCEPT ![t] = AfterInfo(t)]
        \/ \E m \in messages : thread' = [thread EXCEPT ![t] =
             [thread[t] EXCEPT !.pc = "remove", !.easy = m[1], !.result = m[2]]]
    BY <1>7 DEF ReadInfo
  <2>5. thread' \in [IoThreads -> Calls]
    BY <2>2, <2>3, <2>4 DEF ThreadType
  <2> QED
    BY <1>7, <2>1, <2>5, <1>u DEF ReadInfo, CurlType, TimerType, SocketType, NetType,
       ThreadType, timerVars, socketVars, netVars
<1>8. CASE RemoveHandle(t) /\ thread[t].easy \in Handles
  <2>1. TimerType'
    BY <1>8, TellTimeoutType DEF RemoveHandle
  <2>2. phase' \in [Handles -> Phases]
    BY <1>8 DEF RemoveHandle, RemovedFromMulti, CurlType, Phases
  <2>3. thread[t].result \in Results /\ "ok" \in Results
    BY <1>c DEF Calls, Results
  <2>4. posted' \subseteq Handles \X Results
    BY <1>8, <2>3 DEF RemoveHandle, ThreadType
  <2>5. [thread[t] EXCEPT !.pc = "info", !.easy = NoHandle, !.result = "ok"] \in Calls
    BY <1>c, <2>3 DEF Calls, Steps
  <2>6. thread' = [thread EXCEPT ![t] =
          [thread[t] EXCEPT !.pc = "info", !.easy = NoHandle, !.result = "ok"]]
    BY <1>8 DEF RemoveHandle
  <2>7. thread' \in [IoThreads -> Calls]
    BY <2>5, <2>6 DEF ThreadType
  <2> QED
    BY <1>8, <2>1, <2>2, <2>4, <2>7, <1>u DEF RemoveHandle, CurlType, SocketType,
       NetType, ThreadType, socketVars, netVars
<1>9. CASE KillTimer(t)
  BY <1>9, <1>u, IdleType DEF KillTimer, CurlType, TimerType, SocketType, NetType,
     ThreadType, curlVars, socketVars, netVars
<1> QED
  BY <1>1, <1>2, <1>3, <1>4, <1>5, <1>6, <1>7, <1>8, <1>9
     DEF MultiStep, HasHandle, RemoveHandle

\* Every step keeps the types.
LEMMA NextType ==
  ASSUME TypeOK, HasHandle, [Next]_vars
  PROVE  TypeOK'
<1> USE DEF TypeOK
<1>1. ASSUME NEW h \in Handles, Reject(h)
      PROVE  TypeOK'
  BY <1>1 DEF Reject, UserType, Requests, CurlType, TimerType, SocketType, ThreadType,
     NetType, multiVars, curlVars, timerVars, socketVars, netVars
<1>2. ASSUME NEW h \in Handles, StoreItem(h)
      PROVE  TypeOK'
  BY <1>2 DEF StoreItem, UserType, Requests, CurlType, TimerType, SocketType, ThreadType,
     NetType, multiVars, curlVars, timerVars, socketVars, netVars
<1>3. ASSUME NEW h \in Handles, AddRequest(h)
      PROVE  TypeOK'
  <2>1. TimerType'
    BY <1>3, TimerCbType DEF AddRequest, AddHandle
  <2>2. CurlType'
    BY <1>3, MaxPollsAssumption DEF AddRequest, AddHandle, CurlType, Phases
  <2>3. UserType'
    BY <1>3 DEF AddRequest, UserType, Requests
  <2> QED
    BY <1>3, <2>1, <2>2, <2>3 DEF AddRequest, AddHandle, SocketType, ThreadType, NetType,
       socketVars, netVars
<1>4. ASSUME NEW t \in IoThreads, MultiStep(t), UNCHANGED userVars
      PROVE  TypeOK'
  BY <1>4, MultiStepType
<1>5. ASSUME NEW t \in IoThreads, HandleResult(t)
      PROVE  TypeOK'
  <2> PICK p \in posted :
        /\ posted' = posted \ {p}
        /\ thread' = [thread EXCEPT ![t].pc = "erase", ![t].easy = p[1]]
        /\ answer' = [answer EXCEPT ![p[1]] = IF @ = "none" THEN p[2] ELSE @]
    BY <1>5 DEF HandleResult
  <2>1. p[1] \in Handles /\ p[2] \in Results
    BY DEF ThreadType
  <2>2. thread[t] \in Calls
    BY DEF ThreadType
  <2>3. [thread[t] EXCEPT !.pc = "erase", !.easy = p[1]] \in Calls
    BY <2>1, <2>2 DEF Calls, Steps
  <2>4. thread' \in [IoThreads -> Calls]
    BY <2>3 DEF ThreadType
  <2>5. answer' \in [Handles -> Answers]
    BY <2>1 DEF UserType, Answers
  <2> QED
    BY <1>5, <2>4, <2>5 DEF HandleResult, UserType, CurlType, TimerType, SocketType,
       ThreadType, NetType, curlVars, timerVars, socketVars, netVars
<1>6. ASSUME NEW t \in IoThreads, Erase(t)
      PROVE  TypeOK'
  BY <1>6, IdleType DEF Erase, UserType, CurlType, TimerType, SocketType, ThreadType,
     NetType, curlVars, timerVars, socketVars, netVars
<1>7. CASE TimerExpires /\ UNCHANGED userVars
  <2>1. TimerType'
    <3>1. armed' \in BOOLEAN
      BY <1>7, Zenon DEF TimerExpires
    <3> QED
      BY <1>7, <3>1 DEF TimerExpires, TimerType
  <2> QED
    BY <1>7, <2>1 DEF TimerExpires, UserType, CurlType, SocketType, ThreadType,
       NetType, userVars, curlVars, socketVars, netVars
<1>8. ASSUME NEW s \in Sockets, NEW d \in Directions, WaitCompletes(s, d), UNCHANGED userVars
      PROVE  TypeOK'
  <2>1. waits' \in [Sockets -> [Directions -> Nat]]
    BY <1>8 DEF WaitCompletes, SocketType
  <2>2. events' \in [Sockets -> [Directions -> Nat]]
    BY <1>8 DEF WaitCompletes, SocketType
  <2> QED
    BY <1>8, <2>1, <2>2 DEF WaitCompletes, UserType, CurlType, TimerType, SocketType,
       ThreadType, NetType, userVars, curlVars, timerVars, netVars
<1>9. CASE Network /\ UNCHANGED userVars
  <2>1. PICK s \in Sockets : Establish(s) \/ Deliver(s) \/ Break(s)
    BY <1>9 DEF Network
  <2>2. NetType'
    BY <2>1 DEF Establish, Deliver, Break, NetType
  <2> QED
    BY <1>9, <2>2 DEF Network, UserType, CurlType, TimerType, SocketType, ThreadType,
       userVars, curlVars, timerVars, socketVars
<1>10. CASE UNCHANGED vars
  BY <1>10 DEF vars, userVars, UserType, CurlType, TimerType, SocketType, ThreadType,
     NetType, multiVars, curlVars, timerVars, socketVars, netVars
<1> QED
  BY <1>1, <1>2, <1>3, <1>4, <1>5, <1>6, <1>7, <1>8, <1>9, <1>10 DEF Next, IoStep, Asio

----------------------------------------------------------------------------
(* Ownership.                                                              *)

\* What an io thread has in its hands before and after a step.
KeepsHold(t) ==
  \A h \in Handles : (ReadBy(t, h)' <=> ReadBy(t, h)) /\ (HandledBy(t, h)' <=> HandledBy(t, h))

\* A request that no part of the state tells apart stays in its hands.
LEMMA HandsSame ==
  ASSUME NEW h \in Handles,
         request'[h] = "stored" <=> request[h] = "stored",
         (h \in Running)' <=> h \in Running,
         \A r \in Results : <<h, r>> \in messages' <=> <<h, r>> \in messages,
         \A r \in Results : <<h, r>> \in posted' <=> <<h, r>> \in posted,
         \A t \in IoThreads : ReadBy(t, h)' <=> ReadBy(t, h),
         \A t \in IoThreads : HandledBy(t, h)' <=> HandledBy(t, h)
  PROVE  Hands(h)' = Hands(h)
<1> SUFFICES ASSUME NEW p \in Places PROVE Holds(p, h)' <=> Holds(p, h)
  BY DEF Hands, Places
<1>1. CASE p[1] = "unsent"
  BY <1>1 DEF Holds
<1>2. CASE p[1] = "running"
  BY <1>2 DEF Holds
<1>3. CASE p[1] = "message"
  <2>1. p[2] \in Results
    BY <1>3 DEF Places
  <2> QED
    BY <1>3, <2>1 DEF Holds
<1>4. CASE p[1] = "posted"
  <2>1. p[2] \in Results
    BY <1>4 DEF Places
  <2> QED
    BY <1>4, <2>1 DEF Holds
<1>5. CASE p[1] = "read"
  <2>1. p[2] \in IoThreads
    BY <1>5 DEF Places
  <2> QED
    BY <1>5, <2>1 DEF Holds
<1>6. CASE p[1] = "handled"
  <2>1. p[2] \in IoThreads
    BY <1>6 DEF Places
  <2> QED
    BY <1>6, <2>1 DEF Holds
<1> QED
  BY <1>1, <1>2, <1>3, <1>4, <1>5, <1>6 DEF Places

\* A step that moves no request keeps the ownership.
LEMMA NothingMoves ==
  ASSUME OneOwner, store' = store, messages' = messages, posted' = posted,
         \A h \in Handles : /\ request'[h] = "stored" <=> request[h] = "stored"
                            /\ (h \in Running)' <=> h \in Running
                            /\ phase'[h] = "done" <=> phase[h] = "done",
         \A t \in IoThreads : KeepsHold(t)
  PROVE  OneOwner'
<1>1. \A h \in Handles : Hands(h)' = Hands(h)
  BY HandsSame DEF KeepsHold
<1> QED
  BY <1>1 DEF OneOwner

\* A step that moves one request to another place keeps the ownership.
LEMMA OneMoves ==
  ASSUME OneOwner, NEW h \in Handles, NEW q,
         Hands(h)' = {q}, h \in store',
         phase'[h] = "done" <=> q[1] \in {"message", "read"},
         \A k \in Handles \ {h} : /\ Hands(k)' = Hands(k)
                                  /\ k \in store' <=> k \in store
                                  /\ phase'[k] = "done" <=> phase[k] = "done"
  PROVE  OneOwner'
BY DEF OneOwner

\* The places, one by one.
LEMMA InHands ==
  ASSUME NEW h \in Handles
  PROVE  /\ <<"unsent", NoHandle>> \in Hands(h) <=> request[h] = "stored"
         /\ <<"running", NoHandle>> \in Hands(h) <=> h \in Running
         /\ \A r \in Results : /\ <<"message", r>> \in Hands(h) <=> <<h, r>> \in messages
                               /\ <<"posted", r>> \in Hands(h) <=> <<h, r>> \in posted
         /\ \A t \in IoThreads : /\ <<"read", t>> \in Hands(h) <=> ReadBy(t, h)
                                 /\ <<"handled", t>> \in Hands(h) <=> HandledBy(t, h)
<1>1. <<"unsent", NoHandle>> \in Hands(h) <=> request[h] = "stored"
  BY DEF Hands, Holds, Places
<1>2. <<"running", NoHandle>> \in Hands(h) <=> h \in Running
  BY DEF Hands, Holds, Places
<1>3. \A r \in Results : /\ <<"message", r>> \in Hands(h) <=> <<h, r>> \in messages
                         /\ <<"posted", r>> \in Hands(h) <=> <<h, r>> \in posted
  BY DEF Hands, Holds, Places
<1>4. \A t \in IoThreads : /\ <<"read", t>> \in Hands(h) <=> ReadBy(t, h)
                           /\ <<"handled", t>> \in Hands(h) <=> HandledBy(t, h)
  BY DEF Hands, Holds, Places
<1> QED
  BY <1>1, <1>2, <1>3, <1>4

\* A request that is in one place is in no other.
LEMMA Alone ==
  ASSUME OneOwner, NEW h \in Handles, NEW p \in Hands(h)
  PROVE  /\ request[h] = "stored" => p[1] = "unsent"
         /\ h \in Running => p[1] = "running"
         /\ \A r \in Results : /\ <<h, r>> \in messages => p = <<"message", r>>
                               /\ <<h, r>> \in posted => p = <<"posted", r>>
         /\ \A t \in IoThreads : /\ ReadBy(t, h) => p = <<"read", t>>
                                 /\ HandledBy(t, h) => p = <<"handled", t>>
<1>1. \A q \in Hands(h) : q = p
  BY DEF OneOwner
<1>2. request[h] = "stored" => p = <<"unsent", NoHandle>>
  BY <1>1, InHands
<1>3. h \in Running => p = <<"running", NoHandle>>
  BY <1>1, InHands
<1>4. \A r \in Results : /\ <<h, r>> \in messages => p = <<"message", r>>
                         /\ <<h, r>> \in posted => p = <<"posted", r>>
  BY <1>1, InHands
<1>5. \A t \in IoThreads : /\ ReadBy(t, h) => p = <<"read", t>>
                           /\ HandledBy(t, h) => p = <<"handled", t>>
  BY <1>1, InHands
<1> QED
  BY <1>2, <1>3, <1>4, <1>5

\* A request that a step leaves in the place q and in no other.
LEMMA HandsOnly ==
  ASSUME NEW h \in Handles, NEW q \in Places, Holds(q, h)',
         request'[h] = "stored" => q = <<"unsent", NoHandle>>,
         (h \in Running)' => q = <<"running", NoHandle>>,
         \A r \in Results : <<h, r>> \in messages' => q = <<"message", r>>,
         \A r \in Results : <<h, r>> \in posted' => q = <<"posted", r>>,
         \A t \in IoThreads : ReadBy(t, h)' => q = <<"read", t>>,
         \A t \in IoThreads : HandledBy(t, h)' => q = <<"handled", t>>
  PROVE  Hands(h)' = {q}
<1>1. ASSUME NEW p \in Places, Holds(p, h)'
      PROVE  p = q
  <2>1. CASE p[1] = "unsent"
    BY <1>1, <2>1 DEF Holds, Places
  <2>2. CASE p[1] = "running"
    BY <1>1, <2>2 DEF Holds, Places
  <2>3. CASE p[1] = "message"
    <3>1. p[2] \in Results /\ p = <<"message", p[2]>>
      BY <2>3 DEF Places
    <3> QED
      BY <1>1, <2>3, <3>1 DEF Holds
  <2>4. CASE p[1] = "posted"
    <3>1. p[2] \in Results /\ p = <<"posted", p[2]>>
      BY <2>4 DEF Places
    <3> QED
      BY <1>1, <2>4, <3>1 DEF Holds
  <2>5. CASE p[1] = "read"
    <3>1. p[2] \in IoThreads /\ p = <<"read", p[2]>>
      BY <2>5 DEF Places
    <3> QED
      BY <1>1, <2>5, <3>1 DEF Holds
  <2>6. CASE p[1] = "handled"
    <3>1. p[2] \in IoThreads /\ p = <<"handled", p[2]>>
      BY <2>6 DEF Places
    <3> QED
      BY <1>1, <2>6, <3>1 DEF Holds
  <2> QED
    BY <2>1, <2>2, <2>3, <2>4, <2>5, <2>6 DEF Places
<1>2. Hands(h)' = {p \in Places : Holds(p, h)'}
  BY DEF Hands, Places
<1> QED
  BY <1>1, <1>2

\* A transfer ends: from running it moves to the messages of curl.
LEMMA EndsOwned ==
  ASSUME TypeOK, OneOwner, NEW t \in IoThreads, NEW h \in Handles, h \in Running,
         NEW r \in Results, NEW keep, Serves(t, h), thread[t].pc = "curl",
         Ends(h, r, keep), UNCHANGED userVars
  PROVE  OneOwner'
<1> DEFINE p == <<"running", NoHandle>>
           q == <<"message", r>>
<1>1. p \in Hands(h)
  BY InHands
<1>2. /\ request[h] # "stored"
      /\ \A x \in Results : <<h, x>> \notin messages /\ <<h, x>> \notin posted
      /\ \A u \in IoThreads : ~ReadBy(u, h) /\ ~HandledBy(u, h)
  BY <1>1, Alone
<1>3. /\ phase' = [phase EXCEPT ![h] = "done"]
      /\ messages' = messages \cup {<<h, r>>}
      /\ posted' = posted /\ store' = store /\ request' = request
      /\ thread' = [thread EXCEPT ![t].due = @ \ {h}]
  BY DEF Ends, Serves, userVars
<1>4. \A u \in IoThreads : KeepsHold(u)
  BY <1>3 DEF KeepsHold, ReadBy, HandledBy, TypeOK, ThreadType, Calls
<1>5. \A k \in Handles \ {h} : (k \in Running)' <=> k \in Running
  BY <1>3 DEF Running, TypeOK, CurlType
<1>6. (h \notin Running)' /\ phase'[h] = "done"
  BY <1>3 DEF Running, Active, TypeOK, CurlType
<1>7. \A k \in Handles \ {h} : Hands(k)' = Hands(k)
  BY <1>3, <1>4, <1>5, HandsSame DEF KeepsHold
<1>8. q \in Places /\ Holds(q, h)'
  BY <1>3 DEF Places, Holds
<1>9. Hands(h)' = {q}
  BY <1>2, <1>3, <1>4, <1>6, <1>8, HandsOnly DEF KeepsHold
<1>10. h \in store
  BY <1>1 DEF OneOwner
<1>11. \A k \in Handles \ {h} : phase'[k] = phase[k]
  BY <1>3 DEF TypeOK, CurlType
<1> HIDE DEF p, q
<1>12. q[1] = "message"
  BY DEF q
<1> QED
  BY <1>3, <1>6, <1>7, <1>9, <1>10, <1>11, <1>12, OneMoves

\* A step of curl that does not end a transfer moves nothing.
LEMMA StaysOwned ==
  ASSUME TypeOK, OneOwner, NEW t \in IoThreads, NEW h \in Handles, Serves(t, h),
         phase[h] \in Active, phase' \in [Handles -> Phases],
         phase'[h] \in Active, \A k \in Handles \ {h} : phase'[k] = phase[k],
         messages' = messages, UNCHANGED userVars
  PROVE  OneOwner'
<1>1. \A u \in IoThreads : KeepsHold(u)
  BY DEF Serves, KeepsHold, ReadBy, HandledBy, TypeOK, ThreadType, Calls
<1>2. \A k \in Handles : /\ (k \in Running)' <=> k \in Running
                         /\ phase'[k] = "done" <=> phase[k] = "done"
  BY DEF Running, Active
<1> QED
  BY <1>1, <1>2, NothingMoves DEF Serves, userVars

\* The steps of curl keep the ownership.
LEMMA CurlStepOwned ==
  ASSUME TypeOK, Locked, OneOwner, NEW t \in IoThreads, CurlStep(t), UNCHANGED userVars
  PROVE  OneOwner'
<1> PICK h \in Handles :
    \/ Resolving(t, h) \/ CannotConnect(t, h) \/ Connected(t, h) \/ Sent(t, h)
    \/ Nothing(t, h) \/ ReadPortion(t, h) \/ ReadLast(t, h)
    \/ Broken(t, h) \/ BodyRefused(t, h) \/ TimedOut(t, h)
    \/ \E s \in Sockets : Connect(t, h, s) \/ Reuse(t, h, s)
  BY DEF CurlStep
<1>1. Serves(t, h)
  BY DEF Resolving, CannotConnect, Connected, Sent, Nothing, ReadPortion, ReadLast,
         Broken, BodyRefused, TimedOut, Connect, Reuse, InTime
<1>2. thread[t].pc = "curl" /\ h \in Running /\ phase[h] \in Active
  BY <1>1 DEF Serves, Locked, Running
<1>3. TypeOK'
  BY CurlStepType
<1>4. "ok" \in Results /\ "error" \in Results
  BY DEF Results
<1>5. CASE CannotConnect(t, h) \/ ReadLast(t, h) \/ Broken(t, h) \/ BodyRefused(t, h) \/ TimedOut(t, h)
  <2>1. \E r \in Results, keep \in BOOLEAN : Ends(h, r, keep)
    BY <1>4, <1>5 DEF CannotConnect, ReadLast, Broken, BodyRefused, TimedOut
  <2> QED
    BY <1>1, <1>2, <2>1, EndsOwned
<1>6. CASE Resolving(t, h) \/ Connected(t, h) \/ Sent(t, h) \/ Nothing(t, h)
           \/ ReadPortion(t, h) \/ \E s \in Sockets : Connect(t, h, s) \/ Reuse(t, h, s)
  <2>1. messages' = messages
    BY <1>6 DEF Resolving, Connected, Sent, Nothing, ReadPortion, Connect, Reuse
  <2>2. phase' = phase \/ \E x \in Active : phase' = [phase EXCEPT ![h] = x]
    BY <1>6 DEF Resolving, Connected, Sent, Nothing, ReadPortion, Connect, Reuse,
       StartsRequest, Active
  <2>3. phase \in [Handles -> Phases] /\ phase' \in [Handles -> Phases]
    BY <1>3 DEF TypeOK, CurlType
  <2>4. phase'[h] \in Active /\ \A k \in Handles \ {h} : phase'[k] = phase[k]
    BY <1>2, <2>2, <2>3
  <2> QED
    BY <1>1, <1>2, <2>1, <2>3, <2>4, StaysOwned
<1> QED
  BY <1>5, <1>6

\* A thread that goes from one step to another, neither of which holds a
\* request, moves nothing.
LEMMA ThreadOnly ==
  ASSUME TypeOK, OneOwner, NEW t \in IoThreads, NEW c,
         thread[t].pc \notin {"remove", "erase"}, c.pc \notin {"remove", "erase"},
         thread' = [thread EXCEPT ![t] = c],
         UNCHANGED <<phase, messages, posted, request, store>>
  PROVE  OneOwner'
<1>1. \A u \in IoThreads : KeepsHold(u)
  BY DEF KeepsHold, ReadBy, HandledBy, TypeOK, ThreadType
<1>2. \A h \in Handles : (h \in Running)' <=> h \in Running
  BY DEF Running
<1> QED
  BY <1>1, <1>2, NothingMoves

\* A step that leaves all places alone.
LEMMA PlacesUnchanged ==
  ASSUME OneOwner, UNCHANGED <<phase, messages, posted, thread, store>>,
         \A h \in Handles : request'[h] = "stored" <=> request[h] = "stored"
  PROVE  OneOwner'
<1>1. \A u \in IoThreads : KeepsHold(u)
  BY DEF KeepsHold, ReadBy, HandledBy
<1>2. \A h \in Handles : (h \in Running)' <=> h \in Running
  BY DEF Running
<1> QED
  BY <1>1, <1>2, NothingMoves

\* curl_multi_info_read moves a message to the thread that reads it.
LEMMA ReadInfoOwned ==
  ASSUME TypeOK, OneOwner, NEW t \in IoThreads, ReadInfo(t), UNCHANGED userVars
  PROVE  OneOwner'
<1>1. CASE thread' = [thread EXCEPT ![t] = AfterInfo(t)] /\ UNCHANGED messages
  <2>1. thread[t].pc \notin {"remove", "erase"}
    BY DEF ReadInfo
  <2>2. thread[t] \in Calls
    BY DEF TypeOK, ThreadType
  <2>3. AfterInfo(t).pc \notin {"remove", "erase"}
    BY <2>2 DEF AfterInfo, Idle, Calls
  <2> QED
    BY <1>1, <2>1, <2>3, ThreadOnly DEF ReadInfo, userVars
<1>2. ASSUME NEW m \in messages, messages' = messages \ {m},
             thread' = [thread EXCEPT ![t].pc = "remove", ![t].easy = m[1],
                                      ![t].result = m[2]]
      PROVE  OneOwner'
  <2> DEFINE h == m[1]
             r == m[2]
             q == <<"read", t>>
  <2>1. h \in Handles /\ r \in Results /\ m = <<h, r>>
    BY DEF TypeOK, CurlType
  <2>2. <<"message", r>> \in Hands(h)
    BY <2>1, InHands
  <2>3. /\ request[h] # "stored" /\ h \notin Running
        /\ \A x \in Results : <<h, x>> \notin posted /\ (<<h, x>> \in messages => x = r)
        /\ \A u \in IoThreads : ~ReadBy(u, h) /\ ~HandledBy(u, h)
    BY <2>1, <2>2, Alone
  <2>4. UNCHANGED <<phase, posted, request, store>> /\ thread[t].pc = "info"
    BY DEF ReadInfo, userVars
  <2>5. \A u \in IoThreads \ {t} : thread'[u] = thread[u]
    BY <1>2 DEF TypeOK, ThreadType
  <2>6. thread'[t].pc = "remove" /\ thread'[t].easy = h
    BY <1>2 DEF TypeOK, ThreadType, Calls
  <2> HIDE DEF h, r
  <2>7. \A k \in Handles \ {h} : \A u \in IoThreads :
          (ReadBy(u, k)' <=> ReadBy(u, k)) /\ (HandledBy(u, k)' <=> HandledBy(u, k))
    BY <2>4, <2>5, <2>6 DEF ReadBy, HandledBy
  <2>8. \A k \in Handles : (k \in Running)' <=> k \in Running
    BY <2>4 DEF Running
  <2>9. \A k \in Handles \ {h} : \A x \in Results : <<k, x>> \in messages' <=> <<k, x>> \in messages
    BY <1>2, <2>1
  <2>10. \A k \in Handles \ {h} : Hands(k)' = Hands(k)
    BY <2>4, <2>7, <2>8, <2>9, HandsSame
  <2>11. q \in Places /\ Holds(q, h)'
    BY <2>6 DEF Places, Holds, ReadBy
  <2>12. \A x \in Results : <<h, x>> \notin messages'
    BY <1>2, <2>1, <2>3
  <2>13. \A u \in IoThreads : (ReadBy(u, h)' => u = t) /\ ~HandledBy(u, h)'
    BY <2>3, <2>5, <2>6 DEF ReadBy, HandledBy
  <2>14. Hands(h)' = {q}
    BY <2>1, <2>3, <2>4, <2>8, <2>11, <2>12, <2>13, HandsOnly
  <2>15. h \in store /\ phase[h] = "done"
    BY <2>1, <2>2 DEF OneOwner
  <2>16. q[1] = "read"
    OBVIOUS
  <2> HIDE DEF q
  <2> QED
    BY <2>1, <2>4, <2>10, <2>14, <2>15, <2>16, OneMoves
<1> QED
  BY <1>1, <1>2 DEF ReadInfo

\* curl_multi_remove_handle and the post move it to the queue of results.
LEMMA RemoveHandleOwned ==
  ASSUME TypeOK, HasHandle, OneOwner, NEW t \in IoThreads, RemoveHandle(t),
         UNCHANGED userVars
  PROVE  OneOwner'
<1> PICK h \in Handles, r \in Results : h = thread[t].easy /\ r = thread[t].result
  BY DEF RemoveHandle, HasHandle, TypeOK, ThreadType, Calls
<1> DEFINE q == <<"posted", r>>
<1>1. h \in Handles /\ r \in Results
  OBVIOUS
<1>2. <<"read", t>> \in Hands(h)
  BY InHands DEF ReadBy, RemoveHandle
<1>3. /\ request[h] # "stored" /\ h \notin Running
      /\ \A x \in Results : <<h, x>> \notin posted /\ <<h, x>> \notin messages
      /\ \A u \in IoThreads : (ReadBy(u, h) => u = t) /\ ~HandledBy(u, h)
  BY <1>1, <1>2, Alone
<1>4. /\ phase' = [phase EXCEPT ![h] = "out"]
      /\ posted' = posted \cup {<<h, r>>}
      /\ UNCHANGED <<messages, request, store>>
  BY DEF RemoveHandle, RemovedFromMulti, userVars
<1>5. \A u \in IoThreads \ {t} : thread'[u] = thread[u]
  BY DEF RemoveHandle, TypeOK, ThreadType
<1>6. thread'[t].pc = "info" /\ thread[t].pc = "remove"
  BY DEF RemoveHandle, TypeOK, ThreadType, Calls
<1>7. \A k \in Handles \ {h} : \A u \in IoThreads :
        (ReadBy(u, k)' <=> ReadBy(u, k)) /\ (HandledBy(u, k)' <=> HandledBy(u, k))
  BY <1>5, <1>6 DEF ReadBy, HandledBy
<1>8. \A k \in Handles \ {h} : phase'[k] = phase[k] /\ ((k \in Running)' <=> k \in Running)
  BY <1>4 DEF Running, TypeOK, CurlType
<1>9. (h \notin Running)' /\ phase'[h] # "done"
  BY <1>1, <1>4 DEF Running, Active, TypeOK, CurlType
<1>10. \A k \in Handles \ {h} : Hands(k)' = Hands(k)
  BY <1>4, <1>7, <1>8, HandsSame
<1>11. q \in Places /\ Holds(q, h)'
  BY <1>1, <1>4 DEF Places, Holds
<1>12. \A u \in IoThreads : ~ReadBy(u, h)' /\ ~HandledBy(u, h)'
  BY <1>3, <1>5, <1>6 DEF ReadBy, HandledBy
<1>13. Hands(h)' = {q}
  BY <1>1, <1>3, <1>4, <1>9, <1>11, <1>12, HandsOnly
<1>14. h \in store
  BY <1>1, <1>2 DEF OneOwner
<1>15. q[1] = "posted"
  OBVIOUS
<1> HIDE DEF q
<1> QED
  BY <1>1, <1>4, <1>8, <1>9, <1>10, <1>13, <1>14, <1>15, OneMoves

\* handleResult takes it from the queue,
LEMMA HandleResultOwned ==
  ASSUME TypeOK, OneOwner, NEW t \in IoThreads, HandleResult(t)
  PROVE  OneOwner'
<1> PICK m \in posted :
      /\ posted' = posted \ {m}
      /\ thread' = [thread EXCEPT ![t].pc = "erase", ![t].easy = m[1]]
  BY DEF HandleResult
<1> DEFINE h == m[1]
           r == m[2]
           q == <<"handled", t>>
<1>1. h \in Handles /\ r \in Results /\ m = <<h, r>>
  BY DEF TypeOK, ThreadType
<1>2. <<"posted", r>> \in Hands(h)
  BY <1>1, InHands
<1>3. /\ request[h] # "stored" /\ h \notin Running
      /\ \A x \in Results : <<h, x>> \notin messages /\ (<<h, x>> \in posted => x = r)
      /\ \A u \in IoThreads : ~ReadBy(u, h) /\ ~HandledBy(u, h)
  BY <1>1, <1>2, Alone
<1>4. UNCHANGED <<phase, messages, request, store>> /\ thread[t].pc = "idle"
  BY DEF HandleResult, curlVars
<1>5. \A u \in IoThreads \ {t} : thread'[u] = thread[u]
  BY DEF TypeOK, ThreadType
<1>6. thread'[t].pc = "erase" /\ thread'[t].easy = h
  BY DEF TypeOK, ThreadType, Calls
<1>12. \A k \in Handles \ {h} : \A x \in Results : <<k, x>> \in posted' <=> <<k, x>> \in posted
  BY <1>1
<1>13. \A x \in Results : <<h, x>> \notin posted'
  BY <1>1, <1>3
<1> HIDE DEF h, r
<1>7. \A k \in Handles \ {h} : \A u \in IoThreads :
        (ReadBy(u, k)' <=> ReadBy(u, k)) /\ (HandledBy(u, k)' <=> HandledBy(u, k))
  BY <1>4, <1>5, <1>6 DEF ReadBy, HandledBy
<1>8. \A k \in Handles : (k \in Running)' <=> k \in Running
  BY <1>4 DEF Running
<1>9. \A k \in Handles \ {h} : Hands(k)' = Hands(k)
  BY <1>4, <1>7, <1>8, <1>12, HandsSame
<1>10. q \in Places /\ Holds(q, h)'
  BY <1>6 DEF Places, Holds, HandledBy
<1>11. \A u \in IoThreads : (HandledBy(u, h)' => u = t) /\ ~ReadBy(u, h)'
  BY <1>3, <1>5, <1>6 DEF ReadBy, HandledBy
<1>14. Hands(h)' = {q}
  BY <1>1, <1>3, <1>4, <1>8, <1>10, <1>11, <1>13, HandsOnly
<1>15. h \in store
  BY <1>1, <1>2 DEF OneOwner
<1>16. phase[h] # "done"
  <2>1. \A p \in Hands(h) : p[1] = "posted"
    BY <1>1, <1>2 DEF OneOwner
  <2> QED
    BY <1>1, <2>1 DEF OneOwner
<1>17. q[1] = "handled"
  OBVIOUS
<1> HIDE DEF q
<1> QED
  BY <1>1, <1>4, <1>9, <1>14, <1>15, <1>16, <1>17, OneMoves

\* and removeByID drops it with the item.
LEMMA EraseOwned ==
  ASSUME TypeOK, HasHandle, OneOwner, NEW t \in IoThreads, Erase(t)
  PROVE  OneOwner'
<1> PICK h \in Handles : h = thread[t].easy
  BY DEF Erase, HasHandle
<1>1. UNCHANGED <<phase, messages, posted, request>> /\ store' = store \ {h}
      /\ thread[t].pc = "erase" /\ thread' = [thread EXCEPT ![t] = Idle]
  BY DEF Erase, curlVars
<1>2. <<"handled", t>> \in Hands(h)
  BY <1>1, InHands DEF HandledBy
<1>3. /\ request[h] # "stored" /\ h \notin Running
      /\ \A x \in Results : <<h, x>> \notin messages /\ <<h, x>> \notin posted
      /\ \A u \in IoThreads : ~ReadBy(u, h) /\ (HandledBy(u, h) => u = t)
  BY <1>2, Alone
<1>4. \A u \in IoThreads \ {t} : thread'[u] = thread[u]
  BY <1>1 DEF TypeOK, ThreadType
<1>5. thread'[t].pc = "idle"
  BY <1>1 DEF TypeOK, ThreadType, Idle
<1>6. \A k \in Handles \ {h} : \A u \in IoThreads :
        (ReadBy(u, k)' <=> ReadBy(u, k)) /\ (HandledBy(u, k)' <=> HandledBy(u, k))
  BY <1>1, <1>4, <1>5 DEF ReadBy, HandledBy
<1>7. \A k \in Handles : (k \in Running)' <=> k \in Running
  BY <1>1 DEF Running
<1>8. \A k \in Handles \ {h} : Hands(k)' = Hands(k)
  BY <1>1, <1>6, <1>7, HandsSame
<1>9. \A u \in IoThreads : ~ReadBy(u, h)' /\ ~HandledBy(u, h)'
  BY <1>3, <1>4, <1>5 DEF ReadBy, HandledBy
<1>10. Hands(h)' = {}
  <2> SUFFICES ASSUME NEW p \in Places, Holds(p, h)' PROVE FALSE
    BY DEF Hands, Places
  <2> QED
    BY <1>1, <1>3, <1>7, <1>9 DEF Holds, Places
<1>11. phase[h] # "done"
  <2>1. \A p \in Hands(h) : p[1] = "handled"
    BY <1>2 DEF OneOwner
  <2> QED
    BY <2>1 DEF OneOwner
<1> QED
  BY <1>1, <1>8, <1>10, <1>11 DEF OneOwner

\* createRequestItem puts a request into the store before curl has it,
LEMMA StoreItemOwned ==
  ASSUME TypeOK, Unstored, OneOwner, NEW h \in Handles, StoreItem(h)
  PROVE  OneOwner'
<1> DEFINE q == <<"unsent", NoHandle>>
<1>1. /\ request[h] = "new" /\ request' = [request EXCEPT ![h] = "stored"]
      /\ store' = store \cup {h} /\ UNCHANGED <<phase, messages, posted, thread>>
  BY DEF StoreItem, multiVars, curlVars
<1>2. Hands(h) = {}
  BY <1>1 DEF Unstored, OneOwner
<1>3. /\ h \notin Running
      /\ \A x \in Results : <<h, x>> \notin messages /\ <<h, x>> \notin posted
      /\ \A u \in IoThreads : ~ReadBy(u, h) /\ ~HandledBy(u, h)
  BY <1>2, InHands
<1>4. \A k \in Handles, u \in IoThreads :
        (ReadBy(u, k)' <=> ReadBy(u, k)) /\ (HandledBy(u, k)' <=> HandledBy(u, k))
  BY <1>1 DEF ReadBy, HandledBy
<1>5. \A k \in Handles : (k \in Running)' <=> k \in Running
  BY <1>1 DEF Running
<1>6. \A k \in Handles \ {h} : request'[k] = request[k]
  BY <1>1 DEF TypeOK, UserType
<1>7. \A k \in Handles \ {h} : Hands(k)' = Hands(k)
  BY <1>1, <1>4, <1>5, <1>6, HandsSame
<1>8. q \in Places /\ Holds(q, h)'
  BY <1>1 DEF Places, Holds, TypeOK, UserType
<1>9. Hands(h)' = {q}
  BY <1>1, <1>3, <1>4, <1>5, <1>8, HandsOnly
<1>10. phase[h] # "done"
  BY <1>2 DEF OneOwner
<1>11. q[1] = "unsent"
  OBVIOUS
<1> HIDE DEF q
<1> QED
  BY <1>1, <1>7, <1>9, <1>10, <1>11, OneMoves

\* and addRequest gives it to curl.
LEMMA AddRequestOwned ==
  ASSUME TypeOK, OneOwner, NEW h \in Handles, AddRequest(h)
  PROVE  OneOwner'
<1> DEFINE q == <<"running", NoHandle>>
<1>1. /\ request[h] = "stored" /\ request' = [request EXCEPT ![h] = "sent"]
      /\ phase' = [phase EXCEPT ![h] = "new"]
      /\ UNCHANGED <<store, messages, posted, thread>>
  BY DEF AddRequest, AddHandle
<1>2. <<"unsent", NoHandle>> \in Hands(h)
  BY <1>1, InHands
<1>3. /\ \A x \in Results : <<h, x>> \notin messages /\ <<h, x>> \notin posted
      /\ \A u \in IoThreads : ~ReadBy(u, h) /\ ~HandledBy(u, h)
  BY <1>2, Alone
<1>4. \A k \in Handles, u \in IoThreads :
        (ReadBy(u, k)' <=> ReadBy(u, k)) /\ (HandledBy(u, k)' <=> HandledBy(u, k))
  BY <1>1 DEF ReadBy, HandledBy
<1>5. \A k \in Handles \ {h} : phase'[k] = phase[k] /\ ((k \in Running)' <=> k \in Running)
  BY <1>1 DEF Running, TypeOK, CurlType
<1>6. \A k \in Handles \ {h} : request'[k] = request[k]
  BY <1>1 DEF TypeOK, UserType
<1>7. \A k \in Handles \ {h} : Hands(k)' = Hands(k)
  BY <1>1, <1>4, <1>5, <1>6, HandsSame
<1>8. request'[h] # "stored" /\ phase'[h] = "new" /\ (h \in Running)'
  BY <1>1 DEF TypeOK, UserType, CurlType, Running, Active
<1>9. q \in Places /\ Holds(q, h)'
  BY <1>8 DEF Places, Holds
<1>10. Hands(h)' = {q}
  BY <1>1, <1>3, <1>4, <1>8, <1>9, HandsOnly
<1>11. h \in store
  BY <1>2 DEF OneOwner
<1>12. q[1] = "running"
  OBVIOUS
<1> HIDE DEF q
<1> QED
  BY <1>1, <1>5, <1>7, <1>8, <1>10, <1>11, <1>12, OneMoves

\* Every step keeps the ownership.
LEMMA NextOwned ==
  ASSUME IndInv, [Next]_vars
  PROVE  OneOwner'
<1> USE DEF IndInv
<1>1. ASSUME NEW h \in Handles, Reject(h) PROVE OneOwner'
  <2>1. \A k \in Handles : request'[k] = "stored" <=> request[k] = "stored"
    BY <1>1 DEF Reject, TypeOK, UserType
  <2> QED
    BY <1>1, <2>1, PlacesUnchanged DEF Reject, multiVars, curlVars
<1>2. ASSUME NEW t \in IoThreads, MultiStep(t), UNCHANGED userVars PROVE OneOwner'
  <2>1. UNCHANGED <<request, store>>
    BY <1>2 DEF userVars
  <2>2. ASSUME NEW call, NEW ready, SocketAction(t, call, ready), thread[t].pc = "idle"
        PROVE  OneOwner'
    <3>1. PICK due, late : thread' = [thread EXCEPT ![t] =
            [Idle EXCEPT !.pc = "curl", !.call = call, !.due = due, !.late = late]]
      BY <2>2 DEF SocketAction
    <3>2. [Idle EXCEPT !.pc = "curl", !.call = call, !.due = due, !.late = late].pc = "curl"
      BY DEF Idle
    <3>3. UNCHANGED <<phase, messages, posted>>
      BY <2>2 DEF SocketAction
    <3> QED
      BY <2>1, <2>2, <3>1, <3>2, <3>3, ThreadOnly
  <2>3. CASE TimerCb(t)
    BY <2>2, <2>3 DEF TimerCb
  <2>4. CASE \E s \in Sockets, d \in Directions : EventCb(t, s, d)
    BY <2>2, <2>4 DEF EventCb
  <2>5. CASE CurlStep(t)
    BY <1>2, <2>5, CurlStepOwned
  <2>6. CASE \E s \in Sockets : CloseBroken(t, s)
    BY <2>1, <2>6, PlacesUnchanged DEF CloseBroken, curlVars
  <2>7. CASE SocketActionReturns(t)
    <3> DEFINE c == [thread[t] EXCEPT !.pc = "count", !.late = {},
                                      !.left = Cardinality(Running)]
    <3>1. c.pc = "count"
      BY DEF TypeOK, ThreadType, Calls
    <3>2. thread' = [thread EXCEPT ![t] = c] /\ thread[t].pc = "curl"
      BY <2>7 DEF SocketActionReturns
    <3> HIDE DEF c
    <3> QED
      BY <2>1, <2>7, <3>1, <3>2, ThreadOnly DEF SocketActionReturns, curlVars
  <2>8. CASE Count(t)
    <3> DEFINE c == [thread[t] EXCEPT !.pc = "info"]
    <3>1. c.pc = "info"
      BY DEF TypeOK, ThreadType, Calls
    <3>2. thread' = [thread EXCEPT ![t] = c] /\ thread[t].pc = "count"
      BY <2>8 DEF Count
    <3> HIDE DEF c
    <3> QED
      BY <2>1, <2>8, <3>1, <3>2, ThreadOnly DEF Count, curlVars
  <2>9. CASE ReadInfo(t)
    BY <1>2, <2>9, ReadInfoOwned
  <2>10. CASE RemoveHandle(t)
    BY <1>2, <2>10, RemoveHandleOwned
  <2>11. CASE KillTimer(t)
    BY <2>1, <2>11, ThreadOnly DEF KillTimer, curlVars, Idle
  <2> QED
    BY <1>2, <2>3, <2>4, <2>5, <2>6, <2>7, <2>8, <2>9, <2>10, <2>11 DEF MultiStep
<1>3. CASE Asio /\ UNCHANGED userVars
  BY <1>3, PlacesUnchanged DEF Asio, TimerExpires, WaitCompletes, curlVars, userVars
<1>4. CASE Network /\ UNCHANGED userVars
  BY <1>4, PlacesUnchanged DEF Network, curlVars, userVars
<1>5. CASE UNCHANGED vars
  BY <1>5, PlacesUnchanged DEF vars, multiVars, curlVars, userVars
<1> QED
  BY <1>1, <1>2, <1>3, <1>4, <1>5, StoreItemOwned, AddRequestOwned, HandleResultOwned,
     EraseOwned DEF Next, IoStep

----------------------------------------------------------------------------
(* The parts of the inductive invariant that support the ownership.        *)

\* Every step keeps HasHandle.
LEMMA NextHasHandle ==
  ASSUME TypeOK, HasHandle, [Next]_vars
  PROVE  HasHandle'
<1>1. ASSUME NEW t \in IoThreads, NEW c, thread' = [thread EXCEPT ![t] = c],
             c.pc \in {"remove", "erase"} => c.easy \in Handles
      PROVE  HasHandle'
  BY <1>1 DEF HasHandle, TypeOK, ThreadType
<1>2. CASE UNCHANGED thread
  BY <1>2 DEF HasHandle
<1>3. ASSUME NEW t \in IoThreads, MultiStep(t) PROVE HasHandle'
  <2>c. thread[t] \in Calls
    BY DEF TypeOK, ThreadType
  <2>1. ASSUME NEW call, NEW ready, SocketAction(t, call, ready) PROVE HasHandle'
    <3>1. PICK due, late : thread' = [thread EXCEPT ![t] =
            [Idle EXCEPT !.pc = "curl", !.call = call, !.due = due, !.late = late]]
      BY <2>1 DEF SocketAction
    <3>2. [Idle EXCEPT !.pc = "curl", !.call = call, !.due = due, !.late = late].pc = "curl"
      BY DEF Idle
    <3> QED
      BY <1>1, <3>1, <3>2
  <2>2. CASE TimerCb(t) \/ \E s \in Sockets, d \in Directions : EventCb(t, s, d)
    BY <2>1, <2>2 DEF TimerCb, EventCb
  <2>3. CASE CurlStep(t)
    <3>1. PICK h \in Handles : Serves(t, h)
      BY <2>3 DEF CurlStep, Resolving, CannotConnect, Connected, Sent, Nothing, ReadPortion,
         ReadLast, Broken, BodyRefused, TimedOut, Connect, Reuse, InTime
    <3> DEFINE c == [thread[t] EXCEPT !.due = @ \ {h}]
    <3>2. thread' = [thread EXCEPT ![t] = c] /\ c.pc = "curl"
      BY <2>c, <3>1 DEF Serves, Calls
    <3> HIDE DEF c
    <3> QED
      BY <1>1, <3>2
  <2>4. CASE \E s \in Sockets : CloseBroken(t, s)
    BY <1>2, <2>4 DEF CloseBroken
  <2>5. CASE SocketActionReturns(t)
    <3> DEFINE c == [thread[t] EXCEPT !.pc = "count", !.late = {},
                                      !.left = Cardinality(Running)]
    <3>1. thread' = [thread EXCEPT ![t] = c] /\ c.pc = "count"
      BY <2>c, <2>5 DEF SocketActionReturns, Calls
    <3> HIDE DEF c
    <3> QED
      BY <1>1, <3>1
  <2>6. CASE Count(t)
    <3> DEFINE c == [thread[t] EXCEPT !.pc = "info"]
    <3>1. thread' = [thread EXCEPT ![t] = c] /\ c.pc = "info"
      BY <2>c, <2>6 DEF Count, Calls
    <3> HIDE DEF c
    <3> QED
      BY <1>1, <3>1
  <2>7. CASE ReadInfo(t)
    <3>1. AfterInfo(t).pc \in {"idle", "kill"}
      BY <2>c DEF AfterInfo, Idle, Calls
    <3>2. ASSUME NEW m \in messages,
                 thread' = [thread EXCEPT ![t].pc = "remove", ![t].easy = m[1],
                                          ![t].result = m[2]]
          PROVE  HasHandle'
      <4> DEFINE c == [thread[t] EXCEPT !.pc = "remove", !.easy = m[1], !.result = m[2]]
      <4>1. m[1] \in Handles
        BY DEF TypeOK, CurlType
      <4>2. thread' = [thread EXCEPT ![t] = c] /\ c.easy = m[1]
        BY <2>c, <3>2 DEF Calls
      <4> HIDE DEF c
      <4> QED
        BY <1>1, <4>1, <4>2
    <3> QED
      BY <1>1, <2>7, <3>1, <3>2 DEF ReadInfo
  <2>8. CASE RemoveHandle(t)
    <3> DEFINE c == [thread[t] EXCEPT !.pc = "info", !.easy = NoHandle, !.result = "ok"]
    <3>1. thread' = [thread EXCEPT ![t] = c] /\ c.pc = "info"
      BY <2>c, <2>8 DEF RemoveHandle, Calls
    <3> HIDE DEF c
    <3> QED
      BY <1>1, <3>1
  <2>9. CASE KillTimer(t)
    BY <1>1, <2>9 DEF KillTimer, Idle
  <2> QED
    BY <1>3, <2>2, <2>3, <2>4, <2>5, <2>6, <2>7, <2>8, <2>9 DEF MultiStep
<1>4. ASSUME NEW t \in IoThreads, HandleResult(t) PROVE HasHandle'
  <2> PICK m \in posted : thread' = [thread EXCEPT ![t].pc = "erase", ![t].easy = m[1]]
    BY <1>4 DEF HandleResult
  <2> DEFINE c == [thread[t] EXCEPT !.pc = "erase", !.easy = m[1]]
  <2>1. m[1] \in Handles /\ thread[t] \in Calls
    BY DEF TypeOK, ThreadType
  <2>2. thread' = [thread EXCEPT ![t] = c] /\ c.easy = m[1]
    BY <2>1 DEF Calls
  <2> HIDE DEF c
  <2> QED
    BY <1>1, <2>1, <2>2
<1>5. ASSUME NEW t \in IoThreads, Erase(t) PROVE HasHandle'
  BY <1>1, <1>5 DEF Erase, Idle
<1>6. ASSUME NEW h \in Handles, Reject(h) \/ StoreItem(h) \/ AddRequest(h) PROVE HasHandle'
  BY <1>2, <1>6 DEF Reject, StoreItem, AddRequest, AddHandle, multiVars
<1>7. CASE Asio \/ Network \/ UNCHANGED vars
  BY <1>2, <1>7 DEF Asio, TimerExpires, WaitCompletes, Network, vars, multiVars
<1> QED
  BY <1>3, <1>4, <1>5, <1>6, <1>7 DEF Next, IoStep

\* Every step keeps Unstored.
LEMMA NextUnstored ==
  ASSUME TypeOK, Unstored, [Next]_vars
  PROVE  Unstored'
<1>1. ASSUME NEW h \in Handles, Reject(h) \/ StoreItem(h) \/ AddRequest(h) PROVE Unstored'
  BY <1>1 DEF Reject, StoreItem, AddRequest, Unstored, TypeOK, UserType
<1>2. ASSUME NEW t \in IoThreads, HandleResult(t) \/ Erase(t) PROVE Unstored'
  BY <1>2 DEF HandleResult, Erase, Unstored
<1>3. CASE UNCHANGED userVars
  BY <1>3 DEF userVars, Unstored
<1> QED
  BY <1>1, <1>2, <1>3 DEF Next, IoStep, vars

\* A step outside curl, by a thread that stays outside, keeps Locked.
LEMMA OutsideLocked ==
  ASSUME TypeOK, Locked, NEW t \in IoThreads, NEW c, c.pc # "curl",
         thread' = [thread EXCEPT ![t] = c], phase' = phase, holder' = holder
  PROVE  Locked'
BY DEF Locked, Running, TypeOK, ThreadType

\* While nobody holds _multi_mutex, nobody is inside curl.
LEMMA FreeLocked ==
  ASSUME TypeOK, Locked, holder = NoHandle
  PROVE  \A t \in IoThreads : thread[t].pc # "curl"
BY NoHandleAssumption DEF Locked

\* Every step keeps Locked.
LEMMA NextLocked ==
  ASSUME TypeOK, Locked, [Next]_vars
  PROVE  Locked'
<1>1. CASE UNCHANGED <<thread, phase, holder>>
  BY <1>1 DEF Locked, Running
<1>2. ASSUME NEW t \in IoThreads, MultiStep(t) PROVE Locked'
  <2>c. thread[t] \in Calls
    BY DEF TypeOK, ThreadType
  <2>1. ASSUME NEW call, NEW ready \in SUBSET Running, SocketAction(t, call, ready),
               holder = NoHandle
        PROVE  Locked'
    <3>1. PICK expired \in SUBSET Timed, late \in SUBSET Handles : thread' = [thread EXCEPT ![t] =
            [Idle EXCEPT !.pc = "curl", !.call = call,
                         !.due = ready \cup New \cup expired, !.late = late]]
      BY <2>1 DEF SocketAction, Timed, Running
    <3>2. [Idle EXCEPT !.pc = "curl", !.call = call,
             !.due = ready \cup New \cup expired, !.late = late].due = ready \cup New \cup expired
      BY DEF Idle
    <3>3. ready \cup New \cup expired \subseteq Running
      BY <2>1 DEF Timed, New, Running, Active
    <3>4. holder' = t /\ phase' = phase
      BY <2>1 DEF SocketAction
    <3>5. thread'[t].due \subseteq Running
      BY <3>1, <3>2, <3>3 DEF TypeOK, ThreadType
    <3>6. \A u \in IoThreads \ {t} : thread'[u].pc # "curl"
      BY <2>1, <3>1, FreeLocked DEF TypeOK, ThreadType
    <3> QED
      BY <3>4, <3>5, <3>6 DEF Locked, Running
  <2>2. CASE TimerCb(t)
    BY <2>1, <2>2 DEF TimerCb
  <2>3. CASE \E s \in Sockets, d \in Directions : EventCb(t, s, d)
    <3>1. PICK s \in Sockets, d \in Directions : EventCb(t, s, d)
      BY <2>3
    <3>2. Using(s) \in SUBSET Running
      BY DEF Using
    <3> QED
      BY <2>1, <3>1, <3>2 DEF EventCb
  <2>4. CASE CurlStep(t)
    <3>1. PICK h \in Handles :
        /\ Serves(t, h)
        /\ phase' = phase \/ \E x \in Phases : phase' = [phase EXCEPT ![h] = x]
      BY <2>4 DEF CurlStep, Resolving, CannotConnect, Connected, Sent, Nothing, ReadPortion,
         ReadLast, Broken, BodyRefused, TimedOut, Connect, Reuse, InTime, Ends, StartsRequest, Phases
    <3>2. thread[t].pc = "curl" /\ holder = t /\ holder' = t
      BY <3>1 DEF Serves, Locked
    <3>3. thread'[t].due = thread[t].due \ {h}
          /\ \A u \in IoThreads \ {t} : thread'[u] = thread[u]
      BY <2>c, <3>1 DEF Serves, TypeOK, ThreadType, Calls
    <3>4. \A k \in Handles \ {h} : phase'[k] = phase[k]
      BY <3>1 DEF TypeOK, CurlType
    <3>5. thread[t].due \subseteq Running
      BY <3>2 DEF Locked
    <3>6. (thread[t].due \subseteq Running)'
      BY <3>3, <3>4, <3>5 DEF Running
    <3>7. \A u \in IoThreads \ {t} : thread'[u].pc # "curl"
      BY <3>2, <3>3 DEF Locked
    <3> QED
      BY <3>2, <3>6, <3>7 DEF Locked
  <2>5. CASE \E s \in Sockets : CloseBroken(t, s)
    BY <1>1, <2>5 DEF CloseBroken, curlVars
  <2>6. CASE SocketActionReturns(t)
    <3>1. thread[t].pc = "curl" /\ holder = t
      BY <2>6 DEF SocketActionReturns, Locked
    <3>2. thread'[t].pc = "count" /\ \A u \in IoThreads \ {t} : thread'[u] = thread[u]
      BY <2>c, <2>6 DEF SocketActionReturns, TypeOK, ThreadType, Calls
    <3>3. \A u \in IoThreads : thread'[u].pc # "curl"
      BY <3>1, <3>2 DEF Locked
    <3> QED
      BY <3>3 DEF Locked
  <2>7. CASE Count(t)
    <3> DEFINE c == [thread[t] EXCEPT !.pc = "info"]
    <3>1. thread' = [thread EXCEPT ![t] = c] /\ c.pc = "info"
      BY <2>c, <2>7 DEF Count, Calls
    <3> HIDE DEF c
    <3> QED
      BY <2>7, <3>1, OutsideLocked DEF Count, curlVars
  <2>8. CASE ReadInfo(t)
    <3>1. AfterInfo(t).pc # "curl"
      BY <2>c DEF AfterInfo, Idle, Calls
    <3>2. ASSUME NEW m, thread' = [thread EXCEPT ![t].pc = "remove", ![t].easy = m[1],
                                          ![t].result = m[2]]
          PROVE  Locked'
      <4> DEFINE c == [thread[t] EXCEPT !.pc = "remove", !.easy = m[1], !.result = m[2]]
      <4>1. thread' = [thread EXCEPT ![t] = c] /\ c.pc = "remove"
        BY <2>c, <3>2 DEF Calls
      <4> HIDE DEF c
      <4> QED
        BY <2>8, <4>1, OutsideLocked DEF ReadInfo
    <3> QED
      BY <2>8, <3>1, <3>2, OutsideLocked DEF ReadInfo
  <2>9. CASE RemoveHandle(t)
    <3>1. thread'[t].pc = "info" /\ \A u \in IoThreads \ {t} : thread'[u] = thread[u]
      BY <2>c, <2>9 DEF RemoveHandle, TypeOK, ThreadType, Calls
    <3>2. \A u \in IoThreads : thread'[u].pc # "curl"
      BY <2>9, <3>1, FreeLocked DEF RemoveHandle
    <3> QED
      BY <3>2 DEF Locked
  <2>10. CASE KillTimer(t)
    BY <2>10, OutsideLocked DEF KillTimer, Idle, curlVars
  <2> QED
    BY <1>2, <2>2, <2>3, <2>4, <2>5, <2>6, <2>7, <2>8, <2>9, <2>10 DEF MultiStep
<1>3. ASSUME NEW t \in IoThreads, HandleResult(t) PROVE Locked'
  <2> PICK m \in posted : thread' = [thread EXCEPT ![t].pc = "erase", ![t].easy = m[1]]
    BY <1>3 DEF HandleResult
  <2> DEFINE c == [thread[t] EXCEPT !.pc = "erase", !.easy = m[1]]
  <2>1. thread' = [thread EXCEPT ![t] = c] /\ c.pc = "erase"
    BY DEF TypeOK, ThreadType, Calls
  <2> HIDE DEF c
  <2> QED
    BY <1>3, <2>1, OutsideLocked DEF HandleResult, curlVars
<1>4. ASSUME NEW t \in IoThreads, Erase(t) PROVE Locked'
  BY <1>4, OutsideLocked DEF Erase, Idle, curlVars
<1>5. ASSUME NEW h \in Handles, Reject(h) \/ StoreItem(h) PROVE Locked'
  BY <1>1, <1>5 DEF Reject, StoreItem, multiVars, curlVars
<1>6. ASSUME NEW h \in Handles, AddRequest(h) PROVE Locked'
  BY <1>6, FreeLocked DEF AddRequest, AddHandle, Locked
<1>7. CASE Asio \/ Network \/ UNCHANGED vars
  BY <1>1, <1>7 DEF Asio, TimerExpires, WaitCompletes, Network, vars, multiVars, curlVars
<1> QED
  BY <1>2, <1>3, <1>4, <1>5, <1>6, <1>7 DEF Next, IoStep

----------------------------------------------------------------------------
(* The theorems.                                                           *)

\* The initial state satisfies the inductive invariant.
LEMMA InitInd == Init => IndInv
<1> SUFFICES ASSUME Init PROVE IndInv
  OBVIOUS
<1>1. TypeOK
  BY InitType
<1>2. \A t \in IoThreads : thread[t].pc = "idle"
  BY DEF Init, MultiInit, Idle
<1>3. Locked /\ HasHandle
  BY <1>2 DEF Locked, HasHandle
<1>4. Unstored
  BY DEF Init, Unstored
<1>5. \A h \in Handles : Hands(h) = {}
  <2> SUFFICES ASSUME NEW h \in Handles, NEW p \in Places, Holds(p, h) PROVE FALSE
    BY DEF Hands
  <2>1. h \notin Running
    BY DEF Init, MultiInit, Running, Active
  <2>2. \A t \in IoThreads : ~ReadBy(t, h) /\ ~HandledBy(t, h)
    BY <1>2 DEF ReadBy, HandledBy
  <2> QED
    BY <2>1, <2>2 DEF Holds, Places, Init, MultiInit
<1>6. OneOwner
  BY <1>5 DEF OneOwner, Init, MultiInit
<1> QED
  BY <1>1, <1>3, <1>4, <1>6 DEF IndInv

\* Every step keeps the inductive invariant.
LEMMA NextInd ==
  ASSUME IndInv, [Next]_vars
  PROVE  IndInv'
BY NextType, NextLocked, NextHasHandle, NextUnstored, NextOwned DEF IndInv

\* The inductive invariant holds throughout.
LEMMA Inductive == Spec => []IndInv
<1>1. IndInv /\ [Next]_vars => IndInv'
  BY NextInd
<1> QED
  BY <1>1, InitInd, PTL DEF Spec

\* The variables of the HTTP connection, of curl's multi handle and of the
\* io_service keep their types: no counter of waits or of queued handlers
\* falls below 0, and only handles of requests reach handleResult.
THEOREM TypeCorrect == Spec => []TypeOK
<1>1. IndInv => TypeOK
  BY DEF IndInv
<1> QED
  BY <1>1, Inductive, PTL

\* However many io threads run timer_cb, event_cb and handleResult while users
\* send requests, every easy handle that curl, a thread or a posted result
\* uses belongs to an item of the message store, and every stored item is in
\* exactly one of their hands.
THEOREM StoreOwnsHandles == Spec => []OneOwner
<1>1. IndInv => OneOwner
  BY DEF IndInv
<1> QED
  BY <1>1, Inductive, PTL

----------------------------------------------------------------------------
(* HttpConnection implements Connection: every step of users, io threads,  *)
(* curl and the network is an Accept, an Answer, or nothing that a user of *)
(* the connection can see.                                                 *)


\* A request that is not yet sent, or whose callback is still to be called,
\* has no answer.
Fresh == \A h \in Handles : request[h] # "sent" \/ h \in Pending => answer[h] = "none"

\* A step that changes neither the store nor what is handled.
LEMMA PendingSame ==
  ASSUME store' = store,
         \A h \in Handles, t \in IoThreads : HandledBy(t, h)' <=> HandledBy(t, h),
         store \subseteq Handles
  PROVE  Pending' = Pending
BY DEF Pending

\* Steps of curl and of asio do not touch handleResult.
LEMMA MultiStepElsewhere ==
  ASSUME TypeOK, NEW t \in IoThreads, MultiStep(t)
  PROVE  \A h \in Handles, u \in IoThreads : HandledBy(u, h)' <=> HandledBy(u, h)
<1>c. thread[t] \in Calls
  BY DEF TypeOK, ThreadType
<1>1. ASSUME NEW c, thread' = [thread EXCEPT ![t] = c], c.pc # "erase",
             thread[t].pc # "erase"
      PROVE  \A h \in Handles, u \in IoThreads : HandledBy(u, h)' <=> HandledBy(u, h)
  BY <1>1 DEF HandledBy, TypeOK, ThreadType
<1>2. ASSUME NEW call, NEW ready, SocketAction(t, call, ready), thread[t].pc = "idle"
      PROVE  \A h \in Handles, u \in IoThreads : HandledBy(u, h)' <=> HandledBy(u, h)
  <2>1. PICK due, late : thread' = [thread EXCEPT ![t] =
          [Idle EXCEPT !.pc = "curl", !.call = call, !.due = due, !.late = late]]
    BY <1>2 DEF SocketAction
  <2>2. [Idle EXCEPT !.pc = "curl", !.call = call, !.due = due, !.late = late].pc = "curl"
    BY DEF Idle
  <2> QED
    BY <1>1, <1>2, <2>1, <2>2
<1>3. CASE TimerCb(t) \/ \E s \in Sockets, d \in Directions : EventCb(t, s, d)
  BY <1>2, <1>3 DEF TimerCb, EventCb
<1>4. CASE CurlStep(t)
  <2>1. PICK h \in Handles : Serves(t, h)
    BY <1>4 DEF CurlStep, Resolving, CannotConnect, Connected, Sent, Nothing, ReadPortion,
       ReadLast, Broken, BodyRefused, TimedOut, Connect, Reuse, InTime
  <2> DEFINE c == [thread[t] EXCEPT !.due = @ \ {h}]
  <2>2. thread' = [thread EXCEPT ![t] = c] /\ c.pc = "curl" /\ thread[t].pc = "curl"
    BY <1>c, <2>1 DEF Serves, Calls
  <2> HIDE DEF c
  <2> QED
    BY <1>1, <2>2
<1>5. CASE \E s \in Sockets : CloseBroken(t, s)
  BY <1>5 DEF CloseBroken, HandledBy
<1>6. CASE SocketActionReturns(t)
  <2> DEFINE c == [thread[t] EXCEPT !.pc = "count", !.late = {},
                                    !.left = Cardinality(Running)]
  <2>1. thread' = [thread EXCEPT ![t] = c] /\ c.pc = "count" /\ thread[t].pc = "curl"
    BY <1>c, <1>6 DEF SocketActionReturns, Calls
  <2> HIDE DEF c
  <2> QED
    BY <1>1, <2>1
<1>7. CASE Count(t)
  <2> DEFINE c == [thread[t] EXCEPT !.pc = "info"]
  <2>1. thread' = [thread EXCEPT ![t] = c] /\ c.pc = "info" /\ thread[t].pc = "count"
    BY <1>c, <1>7 DEF Count, Calls
  <2> HIDE DEF c
  <2> QED
    BY <1>1, <2>1
<1>8. CASE ReadInfo(t)
  <2>1. AfterInfo(t).pc \in {"idle", "kill"} /\ thread[t].pc = "info"
    BY <1>c, <1>8 DEF AfterInfo, Idle, Calls, ReadInfo
  <2>2. ASSUME NEW m \in messages,
               thread' = [thread EXCEPT ![t].pc = "remove", ![t].easy = m[1],
                                        ![t].result = m[2]]
        PROVE  \A h \in Handles, u \in IoThreads : HandledBy(u, h)' <=> HandledBy(u, h)
    <3> DEFINE c == [thread[t] EXCEPT !.pc = "remove", !.easy = m[1], !.result = m[2]]
    <3>1. thread' = [thread EXCEPT ![t] = c] /\ c.pc = "remove"
      BY <1>c, <2>2 DEF Calls
    <3> HIDE DEF c
    <3> QED
      BY <1>1, <2>1, <3>1
  <2> QED
    BY <1>1, <1>8, <2>1, <2>2 DEF ReadInfo
<1>9. CASE RemoveHandle(t)
  <2> DEFINE c == [thread[t] EXCEPT !.pc = "info", !.easy = NoHandle, !.result = "ok"]
  <2>1. thread' = [thread EXCEPT ![t] = c] /\ c.pc = "info" /\ thread[t].pc = "remove"
    BY <1>c, <1>9 DEF RemoveHandle, Calls
  <2> HIDE DEF c
  <2> QED
    BY <1>1, <2>1
<1>10. CASE KillTimer(t)
  <2>1. Idle.pc # "erase" /\ thread[t].pc # "erase"
    BY <1>10 DEF Idle, KillTimer
  <2> QED
    BY <1>1, <1>10, <2>1 DEF KillTimer
<1> QED
  BY <1>3, <1>4, <1>5, <1>6, <1>7, <1>8, <1>9, <1>10 DEF MultiStep

\* A step that a user of the connection cannot see.
Unseen == Pending' = Pending /\ answer' = answer

\* Everything but createRequestItem and handleResult is unseen.
LEMMA StepsUnseen ==
  ASSUME TypeOK,
         \/ \E t \in IoThreads : MultiStep(t) /\ UNCHANGED userVars
         \/ \E h \in Handles : Reject(h) \/ AddRequest(h)
         \/ Asio /\ UNCHANGED userVars
         \/ Network /\ UNCHANGED userVars
         \/ UNCHANGED vars
  PROVE  Unseen
<1>0. store \subseteq Handles
  BY DEF TypeOK, UserType
<1>1. ASSUME NEW t \in IoThreads, MultiStep(t), UNCHANGED userVars
      PROVE  Unseen
  BY <1>0, <1>1, MultiStepElsewhere, PendingSame DEF userVars, Unseen
<1>2. CASE UNCHANGED <<thread, store, answer>>
  BY <1>0, <1>2, PendingSame DEF HandledBy, Unseen
<1>3. ASSUME NEW h \in Handles, Reject(h) \/ AddRequest(h)
      PROVE  UNCHANGED <<thread, store, answer>>
  BY <1>3 DEF Reject, AddRequest, AddHandle, multiVars
<1>4. (Asio \/ Network) /\ UNCHANGED userVars => UNCHANGED <<thread, store, answer>>
  BY DEF Asio, TimerExpires, WaitCompletes, Network, userVars
<1>5. UNCHANGED vars => UNCHANGED <<thread, store, answer>>
  BY DEF vars, userVars, multiVars
<1> QED
  BY <1>1, <1>2, <1>3, <1>4, <1>5

\* createRequestItem accepts a request.
LEMMA StoreItemAccepts ==
  ASSUME IndInv, Fresh, NEW h \in Handles, StoreItem(h)
  PROVE  /\ h \notin Pending /\ answer[h] = "none"
         /\ Pending' = Pending \cup {h} /\ answer' = answer
<1>1. request[h] = "new" /\ store' = store \cup {h} /\ UNCHANGED <<thread, answer>>
  BY DEF StoreItem, multiVars
<1>2. h \notin store /\ Hands(h) = {}
  BY <1>1 DEF IndInv, Unstored, OneOwner
<1>3. \A t \in IoThreads : ~HandledBy(t, h)
  BY <1>2, InHands
<1>4. \A k \in Handles, t \in IoThreads : HandledBy(t, k)' <=> HandledBy(t, k)
  BY <1>1 DEF HandledBy
<1>5. store \subseteq Handles
  BY DEF IndInv, TypeOK, UserType
<1>6. Pending' = Pending \cup {h}
  BY <1>1, <1>3, <1>4, <1>5 DEF Pending
<1> QED
  BY <1>1, <1>2, <1>6 DEF Pending, Fresh

\* handleResult answers one request that waits for its answer.
LEMMA HandleResultAnswers ==
  ASSUME IndInv, Fresh, NEW t \in IoThreads, HandleResult(t)
  PROVE  \E h \in Pending, r \in Results :
           /\ request[h] = "sent"
           /\ Pending' = Pending \ {h}
           /\ answer' = [k \in Handles |-> IF k = h THEN r ELSE answer[k]]
<1> PICK m \in posted :
      /\ posted' = posted \ {m}
      /\ thread' = [thread EXCEPT ![t].pc = "erase", ![t].easy = m[1]]
      /\ answer' = [answer EXCEPT ![m[1]] = IF @ = "none" THEN m[2] ELSE @]
  BY DEF HandleResult
<1> DEFINE h == m[1]
           r == m[2]
<1>1. h \in Handles /\ r \in Results /\ m = <<h, r>>
  BY DEF IndInv, TypeOK, ThreadType
<1>2. <<"posted", r>> \in Hands(h)
  BY <1>1, InHands
<1>3. request[h] # "stored" /\ \A u \in IoThreads : ~HandledBy(u, h)
  BY <1>1, <1>2, Alone DEF IndInv
<1>4. h \in store
  BY <1>1, <1>2 DEF IndInv, OneOwner
<1>5. h \in Pending
  BY <1>3, <1>4 DEF Pending
<1>6. answer[h] = "none"
  BY <1>1, <1>5 DEF Fresh
<1>7. request[h] = "sent"
  BY <1>1, <1>3, <1>4 DEF IndInv, Unstored, TypeOK, UserType, Requests
<1>8. answer' = [k \in Handles |-> IF k = h THEN r ELSE answer[k]]
  BY <1>1, <1>6 DEF IndInv, TypeOK, UserType
<1>9. thread[t].pc = "idle" /\ store' = store
  BY DEF HandleResult
<1>10. /\ thread'[t].pc = "erase" /\ thread'[t].easy = h
       /\ \A u \in IoThreads \ {t} : thread'[u] = thread[u]
  BY DEF IndInv, TypeOK, ThreadType, Calls
<1> HIDE DEF h, r
<1>11. \A k \in Handles \ {h}, u \in IoThreads : HandledBy(u, k)' <=> HandledBy(u, k)
  BY <1>9, <1>10 DEF HandledBy
<1>12. HandledBy(t, h)'
  BY <1>10 DEF HandledBy
<1>13. store \subseteq Handles
  BY DEF IndInv, TypeOK, UserType
<1>14. Pending' = Pending \ {h}
  BY <1>9, <1>11, <1>12, <1>13 DEF Pending
<1> QED
  BY <1>1, <1>5, <1>7, <1>8, <1>14

\* removeByID takes away what was answered.
LEMMA EraseUnseen ==
  ASSUME IndInv, NEW t \in IoThreads, Erase(t)
  PROVE  Unseen
<1> PICK h \in Handles : h = thread[t].easy
  BY DEF Erase, IndInv, HasHandle
<1>1. /\ store' = store \ {h} /\ answer' = answer
      /\ thread[t].pc = "erase" /\ thread' = [thread EXCEPT ![t] = Idle]
  BY DEF Erase
<1>2. HandledBy(t, h)
  BY <1>1 DEF HandledBy
<1>3. thread'[t].pc = "idle" /\ \A u \in IoThreads \ {t} : thread'[u] = thread[u]
  BY <1>1 DEF IndInv, TypeOK, ThreadType, Idle
<1>4. \A k \in Handles \ {h}, u \in IoThreads : HandledBy(u, k)' <=> HandledBy(u, k)
  BY <1>1, <1>3 DEF HandledBy
<1>5. store \subseteq Handles
  BY DEF IndInv, TypeOK, UserType
<1>6. Pending' = Pending
  BY <1>1, <1>2, <1>4, <1>5 DEF Pending
<1> QED
  BY <1>1, <1>6 DEF Unseen

\* Every step keeps Fresh.
LEMMA NextFresh ==
  ASSUME IndInv, Fresh, [Next]_vars
  PROVE  Fresh'
<1>1. ASSUME Unseen, \A h \in Handles : request'[h] # "sent" => request[h] # "sent"
      PROVE  Fresh'
  BY <1>1 DEF Fresh, Unseen
<1>2. ASSUME NEW h \in Handles, StoreItem(h) PROVE Fresh'
  <2>1. request' = [request EXCEPT ![h] = "stored"] /\ request[h] = "new"
    BY <1>2 DEF StoreItem
  <2> QED
    BY <1>2, <2>1, StoreItemAccepts DEF Fresh, IndInv, TypeOK, UserType
<1>3. ASSUME NEW t \in IoThreads, HandleResult(t) PROVE Fresh'
  <2>1. request' = request
    BY <1>3 DEF HandleResult
  <2>2. PICK h \in Pending, r \in Results :
           /\ request[h] = "sent"
           /\ Pending' = Pending \ {h}
           /\ answer' = [k \in Handles |-> IF k = h THEN r ELSE answer[k]]
    BY <1>3, HandleResultAnswers
  <2> QED
    BY <2>1, <2>2 DEF Fresh
<1>4. ASSUME NEW t \in IoThreads, Erase(t) PROVE Fresh'
  BY <1>1, <1>4, EraseUnseen DEF Erase
<1>5. ASSUME NEW h \in Handles, Reject(h) PROVE Fresh'
  <2>1. \A k \in Handles : request'[k] # "sent" => request[k] # "sent"
    BY <1>5 DEF Reject, IndInv, TypeOK, UserType
  <2> QED
    BY <1>1, <1>5, <2>1, StepsUnseen DEF IndInv
<1>6. ASSUME NEW h \in Handles, AddRequest(h) PROVE Fresh'
  <2>1. \A k \in Handles : request'[k] # "sent" => request[k] # "sent"
    BY <1>6 DEF AddRequest, IndInv, TypeOK, UserType
  <2> QED
    BY <1>1, <1>6, <2>1, StepsUnseen DEF IndInv
<1>7. CASE \/ \E t \in IoThreads : MultiStep(t) /\ UNCHANGED userVars
           \/ Asio /\ UNCHANGED userVars
           \/ Network /\ UNCHANGED userVars
           \/ UNCHANGED vars
  BY <1>1, <1>7, StepsUnseen DEF IndInv, userVars, vars
<1> QED
  BY <1>2, <1>3, <1>4, <1>5, <1>6, <1>7 DEF Next, IoStep

\* Every step is a step of Connection, or unseen.
LEMMA StepImplements ==
  ASSUME IndInv, Fresh, [Next]_vars
  PROVE  [C!Next]_(C!vars)
<1>1. ASSUME Unseen PROVE UNCHANGED C!vars
  BY <1>1 DEF Unseen, C!vars
<1>2. ASSUME NEW h \in Handles, StoreItem(h) PROVE C!Next
  <2>1. C!Accept(h)
    BY <1>2, StoreItemAccepts DEF C!Accept
  <2> QED
    BY <2>1 DEF C!Next
<1>3. ASSUME NEW t \in IoThreads, HandleResult(t) PROVE C!Next
  <2>1. PICK h \in Pending, r \in Results :
           /\ request[h] = "sent"
           /\ Pending' = Pending \ {h}
           /\ answer' = [k \in Handles |-> IF k = h THEN r ELSE answer[k]]
    BY <1>3, HandleResultAnswers
  <2>2. h \in Handles
    BY DEF Pending, IndInv, TypeOK, UserType
  <2>3. answer' = [k \in Handles |-> IF k \in {h} THEN r ELSE answer[k]]
    BY <2>1
  <2>4. C!Answer({h}, r)
    BY <2>1, <2>3 DEF C!Answer
  <2> QED
    BY <2>2, <2>4 DEF C!Next
<1>4. ASSUME NEW t \in IoThreads, Erase(t) PROVE UNCHANGED C!vars
  BY <1>1, <1>4, EraseUnseen
<1>5. CASE \/ \E t \in IoThreads : MultiStep(t) /\ UNCHANGED userVars
           \/ \E h \in Handles : Reject(h) \/ AddRequest(h)
           \/ Asio /\ UNCHANGED userVars
           \/ Network /\ UNCHANGED userVars
           \/ UNCHANGED vars
  BY <1>1, <1>5, StepsUnseen DEF IndInv
<1> QED
  BY <1>2, <1>3, <1>4, <1>5 DEF Next, IoStep

\* The initial state is one of Connection.
LEMMA InitImplements == Init => C!Init /\ Fresh
<1> SUFFICES ASSUME Init PROVE C!Init /\ Fresh
  OBVIOUS
<1>1. Pending = {}
  BY DEF Init, Pending
<1> QED
  BY <1>1 DEF Init, C!Init, Fresh

\* HttpConnection implements Connection: no request that sendRequest took is
\* lost or answered twice, whatever the io threads, curl and the network do
\* (handleResult, check_multi_info and createRequestItem keep one owner).
THEOREM Implements == Spec => ImplementsConnection
<1>1. IndInv /\ Fresh /\ [Next]_vars => Fresh' /\ [C!Next]_(C!vars)
  BY NextFresh, StepImplements
<1> QED
  BY <1>1, InitImplements, Inductive, PTL DEF Spec, ImplementsConnection, C!Spec

----------------------------------------------------------------------------
(* Sockets and timeouts: the inductive invariants.                         *)

Socketed == {"connect", "send", "recv"}

\* A transfer has a socket, an open one, from connecting to its end.
HasSocket ==
  \A h \in Handles :
    IF phase[h] \in Socketed THEN \E s \in socket_map : sock[h] = {s} ELSE sock[h] = {}

\* No two transfers use one socket at a time.
OwnSocket == \A h, k \in Handles : sock[h] \cap sock[k] # {} => h = k

WatchInv == HasSocket /\ OwnSocket /\ WatchedInUse

\* What curl was told is never lost, inside its calls and outside them.
ToldKept ==
  /\ told = "later" <=> armed
  /\ told \in {"now", "past"} => timers > 0
  /\ holder = NoHandle /\ Running # {} => told # "none"

\* A thread that saw no transfer running when curl returned, and may stop the
\* timer for it, finds no timer that waits.
KillsNothing ==
  \A t \in IoThreads :
    /\ thread[t].pc \in {"count", "info", "remove", "kill"} /\ thread[t].left = 0
         => told \in {"none", "now"}
    /\ thread[t].pc = "kill" => thread[t].left = 0

\* What a thread has counted or is about to is 0 once no transfer is running.
Counted ==
  \A t \in IoThreads :
    /\ thread[t].pc = "count" /\ thread[t].left # 0 => Running # {}
    /\ thread[t].pc \notin {"curl", "count"} /\ requests_left # 0 => Running # {}

\* The inductive invariant of a connection with one io thread.
LoopInv == ToldKept /\ KillsNothing /\ Counted

----------------------------------------------------------------------------
(* Sockets are watched while they are in use.                              *)

\* A socket is in use if and only if some transfer has it.
LEMMA UsedBy ==
  ASSUME HasSocket, NEW s
  PROVE  Using(s) # {} <=> \E h \in Handles : s \in sock[h]
BY DEF HasSocket, Using, Running, Active, Socketed

\* The number of waits is not 0 if one is in progress.
LEMMA WaitInProgress ==
  ASSUME SocketType, NEW s \in Sockets, NEW d \in Directions, waits[s][d] > 0
  PROVE  waits[s] # NoWaits
BY DEF NoWaits, SocketType

\* A step that gives no transfer a socket and takes none away.
LEMMA SocketsStay ==
  ASSUME WatchInv, UNCHANGED <<sock, socket_map, action>>,
         \A s \in Sockets : waits'[s] # NoWaits => s \in socket_map,
         \A h \in Handles : phase'[h] \in Socketed <=> phase[h] \in Socketed
  PROVE  WatchInv'
<1>1. HasSocket'
  BY DEF WatchInv, HasSocket
<1>2. OwnSocket'
  BY DEF WatchInv, OwnSocket
<1>3. ASSUME NEW s \in Sockets, action'[s] # {}
      PROVE  (s \in socket_map /\ Using(s) # {})'
  <2>1. s \in socket_map /\ \E h \in Handles : s \in sock[h]
    BY <1>3, UsedBy DEF WatchInv, WatchedInUse
  <2>2. \E h \in Handles : s \in sock'[h]
    BY <2>1
  <2>3. (Using(s) # {})'
    BY <1>1, <2>2 DEF HasSocket, Using, Running, Active, Socketed
  <2> QED
    BY <2>1, <2>3
<1>4. NoWaits' = NoWaits
  BY DEF NoWaits
<1>5. WatchedInUse'
  BY <1>3, <1>4 DEF WatchedInUse
<1> QED
  BY <1>1, <1>2, <1>5 DEF WatchInv

\* A step that gives the socket s to h, or in which h goes on with it.
LEMMA SocketTaken ==
  ASSUME TypeOK, WatchInv, NEW h \in Handles, NEW s \in Sockets, NEW what, NEW map,
         phase'[h] \in Socketed, sock'[h] = {s}, sock[h] \subseteq {s},
         \A k \in Handles \ {h} :
           s \notin sock[k] /\ phase'[k] = phase[k] /\ sock'[k] = sock[k],
         s \in socket_map', socket_map \subseteq socket_map', SetSocket(s, what, map)
  PROVE  WatchInv'
<1>1. HasSocket'
  BY DEF WatchInv, HasSocket
<1>2. OwnSocket'
  BY DEF WatchInv, OwnSocket
<1>3. \A x \in Sockets \ {s} : action'[x] = action[x] /\ waits'[x] = waits[x]
  BY DEF SetSocket, TypeOK, SocketType
<1>4. (Using(s) # {})'
  BY DEF Using, Running, Active, Socketed
<1>5. ASSUME NEW x \in Sockets \ {s}, action'[x] # {}
      PROVE  (x \in socket_map /\ Using(x) # {})'
  <2>1. x \in socket_map /\ \E k \in Handles : x \in sock[k]
    BY <1>3, <1>5, UsedBy DEF WatchInv, WatchedInUse
  <2>2. \E k \in Handles \ {h} : x \in sock[k]
    BY <2>1, <1>5
  <2>3. \E k \in Handles : x \in sock'[k]
    BY <2>2
  <2>4. (Using(x) # {})'
    BY <1>1, <2>3 DEF HasSocket, Using, Running, Active, Socketed
  <2> QED
    BY <2>1, <2>4
<1>6. NoWaits' = NoWaits
  BY DEF NoWaits
<1>7. WatchedInUse'
  BY <1>3, <1>4, <1>5, <1>6 DEF WatchInv, WatchedInUse
<1> QED
  BY <1>1, <1>2, <1>7 DEF WatchInv

\* A step that takes its socket, which no other transfer has, from h.
LEMMA SocketLeft ==
  ASSUME TypeOK, WatchInv, NEW h \in Handles,
         phase'[h] \notin Socketed, sock'[h] = {},
         \A k \in Handles \ {h} : phase'[k] = phase[k] /\ sock'[k] = sock[k],
         socket_map \ sock[h] \subseteq socket_map', RemoveSocket(sock[h])
  PROVE  WatchInv'
<1>1. \A k \in Handles \ {h} : sock[k] \cap sock[h] = {}
  BY DEF WatchInv, OwnSocket
<1>2. HasSocket'
  BY <1>1 DEF WatchInv, HasSocket
<1>3. OwnSocket'
  BY DEF WatchInv, OwnSocket
<1>4. \A x \in Sockets : x \in sock[h] => action'[x] = {} /\ waits'[x] = NoWaits
  BY DEF RemoveSocket, CancelWaits
<1>5. \A x \in Sockets \ sock[h] : action'[x] = action[x] /\ waits'[x] = waits[x]
  BY DEF RemoveSocket, CancelWaits
<1>6. ASSUME NEW x \in Sockets \ sock[h], action'[x] # {}
      PROVE  (x \in socket_map /\ Using(x) # {})'
  <2>1. x \in socket_map /\ \E k \in Handles : x \in sock[k]
    BY <1>5, <1>6, UsedBy DEF WatchInv, WatchedInUse
  <2>2. \E k \in Handles : x \in sock'[k]
    BY <2>1, <1>6
  <2>3. (Using(x) # {})'
    BY <1>2, <2>2 DEF HasSocket, Using, Running, Active, Socketed
  <2> QED
    BY <2>1, <2>3
<1>7. NoWaits' = NoWaits
  BY DEF NoWaits
<1>8. WatchedInUse'
  BY <1>4, <1>5, <1>6, <1>7 DEF WatchInv, WatchedInUse
<1> QED
  BY <1>2, <1>3, <1>8 DEF WatchInv

\* The end of a transfer.
LEMMA EndsWatch ==
  ASSUME TypeOK, WatchInv, NEW h \in Handles, NEW r, NEW keep, Ends(h, r, keep)
  PROVE  WatchInv'
<1>1. phase'[h] \notin Socketed /\ sock'[h] = {}
      /\ \A k \in Handles \ {h} : phase'[k] = phase[k] /\ sock'[k] = sock[k]
  BY DEF Ends, Socketed, TypeOK, CurlType
<1>2. socket_map \ sock[h] \subseteq socket_map' /\ RemoveSocket(sock[h])
  BY DEF Ends, CloseSocket
<1> QED
  BY <1>1, <1>2, SocketLeft

\* The steps of curl for a transfer that goes on.
LEMMA CurlStepWatch ==
  ASSUME TypeOK, WatchInv, NEW t \in IoThreads, CurlStep(t)
  PROVE  WatchInv'
<1> PICK h \in Handles :
    \/ Resolving(t, h) \/ CannotConnect(t, h) \/ Connected(t, h) \/ Sent(t, h)
    \/ Nothing(t, h) \/ ReadPortion(t, h) \/ ReadLast(t, h)
    \/ Broken(t, h) \/ BodyRefused(t, h) \/ TimedOut(t, h)
    \/ \E s \in Sockets : Connect(t, h, s) \/ Reuse(t, h, s)
  BY DEF CurlStep
<1>w. \A s \in Sockets : waits[s] # NoWaits => s \in socket_map
  BY DEF WatchInv, WatchedInUse
<1>n. NeedsSocket(h) => sock[h] = {}
  BY DEF NeedsSocket, WatchInv, HasSocket, Socketed
<1>1. CASE CannotConnect(t, h) \/ ReadLast(t, h) \/ Broken(t, h) \/ BodyRefused(t, h) \/ TimedOut(t, h)
  BY <1>1, EndsWatch DEF CannotConnect, ReadLast, Broken, BodyRefused, TimedOut
<1>2. CASE Resolving(t, h)
  <2>1. \A k \in Handles : phase'[k] \in Socketed <=> phase[k] \in Socketed
    BY <1>2 DEF Resolving, NeedsSocket, Socketed, TypeOK, CurlType
  <2> QED
    BY <1>2, <1>w, <2>1, SocketsStay DEF Resolving, socketVars
<1>3. CASE Nothing(t, h) \/ ReadPortion(t, h)
  BY <1>3, <1>w, SocketsStay DEF Nothing, ReadPortion, socketVars
<1>4. CASE Connected(t, h) \/ Sent(t, h)
  <2>1. phase[h] \in Socketed
    BY <1>4 DEF Connected, Sent, Socketed
  <2>2. PICK s \in socket_map : sock[h] = {s}
    BY <2>1 DEF WatchInv, HasSocket
  <2>3. TheSocket(h) = s /\ s \in Sockets
    BY <2>2 DEF TheSocket, TypeOK, SocketType
  <2>4. phase'[h] \in Socketed /\ \A k \in Handles \ {h} : phase'[k] = phase[k]
    BY <1>4 DEF Connected, Sent, StartsRequest, Socketed, TypeOK, CurlType
  <2>5. sock' = sock /\ socket_map' = socket_map
    BY <1>4 DEF Connected, Sent
  <2>6. \A k \in Handles \ {h} : s \notin sock[k]
    BY <2>2 DEF WatchInv, OwnSocket
  <2>7. \E what : SetSocket(s, what, socket_map)
    BY <1>4, <2>3 DEF Connected, Sent, StartsRequest
  <2> QED
    BY <2>2, <2>3, <2>4, <2>5, <2>6, <2>7, SocketTaken
<1>5. ASSUME NEW s \in Sockets, Connect(t, h, s) PROVE WatchInv'
  <2>1. \A k \in Handles : s \notin sock[k]
    BY <1>5 DEF Connect, OpenSocket, WatchInv, HasSocket
  <2>2. phase'[h] \in Socketed /\ sock'[h] = {s}
        /\ \A k \in Handles \ {h} : phase'[k] = phase[k] /\ sock'[k] = sock[k]
    BY <1>5 DEF Connect, Socketed, TypeOK, CurlType
  <2>3. s \in socket_map' /\ socket_map \subseteq socket_map'
        /\ SetSocket(s, {"out"}, socket_map') /\ sock[h] \subseteq {s}
    BY <1>5, <1>n DEF Connect, OpenSocket
  <2> QED
    BY <2>1, <2>2, <2>3, SocketTaken
<1>6. ASSUME NEW s \in Sockets, Reuse(t, h, s) PROVE WatchInv'
  <2>1. s \in socket_map /\ Using(s) = {}
    BY <1>6 DEF Reuse, Cached
  <2>2. \A k \in Handles : s \notin sock[k]
    BY <2>1, UsedBy DEF WatchInv
  <2>3. phase'[h] \in Socketed /\ sock'[h] = {s}
        /\ \A k \in Handles \ {h} : phase'[k] = phase[k] /\ sock'[k] = sock[k]
    BY <1>6 DEF Reuse, StartsRequest, Socketed, TypeOK, CurlType
  <2>4. \E what : SetSocket(s, what, socket_map)
    BY <1>6 DEF Reuse, StartsRequest
  <2>5. socket_map' = socket_map /\ sock[h] \subseteq {s}
    BY <1>6, <1>n DEF Reuse
  <2> QED
    BY <2>1, <2>2, <2>3, <2>4, <2>5, SocketTaken
<1> QED
  BY <1>1, <1>2, <1>3, <1>4, <1>5, <1>6

\* A connection that no transfer uses is closed.
LEMMA CloseBrokenWatch ==
  ASSUME TypeOK, WatchInv, NEW t \in IoThreads, NEW s \in Sockets, CloseBroken(t, s)
  PROVE  WatchInv'
<1>1. s \in socket_map /\ Using(s) = {} /\ RemoveSocket({s})
      /\ socket_map' = socket_map \ {s} /\ UNCHANGED <<phase, sock>>
  BY DEF CloseBroken, CloseSocket, Cached, curlVars
<1>2. \A k \in Handles : s \notin sock[k]
  BY <1>1, UsedBy DEF WatchInv
<1>3. HasSocket'
  BY <1>1, <1>2 DEF WatchInv, HasSocket
<1>4. OwnSocket'
  BY <1>1 DEF WatchInv, OwnSocket
<1>5. action'[s] = {} /\ waits'[s] = NoWaits
      /\ \A x \in Sockets \ {s} : action'[x] = action[x] /\ waits'[x] = waits[x]
  BY <1>1 DEF RemoveSocket, CancelWaits
<1>6. \A x \in Sockets : Using(x)' = Using(x)
  BY <1>1 DEF Using, Running
<1>7. NoWaits' = NoWaits
  BY DEF NoWaits
<1>8. WatchedInUse'
  BY <1>1, <1>5, <1>6, <1>7 DEF WatchInv, WatchedInUse
<1> QED
  BY <1>3, <1>4, <1>8 DEF WatchInv

\* A handle that sendRequest has not given to curl is not in it,
LEMMA StillOut ==
  ASSUME IndInv, NEW h \in Handles, request[h] = "stored"
  PROVE  phase[h] = "out"
<1>1. <<"unsent", NoHandle>> \in Hands(h)
  BY InHands
<1>2. h \notin Running
  BY <1>1, Alone DEF IndInv
<1>3. \A p \in Hands(h) : p[1] = "unsent"
  BY <1>1 DEF IndInv, OneOwner
<1>4. phase[h] # "done"
  BY <1>3 DEF IndInv, OneOwner
<1> QED
  BY <1>2, <1>4 DEF Running, Active, Phases, IndInv, TypeOK, CurlType

\* and one whose message was read is finished.
LEMMA ReadDone ==
  ASSUME IndInv, NEW t \in IoThreads, thread[t].pc = "remove"
  PROVE  thread[t].easy \in Handles /\ phase[thread[t].easy] = "done"
<1> PICK h \in Handles : h = thread[t].easy
  BY DEF IndInv, HasHandle
<1>1. <<"read", t>> \in Hands(h)
  BY InHands DEF ReadBy
<1> QED
  BY <1>1 DEF IndInv, OneOwner

\* Every step keeps the invariant of the sockets.
LEMMA NextWatch ==
  ASSUME IndInv, WatchInv, [Next]_vars
  PROVE  WatchInv'
<1>t. TypeOK
  BY DEF IndInv
<1>w. \A s \in Sockets : waits[s] # NoWaits => s \in socket_map
  BY DEF WatchInv, WatchedInUse
<1>1. CASE UNCHANGED <<sock, socket_map, action, waits, phase>>
  BY <1>1, <1>w, SocketsStay
<1>2. ASSUME NEW h \in Handles, AddRequest(h) PROVE WatchInv'
  <2>1. phase[h] = "out"
    BY <1>2, StillOut DEF AddRequest
  <2>2. \A k \in Handles : phase'[k] \in Socketed <=> phase[k] \in Socketed
    BY <1>2, <1>t, <2>1 DEF AddRequest, AddHandle, Socketed, TypeOK, CurlType
  <2> QED
    BY <1>2, <1>w, <2>2, SocketsStay DEF AddRequest, AddHandle, socketVars
<1>3. ASSUME NEW t \in IoThreads, RemoveHandle(t) PROVE WatchInv'
  <2>1. thread[t].easy \in Handles /\ phase[thread[t].easy] = "done"
    BY <1>3, ReadDone DEF RemoveHandle
  <2>2. \A k \in Handles : phase'[k] \in Socketed <=> phase[k] \in Socketed
    BY <1>3, <1>t, <2>1 DEF RemoveHandle, RemovedFromMulti, Socketed, TypeOK, CurlType
  <2> QED
    BY <1>3, <1>w, <2>2, SocketsStay DEF RemoveHandle, socketVars
<1>4. ASSUME NEW s \in Sockets, NEW d \in Directions, WaitCompletes(s, d) PROVE WatchInv'
  <2>1. s \in socket_map
    BY <1>4, <1>t, <1>w, WaitInProgress DEF WaitCompletes, TypeOK
  <2>2. \A x \in Sockets \ {s} : waits'[x] = waits[x]
    BY <1>4, <1>t DEF WaitCompletes, TypeOK, SocketType
  <2> QED
    BY <1>4, <1>w, <2>1, <2>2, SocketsStay DEF WaitCompletes, curlVars
<1>5. ASSUME NEW t \in IoThreads, MultiStep(t) PROVE WatchInv'
  <2>1. CASE TimerCb(t) \/ \E s \in Sockets, d \in Directions : EventCb(t, s, d)
    BY <1>1, <2>1 DEF TimerCb, EventCb, SocketAction
  <2>2. CASE SocketActionReturns(t) \/ Count(t) \/ ReadInfo(t) \/ KillTimer(t)
    BY <1>1, <2>2 DEF SocketActionReturns, Count, ReadInfo, KillTimer, curlVars, socketVars
  <2> QED
    BY <1>3, <1>5, <1>t, <2>1, <2>2, CurlStepWatch, CloseBrokenWatch DEF MultiStep
<1>6. ASSUME NEW t \in IoThreads, HandleResult(t) \/ Erase(t) PROVE WatchInv'
  BY <1>1, <1>6 DEF HandleResult, Erase, curlVars, socketVars
<1>7. ASSUME NEW h \in Handles, Reject(h) \/ StoreItem(h) PROVE WatchInv'
  BY <1>1, <1>7 DEF Reject, StoreItem, multiVars, curlVars, socketVars
<1>8. CASE TimerExpires \/ Network \/ UNCHANGED vars
  BY <1>1, <1>8 DEF TimerExpires, Network, vars, multiVars, curlVars, socketVars
<1> QED
  BY <1>2, <1>4, <1>5, <1>6, <1>7, <1>8 DEF Next, IoStep, Asio

\* No socket is open at first.
LEMMA InitWatch == Init => WatchInv
<1> SUFFICES ASSUME Init PROVE WatchInv
  OBVIOUS
<1>1. HasSocket /\ OwnSocket
  BY DEF Init, MultiInit, HasSocket, OwnSocket, Socketed
<1>2. WatchedInUse
  BY DEF Init, MultiInit, WatchedInUse
<1> QED
  BY <1>1, <1>2 DEF WatchInv

\* However many io threads run event_cb and timer_cb, a SocketInfo exists only
\* for an open socket that a transfer uses, and only open sockets have
\* asynchronous waits: socket_cb's REMOVE and close_socket leave nothing behind.
THEOREM WatchedSocketsInUse == Spec => []WatchedInUse
<1>1. IndInv /\ WatchInv /\ [Next]_vars => WatchInv'
  BY NextWatch
<1>2. WatchInv => WatchedInUse
  BY DEF WatchInv
<1> QED
  BY <1>1, <1>2, InitWatch, Inductive, PTL DEF Spec

----------------------------------------------------------------------------
(* One io thread: the timer and the count of requests.                     *)

\* A step that neither the timer nor the count of running transfers sees.
LEMMA LoopSame ==
  ASSUME LoopInv, UNCHANGED <<timerVars, holder, thread, phase, requests_left>>
  PROVE  LoopInv'
BY DEF LoopInv, ToldKept, KillsNothing, Counted, timerVars, Running

\* curl tells its next timeout when it returns.
LEMMA TellTimeoutKeeps ==
  ASSUME ToldKept, TellTimeout, Running' = Running
  PROVE  /\ ToldKept'
         /\ Running = {} => told' = "none"
         /\ Running # {} => told' = told \/ told \in {"none", "later"}
<1>1. CASE Running = {} /\ MultiTimerCb("none")
  <2>1. told' = "none" /\ ~armed'
    BY <1>1, Zenon DEF MultiTimerCb
  <2> QED
    BY <1>1, <2>1 DEF ToldKept
<1>2. CASE /\ Running = {} => told = "none"
           /\ Running # {} => told # "none"
           /\ UNCHANGED timerVars
  <2>1. UNCHANGED <<told, armed, timers>>
    BY <1>2 DEF timerVars
  <2> QED
    BY <1>2, <2>1 DEF ToldKept
<1>3. CASE Running # {} /\ told \in {"none", "later"} /\ MultiTimerCb("later")
  <2>1. told' = "later" /\ armed'
    BY <1>3, Zenon DEF MultiTimerCb
  <2> QED
    BY <1>3, <2>1 DEF ToldKept
<1> QED
  BY <1>1, <1>2, <1>3 DEF TellTimeout

\* The number that curl reports is 0 if and only if no transfer is running.
LEMMA NoneRunning == Cardinality(Running) = 0 <=> Running = {}
<1>1. IsFiniteSet(Running)
  BY HandlesFinite, FS_Subset DEF Running
<1> QED
  BY <1>1, FS_EmptySet

\* addRequest asks for timer_cb at once.
LEMMA AddRequestLoop ==
  ASSUME TypeOK, LoopInv, NEW h \in Handles, AddRequest(h)
  PROVE  LoopInv'
<1>1. told' = "now" /\ timers' = timers + 1 /\ UNCHANGED <<holder, thread, requests_left>>
  BY DEF AddRequest, AddHandle, MultiTimerCb
<1>2. ~armed'
  BY Zenon DEF AddRequest, AddHandle, MultiTimerCb
<1>3. Running \subseteq Running'
  BY DEF AddRequest, AddHandle, Running, Active, TypeOK, CurlType
<1>4. ToldKept'
  BY <1>1, <1>2 DEF ToldKept, TypeOK, TimerType
<1>5. KillsNothing'
  BY <1>1 DEF LoopInv, KillsNothing
<1>6. Counted'
  BY <1>1, <1>3 DEF LoopInv, Counted
<1> QED
  BY <1>4, <1>5, <1>6 DEF LoopInv

\* timer_cb and event_cb enter curl: what it was told is dealt with.
LEMMA SocketActionLoop ==
  ASSUME NEW io, IoThreads = {io}, TypeOK, LoopInv, NEW call, NEW ready,
         SocketAction(io, call, ready)
  PROVE  LoopInv'
<1>1. told' = (IF told = "later" THEN told ELSE "none") /\ armed' = armed /\ holder' = io
  BY DEF SocketAction
<1>2. PICK due, late : thread' = [thread EXCEPT ![io] =
        [Idle EXCEPT !.pc = "curl", !.call = call, !.due = due, !.late = late]]
  BY DEF SocketAction
<1>3. thread'[io].pc = "curl"
  BY <1>2 DEF Idle, TypeOK, ThreadType
<1>4. ToldKept'
  BY <1>1, NoHandleAssumption DEF LoopInv, ToldKept
<1>5. KillsNothing' /\ Counted'
  BY <1>3 DEF KillsNothing, Counted
<1> QED
  BY <1>4, <1>5 DEF LoopInv

\* The steps of curl inside a call.
LEMMA CurlStepLoop ==
  ASSUME NEW io, IoThreads = {io}, TypeOK, Locked, LoopInv, CurlStep(io)
  PROVE  LoopInv'
<1>1. PICK h \in Handles : Serves(io, h)
  BY DEF CurlStep, Resolving, CannotConnect, Connected, Sent, Nothing, ReadPortion,
     ReadLast, Broken, BodyRefused, TimedOut, Connect, Reuse, InTime
<1>2. thread[io].pc = "curl" /\ holder = io
  BY <1>1 DEF Serves, Locked
<1>3. thread'[io].pc = "curl" /\ holder' = holder /\ UNCHANGED <<told, armed, timers>>
  BY <1>1, <1>2 DEF Serves, timerVars, TypeOK, ThreadType, Calls
<1>4. ToldKept'
  BY <1>2, <1>3, NoHandleAssumption DEF LoopInv, ToldKept
<1>5. KillsNothing' /\ Counted'
  BY <1>3 DEF KillsNothing, Counted
<1> QED
  BY <1>4, <1>5 DEF LoopInv

\* curl returns with the number of its transfers.
LEMMA ReturnsLoop ==
  ASSUME NEW io, IoThreads = {io}, TypeOK, LoopInv, SocketActionReturns(io)
  PROVE  LoopInv'
<1>1. TellTimeout /\ Running' = Running
  BY DEF SocketActionReturns, curlVars, Running
<1>2. ToldKept' /\ (Running = {} => told' = "none")
  BY <1>1, TellTimeoutKeeps DEF LoopInv
<1>3. thread'[io].pc = "count" /\ thread'[io].left = Cardinality(Running)
  BY DEF SocketActionReturns, TypeOK, ThreadType, Calls
<1>4. KillsNothing'
  BY <1>2, <1>3, NoneRunning DEF KillsNothing
<1>5. Counted'
  BY <1>1, <1>3, NoneRunning DEF Counted
<1> QED
  BY <1>2, <1>4, <1>5 DEF LoopInv

\* check_multi_info keeps the number,
LEMMA CountLoop ==
  ASSUME NEW io, IoThreads = {io}, TypeOK, LoopInv, Count(io)
  PROVE  LoopInv'
<1>1. UNCHANGED <<told, armed, timers, holder, phase>> /\ Running' = Running
  BY DEF Count, curlVars, timerVars, Running
<1>2. thread[io].pc = "count" /\ thread'[io].pc = "info"
      /\ thread'[io].left = thread[io].left /\ requests_left' = thread[io].left
  BY DEF Count, TypeOK, ThreadType, Calls
<1>3. ToldKept'
  BY <1>1 DEF LoopInv, ToldKept
<1>4. KillsNothing'
  BY <1>1, <1>2 DEF LoopInv, KillsNothing
<1>5. Counted'
  BY <1>1, <1>2 DEF LoopInv, Counted
<1> QED
  BY <1>3, <1>4, <1>5 DEF LoopInv

\* reads the messages of curl,
LEMMA ReadInfoLoop ==
  ASSUME NEW io, IoThreads = {io}, TypeOK, LoopInv, ReadInfo(io)
  PROVE  LoopInv'
<1>1. UNCHANGED <<told, armed, timers, holder, phase, requests_left>> /\ Running' = Running
  BY DEF ReadInfo, timerVars, Running
<1>c. thread[io] \in Calls /\ thread[io].left \in Nat
  BY DEF TypeOK, ThreadType, Calls
<1>2. /\ thread[io].pc = "info"
      /\ \/ thread'[io].pc = "idle"
         \/ thread'[io].pc = "kill" /\ thread[io].left = 0 /\ thread'[io].left = 0
         \/ thread'[io].pc = "remove" /\ thread'[io].left = thread[io].left
  <2>1. CASE thread' = [thread EXCEPT ![io] = AfterInfo(io)]
    <3>1. thread'[io] = AfterInfo(io)
      BY <2>1 DEF TypeOK, ThreadType
    <3>2. thread[io].pc = "info"
      BY DEF ReadInfo
    <3>3. CASE thread[io].call = "event" /\ thread[io].left <= 0
      <4>1. thread[io].left = 0
        BY <1>c, <3>3
      <4>2. AfterInfo(io) = [thread[io] EXCEPT !.pc = "kill"]
        BY <3>3, Zenon DEF AfterInfo
      <4>3. AfterInfo(io).pc = "kill" /\ AfterInfo(io).left = thread[io].left
        BY <1>c, <4>2 DEF Calls
      <4> QED
        BY <3>1, <3>2, <4>1, <4>3
    <3>4. CASE ~(thread[io].call = "event" /\ thread[io].left <= 0)
      <4>1. AfterInfo(io) = Idle
        BY <3>4, Zenon DEF AfterInfo
      <4> QED
        BY <3>1, <3>2, <4>1 DEF Idle
    <3> QED
      BY <3>3, <3>4
  <2>2. ASSUME NEW m, thread' = [thread EXCEPT ![io].pc = "remove", ![io].easy = m[1],
                                               ![io].result = m[2]]
        PROVE  thread'[io].pc = "remove" /\ thread'[io].left = thread[io].left
    BY <2>2 DEF TypeOK, ThreadType, Calls
  <2> QED
    BY <2>1, <2>2 DEF ReadInfo
<1>3. ToldKept'
  BY <1>1 DEF LoopInv, ToldKept
<1>4. KillsNothing'
  BY <1>1, <1>2 DEF LoopInv, KillsNothing
<1>5. Counted'
  BY <1>1, <1>2 DEF LoopInv, Counted
<1> QED
  BY <1>3, <1>4, <1>5 DEF LoopInv

\* and removes finished handles, after which curl tells its timeout again.
LEMMA RemoveHandleLoop ==
  ASSUME NEW io, IoThreads = {io}, IndInv, LoopInv, RemoveHandle(io)
  PROVE  LoopInv'
<1>1. TellTimeout /\ holder = NoHandle /\ UNCHANGED <<holder, requests_left>>
  BY DEF RemoveHandle
<1>2. thread[io].pc = "remove" /\ thread'[io].pc = "info"
      /\ thread'[io].left = thread[io].left
  BY DEF RemoveHandle, IndInv, TypeOK, ThreadType, Calls
<1>3. thread[io].easy \in Handles /\ phase[thread[io].easy] = "done"
  BY <1>2, ReadDone
<1>4. Running' = Running
  BY <1>3 DEF RemoveHandle, RemovedFromMulti, Running, Active, IndInv, TypeOK, CurlType
<1>5. ToldKept' /\ (Running = {} => told' = "none")
      /\ (Running # {} => told' = told \/ told \in {"none", "later"})
  BY <1>1, <1>4, TellTimeoutKeeps DEF LoopInv
<1>6. Running # {} => told # "none"
  BY <1>1 DEF LoopInv, ToldKept
<1>7. KillsNothing'
  BY <1>2, <1>5, <1>6 DEF LoopInv, KillsNothing
<1>8. Counted'
  BY <1>1, <1>2, <1>4 DEF LoopInv, Counted
<1> QED
  BY <1>5, <1>7, <1>8 DEF LoopInv

\* event_cb stops a timer that does not wait.
LEMMA KillTimerLoop ==
  ASSUME NEW io, IoThreads = {io}, TypeOK, LoopInv, KillTimer(io)
  PROVE  LoopInv'
<1>1. UNCHANGED <<told, timers, holder, phase, requests_left>> /\ Running' = Running
  BY DEF KillTimer, curlVars, Running
<1>2. thread[io].pc = "kill" /\ thread'[io].pc = "idle" /\ ~armed'
  BY DEF KillTimer, TypeOK, ThreadType, Idle
<1>3. told \in {"none", "now"}
  BY <1>2 DEF LoopInv, KillsNothing
<1>4. ToldKept'
  BY <1>1, <1>2, <1>3 DEF LoopInv, ToldKept
<1>5. KillsNothing' /\ Counted'
  BY <1>1, <1>2 DEF LoopInv, KillsNothing, Counted
<1> QED
  BY <1>4, <1>5 DEF LoopInv

\* The timer expires only while no thread is about to stop it.
LEMMA TimerExpiresLoop ==
  ASSUME TypeOK, LoopInv, TimerExpires
  PROVE  LoopInv'
<1>1. armed /\ ~armed' /\ told' = "past" /\ timers' = timers + 1
      /\ UNCHANGED <<holder, phase, thread, requests_left>> /\ Running' = Running
  BY DEF TimerExpires, curlVars, Running
<1>2. told = "later"
  BY <1>1 DEF LoopInv, ToldKept
<1>3. ToldKept'
  BY <1>1 DEF ToldKept, TypeOK, TimerType
<1>4. KillsNothing'
  BY <1>1, <1>2 DEF LoopInv, KillsNothing
<1>5. Counted'
  BY <1>1 DEF LoopInv, Counted
<1> QED
  BY <1>3, <1>4, <1>5 DEF LoopInv

\* handleResult and the end of it, in the io thread.
LEMMA HandleResultLoop ==
  ASSUME NEW io, IoThreads = {io}, TypeOK, LoopInv, HandleResult(io) \/ Erase(io)
  PROVE  LoopInv'
<1>1. UNCHANGED <<told, armed, timers, holder, phase, requests_left>> /\ Running' = Running
  BY DEF HandleResult, Erase, curlVars, timerVars, Running
<1>2. thread[io].pc \in {"idle", "erase"} /\ thread'[io].pc \in {"idle", "erase"}
  BY DEF HandleResult, Erase, Idle, TypeOK, ThreadType, Calls
<1>3. ToldKept'
  BY <1>1 DEF LoopInv, ToldKept
<1>4. KillsNothing' /\ Counted'
  BY <1>1, <1>2 DEF LoopInv, KillsNothing, Counted
<1> QED
  BY <1>3, <1>4 DEF LoopInv

\* Every step of a connection with one io thread keeps the invariant.
LEMMA NextLoop ==
  ASSUME NEW io, IoThreads = {io}, IndInv, LoopInv, [Next]_vars
  PROVE  LoopInv'
<1>t. TypeOK /\ Locked
  BY DEF IndInv
<1>1. CASE MultiStep(io)
  <2>1. CASE TimerCb(io) \/ \E s \in Sockets, d \in Directions : EventCb(io, s, d)
    BY <1>t, <2>1, SocketActionLoop DEF TimerCb, EventCb
  <2>2. CASE \E s \in Sockets : CloseBroken(io, s)
    BY <2>2, LoopSame DEF CloseBroken, curlVars
  <2> QED
    BY <1>1, <1>t, <2>1, <2>2, CurlStepLoop, ReturnsLoop, CountLoop, ReadInfoLoop,
       RemoveHandleLoop, KillTimerLoop DEF MultiStep
<1>2. CASE HandleResult(io) \/ Erase(io)
  BY <1>2, <1>t, HandleResultLoop
<1>3. ASSUME NEW h \in Handles, AddRequest(h) PROVE LoopInv'
  BY <1>3, <1>t, AddRequestLoop
<1>4. ASSUME NEW h \in Handles, Reject(h) \/ StoreItem(h) PROVE LoopInv'
  BY <1>4, LoopSame DEF Reject, StoreItem, multiVars, curlVars
<1>5. CASE TimerExpires
  BY <1>5, <1>t, TimerExpiresLoop
<1>6. CASE (\E s \in Sockets, d \in Directions : WaitCompletes(s, d)) \/ Network
           \/ UNCHANGED vars
  BY <1>6, LoopSame DEF WaitCompletes, Network, vars, multiVars, curlVars
<1> QED
  BY <1>1, <1>2, <1>3, <1>4, <1>5, <1>6 DEF Next, IoStep, Asio

\* Nothing was told, counted or started at first.
LEMMA InitLoop == Init => LoopInv
<1> SUFFICES ASSUME Init PROVE LoopInv
  OBVIOUS
<1>1. \A t \in IoThreads : thread[t].pc = "idle"
  BY DEF Init, MultiInit, Idle
<1>2. Running = {} /\ requests_left = 0 /\ told = "none" /\ ~armed
  BY DEF Init, MultiInit, Running, Active
<1> QED
  BY <1>1, <1>2 DEF LoopInv, ToldKept, KillsNothing, Counted

\* The invariant of the loop holds throughout.
LEMMA LoopInductive ==
  ASSUME NEW io, IoThreads = {io}
  PROVE  Spec => []LoopInv
<1>1. IndInv /\ LoopInv /\ [Next]_vars => LoopInv'
  BY NextLoop
<1> QED
  BY <1>1, InitLoop, Inductive, PTL DEF Spec

\* With one io thread, event_cb never stops a timer that curl still needs,
\* however users interleave addRequest with it: a timeout that curl asked for
\* waits in the timer or has its timer_cb queued, and curl has asked for one
\* while a transfer is running.
THEOREM TimeoutsKept ==
  ASSUME NEW io, IoThreads = {io}
  PROVE  Spec => []TimerKept
<1>1. LoopInv => TimerKept
  BY DEF LoopInv, ToldKept, TimerKept
<1> QED
  BY <1>1, LoopInductive, PTL

\* With one io thread, requestsLeft() is 0 whenever no transfer is running and
\* the thread is between two handlers, although the number is stored after
\* _multi_mutex was released.
THEOREM RequestsLeftSettles ==
  ASSUME NEW io, IoThreads = {io}
  PROVE  Spec => []LeftSettles
<1>1. LoopInv => LeftSettles
  BY DEF LoopInv, Counted, LeftSettles
<1> QED
  BY <1>1, LoopInductive, PTL
===========================================================================
