--------------------------- MODULE CurlMultiAsio ---------------------------
(***************************************************************************)
(* CurlMultiAsio (src/CurlMultiAsio.cpp): libcurl's multi interface driven *)
(* by boost::asio.  curl asks for a timer and for readiness of sockets     *)
(* through callbacks; timer_cb and event_cb, on the io threads, tell curl  *)
(* that the timer expired or a socket is ready; check_multi_info collects  *)
(* finished transfers and posts their results.                             *)
(*                                                                         *)
(* curl, the io_service and the network are external.  Of curl the model   *)
(* keeps what its multi interface promises: a call advances the transfers  *)
(* it concerns; the socket callback is called when what curl waits for on  *)
(* a socket changes; the timer callback when the time of the next timeout  *)
(* changes.                                                                *)
(***************************************************************************)
EXTENDS Integers, FiniteSets

CONSTANTS
  Handles,     \* the CURL easy handles, one per request
  Sockets,     \* the numbers of sockets
  IoThreads,   \* the threads that run the io_service
  Portions,    \* bound on the portions in which a response arrives
  MaxPolls,    \* bound on timeouts of a transfer before its deadline
  Deadlines,   \* requests have a timeout (0 is none for curl)
  NoHandle     \* the null pointer

ASSUME PortionsAssumption == Portions \in Nat \ {0}
ASSUME MaxPollsAssumption == MaxPolls \in Nat
ASSUME DeadlinesAssumption == Deadlines \in BOOLEAN
ASSUME NoHandleAssumption == NoHandle \notin Handles /\ NoHandle \notin IoThreads
ASSUME HandlesFinite == IsFiniteSet(Handles)

VARIABLES
  phase,          \* curl: per handle, how far its transfer is
  sock,           \* curl: per handle, the socket of its transfer, in a set
  polls,          \* curl: per handle, timeouts left before its deadline
  told,           \* curl: the timeout it told the timer callback last
  messages,       \* curl: finished transfers not read by curl_multi_info_read
  holder,         \* the thread inside a curl call with _multi_mutex held
  socket_map,     \* _socket_map: the sockets that are open
  action,         \* SocketInfo per socket: the directions curl waits for
  armed,          \* _timer is waiting
  requests_left,  \* _requests_left
  waits,          \* asio: per socket and direction, the waits in progress
  events,         \* asio: per socket and direction, event_cb calls queued
  timers,         \* asio: timer_cb calls queued
  posted,         \* asio: calls of _request_done_cb queued
  thread,         \* per io thread, the handler it runs
  link,           \* network: per socket, the state of its connection
  coming,         \* network: per socket, portions the server still sends
  avail           \* network: per socket, portions that wait to be read

curlVars == <<phase, sock, polls, messages>>
timerVars == <<told, armed, timers>>
socketVars == <<socket_map, action, waits, events>>
netVars == <<link, coming, avail>>
multiVars == <<curlVars, timerVars, holder, socketVars, requests_left, posted,
               thread, netVars>>

Directions == {"in", "out"}
Phases == {"out", "new", "resolve", "connect", "send", "recv", "done"}
Active == {"new", "resolve", "connect", "send", "recv"}
Results == {"ok", "error"}
Steps == {"idle", "curl", "count", "info", "remove", "kill", "erase"}

Running == {h \in Handles : phase[h] \in Active}
New == {h \in Handles : phase[h] = "new"}
Using(s) == {h \in Running : s \in sock[h]}
Cached == {s \in socket_map : Using(s) = {}}
NoWaits == [d \in Directions |-> 0]

Idle == [pc |-> "idle", call |-> "timer", due |-> {}, late |-> {}, left |-> 0,
         easy |-> NoHandle, result |-> "ok"]

MultiInit ==
  /\ phase = [h \in Handles |-> "out"]
  /\ sock = [h \in Handles |-> {}]
  /\ polls = [h \in Handles |-> 0]
  /\ told = "none" /\ armed = FALSE /\ timers = 0
  /\ messages = {} /\ posted = {}
  /\ holder = NoHandle
  /\ socket_map = {}
  /\ action = [s \in Sockets |-> {}]
  /\ waits = [s \in Sockets |-> NoWaits]
  /\ events = [s \in Sockets |-> NoWaits]
  /\ requests_left = 0
  /\ thread = [t \in IoThreads |-> Idle]
  /\ link = [s \in Sockets |-> "closed"]
  /\ coming = [s \in Sockets |-> 0]
  /\ avail = [s \in Sockets |-> 0]

----------------------------------------------------------------------------
(* The callbacks of curl, which run inside its calls.                      *)

\* Variant: no timeout is the same as a timeout of 0.
MultiTimerCbPositive(when) ==
  /\ told' = when
  /\ armed' = (when = "later")
  /\ UNCHANGED timers

\* multi_timer_cb: stop the timer, then wait for the timeout, or post
\* timer_cb when it is 0; a negative timeout only stops the timer.
MultiTimerCb(when) ==
  /\ told' = when
  /\ armed' = (when = "later")
  /\ timers' = IF when = "now" THEN timers + 1 ELSE timers

\* curl calls back at the end of a call when its next timeout is not the one
\* it told last.
TellTimeout ==
  \/ /\ Running = {} /\ told # "none"
     /\ MultiTimerCb("none")
  \/ /\ Running = {} => told = "none"
     /\ Running # {} => told # "none"
     /\ UNCHANGED timerVars
  \/ /\ Running # {} /\ told \in {"none", "later"}
     /\ MultiTimerCb("later")

\* socket_cb for IN, OUT and INOUT (add_socket, set_socket): if the socket is
\* ours, keep the action and start an asynchronous wait for each direction.
SetSocket(s, what, map) ==
  /\ action' = [action EXCEPT ![s] = IF s \in map THEN what ELSE @]
  /\ waits' = [waits EXCEPT ![s] =
       [d \in Directions |-> IF d \in what /\ s \in map
                             THEN waits[s][d] + 1 ELSE waits[s][d]]]
  /\ UNCHANGED events

\* Every wait of a socket that is cancelled still calls event_cb.
CancelWaits(ss) ==
  /\ waits' = [s \in Sockets |-> IF s \in ss THEN NoWaits ELSE waits[s]]
  /\ events' = [s \in Sockets |->
       IF s \in ss THEN [d \in Directions |-> events[s][d] + waits[s][d]]
       ELSE events[s]]

\* Variant: SocketInfo outlives the interest of curl.
RemoveSocketKept(ss) == CancelWaits(ss) /\ UNCHANGED action

\* socket_cb for REMOVE (remove_socket): drop SocketInfo, cancel the waits.
RemoveSocket(ss) ==
  /\ action' = [s \in Sockets |-> IF s \in ss THEN {} ELSE action[s]]
  /\ CancelWaits(ss)

\* close_socket, after the waits were cancelled: the socket leaves the map.
CloseSocket(ss) ==
  /\ socket_map' = socket_map \ ss
  /\ link' = [s \in Sockets |-> IF s \in ss THEN "closed" ELSE link[s]]
  /\ coming' = [s \in Sockets |-> IF s \in ss THEN 0 ELSE coming[s]]
  /\ avail' = [s \in Sockets |-> IF s \in ss THEN 0 ELSE avail[s]]

\* open_socket.
OpenSocket(s) ==
  /\ s \notin socket_map
  /\ socket_map' = socket_map \cup {s}
  /\ link' = [link EXCEPT ![s] = "pending"]
  /\ UNCHANGED <<coming, avail>>

----------------------------------------------------------------------------
(* Entering and leaving curl.                                              *)

\* addRequest: curl wants to be called at once for the new transfer.
AddHandle(h) ==
  /\ holder = NoHandle
  /\ phase' = [phase EXCEPT ![h] = "new"]
  /\ \E p \in 0 .. MaxPolls : polls' = [polls EXCEPT ![h] = p]
  /\ MultiTimerCb("now")
  /\ UNCHANGED <<sock, messages, holder, socketVars, requests_left, posted,
                 thread, netVars>>

\* A request may have a timeout; a connection always has one to be
\* established in (CURLOPT_CONNECTTIMEOUT).
HasDeadline(h) == Deadlines \/ phase[h] \in {"resolve", "connect"}

\* The transfers whose next timeout will come.
Timed == {h \in Running \ New : HasDeadline(h) \/ polls[h] > 0}

\* curl_multi_socket_action concerns the transfers of a socket, those just
\* added and those with a timeout that is over: a timer of theirs ("expired")
\* or their deadline ("late").  A timeout that was told is dealt with.
SocketAction(t, call, ready) ==
  \E expired \in SUBSET Timed : \E late \in SUBSET {h \in expired : HasDeadline(h) /\ polls[h] = 0} :
    /\ told = "past" => expired # {} \/ Timed = {}
    /\ \A h \in expired \ late : polls[h] > 0 \/ phase[h] = "resolve"
    /\ holder' = t
    /\ thread' = [thread EXCEPT ![t] =
         [Idle EXCEPT !.pc = "curl", !.call = call,
                      !.due = ready \cup New \cup expired, !.late = late]]
    /\ polls' = [h \in Handles |-> IF h \in expired /\ polls[h] > 0
                                   THEN polls[h] - 1 ELSE polls[h]]
    /\ told' = IF told = "later" THEN told ELSE "none"
    /\ UNCHANGED <<phase, sock, messages, armed, socket_map, action, waits,
                   requests_left, posted, netVars>>

\* timer_cb without an error; with one (the wait was cancelled) it returns.
TimerCb(t) ==
  /\ thread[t].pc = "idle" /\ timers > 0 /\ holder = NoHandle
  /\ timers' = timers - 1
  /\ SocketAction(t, "timer", {})
  /\ UNCHANGED events

\* event_cb, which does not look at its error.
EventCb(t, s, d) ==
  /\ thread[t].pc = "idle" /\ events[s][d] > 0 /\ holder = NoHandle
  /\ events' = [events EXCEPT ![s][d] = @ - 1]
  /\ SocketAction(t, "event", Using(s))
  /\ UNCHANGED timers

\* curl_multi_socket_action returns: _multi_mutex is released.
SocketActionReturns(t) ==
  /\ thread[t].pc = "curl" /\ thread[t].due = {}
  /\ holder' = NoHandle
  /\ thread' = [thread EXCEPT ![t].pc = "count", ![t].late = {},
                              ![t].left = Cardinality(Running)]
  /\ TellTimeout
  /\ UNCHANGED <<curlVars, socketVars, requests_left, posted, netVars>>

----------------------------------------------------------------------------
(* What curl does for a transfer h that a call of thread t concerns.       *)

Serves(t, h) ==
  /\ thread[t].pc = "curl" /\ h \in thread[t].due
  /\ thread' = [thread EXCEPT ![t].due = @ \ {h}]
  /\ UNCHANGED <<polls, timerVars, holder, requests_left, posted>>

InTime(t, h) == Serves(t, h) /\ h \notin thread[t].late
NeedsSocket(h) == phase[h] \in {"new", "resolve"}
TheSocket(h) == CHOOSE s \in sock[h] : TRUE

\* The transfer ends; its socket is kept for another one, or closed.
Ends(h, result, keep) ==
  /\ phase' = [phase EXCEPT ![h] = "done"]
  /\ messages' = messages \cup {<<h, result>>}
  /\ sock' = [sock EXCEPT ![h] = {}]
  /\ RemoveSocket(sock[h])
  /\ IF keep
     THEN /\ avail' = [s \in Sockets |-> IF s \in sock[h] THEN 0 ELSE avail[s]]
          /\ UNCHANGED <<socket_map, link, coming>>
     ELSE CloseSocket(sock[h])

\* The name of the host is looked up, by a thread of curl.
Resolving(t, h) ==
  /\ InTime(t, h) /\ NeedsSocket(h)
  /\ phase[h] = "resolve" => polls[h] > 0
  /\ phase' = [phase EXCEPT ![h] = "resolve"]
  /\ UNCHANGED <<sock, messages, socketVars, netVars>>

Connect(t, h, s) ==
  /\ InTime(t, h) /\ NeedsSocket(h)
  /\ OpenSocket(s)
  /\ phase' = [phase EXCEPT ![h] = "connect"]
  /\ sock' = [sock EXCEPT ![h] = {s}]
  /\ SetSocket(s, {"out"}, socket_map')
  /\ UNCHANGED messages

\* No address, or open_socket returned CURL_SOCKET_BAD, or a malformed URL.
CannotConnect(t, h) ==
  /\ InTime(t, h) /\ NeedsSocket(h)
  /\ Ends(h, "error", TRUE)

\* A request with a body waits for both directions until it is written.
StartsRequest(h, s) ==
  \/ /\ phase' = [phase EXCEPT ![h] = "send"]
     /\ SetSocket(s, {"in", "out"}, socket_map)
     /\ UNCHANGED coming
  \/ /\ phase' = [phase EXCEPT ![h] = "recv"]
     /\ \E n \in 1 .. Portions : coming' = [coming EXCEPT ![s] = n]
     /\ SetSocket(s, {"in"}, socket_map)

\* A connection that an earlier transfer left open is used again,
Reuse(t, h, s) ==
  /\ InTime(t, h) /\ NeedsSocket(h)
  /\ s \in Cached /\ link[s] = "up"
  /\ sock' = [sock EXCEPT ![h] = {s}]
  /\ StartsRequest(h, s)
  /\ UNCHANGED <<messages, socket_map, link, avail>>

\* or closed, when it is broken.
CloseBroken(t, s) ==
  /\ thread[t].pc = "curl" /\ \E h \in thread[t].due : NeedsSocket(h)
  /\ s \in Cached /\ link[s] = "broken"
  /\ RemoveSocket({s}) /\ CloseSocket({s})
  /\ UNCHANGED <<curlVars, timerVars, holder, requests_left, posted, thread>>

Connected(t, h) ==
  /\ InTime(t, h) /\ phase[h] = "connect" /\ link[TheSocket(h)] = "up"
  /\ StartsRequest(h, TheSocket(h))
  /\ UNCHANGED <<sock, messages, socket_map, link, avail>>

\* The whole request is written: from now on only the response is awaited.
Sent(t, h) ==
  /\ InTime(t, h) /\ phase[h] = "send" /\ link[TheSocket(h)] = "up"
  /\ phase' = [phase EXCEPT ![h] = "recv"]
  /\ \E n \in 1 .. Portions : coming' = [coming EXCEPT ![TheSocket(h)] = n]
  /\ SetSocket(TheSocket(h), {"in"}, socket_map)
  /\ UNCHANGED <<sock, messages, socket_map, link, avail>>

\* Nothing to do: a wakeup without cause.
Nothing(t, h) ==
  /\ InTime(t, h)
  /\ \/ phase[h] = "connect" /\ link[TheSocket(h)] = "pending"
     \/ /\ phase[h] = "recv" /\ link[TheSocket(h)] = "up"
        /\ avail[TheSocket(h)] = 0
  /\ UNCHANGED <<phase, sock, messages, socketVars, netVars>>

\* curl reads what there is and goes on waiting for the rest: what it waits
\* for has not changed, so that it does not call socket_cb.
ReadPortion(t, h) ==
  /\ InTime(t, h) /\ phase[h] = "recv"
  /\ avail[TheSocket(h)] > 0 /\ coming[TheSocket(h)] > 0
  /\ avail' = [avail EXCEPT ![TheSocket(h)] = 0]
  /\ UNCHANGED <<phase, sock, messages, socketVars, link, coming>>

ReadLast(t, h) ==
  /\ InTime(t, h) /\ phase[h] = "recv"
  /\ avail[TheSocket(h)] > 0 /\ coming[TheSocket(h)] = 0
  /\ \E keep \in BOOLEAN : Ends(h, "ok", keep)

Broken(t, h) ==
  /\ InTime(t, h) /\ phase[h] \in {"connect", "send", "recv"}
  /\ link[TheSocket(h)] = "broken"
  /\ phase[h] = "recv" => avail[TheSocket(h)] = 0
  /\ Ends(h, "error", FALSE)

\* readBody got no memory: by returning 0 it ends the transfer.
BodyRefused(t, h) ==
  /\ InTime(t, h) /\ phase[h] = "recv" /\ avail[TheSocket(h)] > 0
  /\ Ends(h, "error", FALSE)

\* The deadline of the request (CURLOPT_TIMEOUT_MS) or of its connection
\* (CURLOPT_CONNECTTIMEOUT) is over.
TimedOut(t, h) ==
  /\ Serves(t, h) /\ h \in thread[t].late
  /\ Ends(h, "error", FALSE)

CurlStep(t) ==
  \E h \in Handles :
    \/ Resolving(t, h) \/ CannotConnect(t, h) \/ Connected(t, h) \/ Sent(t, h)
    \/ Nothing(t, h) \/ ReadPortion(t, h) \/ ReadLast(t, h)
    \/ Broken(t, h) \/ BodyRefused(t, h) \/ TimedOut(t, h)
    \/ \E s \in Sockets : Connect(t, h, s) \/ Reuse(t, h, s)

----------------------------------------------------------------------------
(* check_multi_info and the rest of timer_cb and event_cb.                 *)

\* Variant: only a count above 0 is kept.
CountRunning(t) ==
  /\ thread[t].pc = "count"
  /\ requests_left' = IF thread[t].left > 0 THEN thread[t].left ELSE requests_left
  /\ thread' = [thread EXCEPT ![t].pc = "info"]
  /\ UNCHANGED <<curlVars, timerVars, holder, socketVars, posted, netVars>>

\* Variant: a transfer that has just ended is not counted.
CountOthers(t) ==
  /\ thread[t].pc = "count"
  /\ requests_left' = thread[t].left - Cardinality(messages)
  /\ thread' = [thread EXCEPT ![t].pc = "info"]
  /\ UNCHANGED <<curlVars, timerVars, holder, socketVars, posted, netVars>>

\* The number of running transfers, as it was when curl returned.
Count(t) ==
  /\ thread[t].pc = "count"
  /\ requests_left' = thread[t].left
  /\ thread' = [thread EXCEPT ![t].pc = "info"]
  /\ UNCHANGED <<curlVars, timerVars, holder, socketVars, posted, netVars>>

\* Variant: the timer is stopped one transfer too early.
AfterInfoEarly(t) ==
  IF thread[t].call = "event" /\ thread[t].left <= 1
  THEN [thread[t] EXCEPT !.pc = "kill"] ELSE Idle

\* The last transfer that ended stops the timer, in event_cb only.
AfterInfo(t) ==
  IF thread[t].call = "event" /\ thread[t].left <= 0
  THEN [thread[t] EXCEPT !.pc = "kill"] ELSE Idle

\* curl_multi_info_read.
ReadInfo(t) ==
  /\ thread[t].pc = "info" /\ holder = NoHandle
  /\ \/ /\ messages = {}
        /\ thread' = [thread EXCEPT ![t] = AfterInfo(t)]
        /\ UNCHANGED messages
     \/ \E m \in messages :
          /\ messages' = messages \ {m}
          /\ thread' = [thread EXCEPT ![t].pc = "remove", ![t].easy = m[1],
                                      ![t].result = m[2]]
  /\ UNCHANGED <<phase, sock, polls, timerVars, holder, socketVars,
                 requests_left, posted, netVars>>

\* Variant: the easy handle stays in the multi handle.
RemovedFromMultiNot(h) == phase

\* curl_multi_remove_handle.
RemovedFromMulti(h) == [phase EXCEPT ![h] = "out"]

\* Remove the handle from curl and post its result.
RemoveHandle(t) ==
  /\ thread[t].pc = "remove" /\ holder = NoHandle
  /\ phase' = RemovedFromMulti(thread[t].easy)
  /\ TellTimeout
  /\ posted' = posted \cup {<<thread[t].easy, thread[t].result>>}
  /\ thread' = [thread EXCEPT ![t].pc = "info", ![t].easy = NoHandle,
                              ![t].result = "ok"]
  /\ UNCHANGED <<sock, polls, messages, holder, socketVars, requests_left, netVars>>

\* The end of event_cb, without _multi_mutex.
KillTimer(t) ==
  /\ thread[t].pc = "kill"
  /\ armed' = FALSE
  /\ thread' = [thread EXCEPT ![t] = Idle]
  /\ UNCHANGED <<curlVars, told, timers, holder, socketVars, requests_left, posted,
                 netVars>>

MultiStep(t) ==
  \/ TimerCb(t)
  \/ \E s \in Sockets, d \in Directions : EventCb(t, s, d)
  \/ CurlStep(t)
  \/ \E s \in Sockets : CloseBroken(t, s)
  \/ SocketActionReturns(t)
  \/ Count(t) \/ ReadInfo(t) \/ RemoveHandle(t) \/ KillTimer(t)

----------------------------------------------------------------------------
(* The io_service and the network.                                         *)

\* The timer expires: the time that curl asked for has passed.
TimerExpires ==
  /\ armed /\ Timed # {}
  /\ armed' = FALSE /\ told' = "past" /\ timers' = timers + 1
  /\ UNCHANGED <<curlVars, holder, socketVars, requests_left, posted, thread, netVars>>

Ready(s, d) ==
  \/ link[s] = "broken"
  \/ d = "out" /\ link[s] = "up"
  \/ d = "in" /\ avail[s] > 0

\* A wait is over, once: only set_socket starts another one.
WaitCompletes(s, d) ==
  /\ waits[s][d] > 0 /\ Ready(s, d)
  /\ waits' = [waits EXCEPT ![s][d] = @ - 1]
  /\ events' = [events EXCEPT ![s][d] = @ + 1]
  /\ UNCHANGED <<curlVars, timerVars, holder, socket_map, action, requests_left,
                 posted, thread, netVars>>

Establish(s) ==
  /\ link[s] = "pending"
  /\ link' = [link EXCEPT ![s] = "up"]
  /\ UNCHANGED <<coming, avail>>

\* The server sends a portion of the response.
Deliver(s) ==
  /\ link[s] = "up" /\ coming[s] > 0
  /\ coming' = [coming EXCEPT ![s] = @ - 1]
  /\ avail' = [avail EXCEPT ![s] = @ + 1]
  /\ UNCHANGED link

\* The connection is refused or lost; what arrived can still be read.
Break(s) ==
  /\ link[s] \in {"pending", "up"}
  /\ link' = [link EXCEPT ![s] = "broken"]
  /\ UNCHANGED <<coming, avail>>

Network ==
  /\ \E s \in Sockets : Establish(s) \/ Deliver(s) \/ Break(s)
  /\ UNCHANGED <<curlVars, timerVars, holder, socketVars, requests_left, posted, thread>>

============================================================================
