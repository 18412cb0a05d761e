---------------------------- MODULE VstCallbacks ----------------------------
(***************************************************************************)
(* A VstConnection whose users send their next request from the callback   *)
(* of the one before, on the thread of the io_service that called it.      *)
(* processChunk and asyncWriteCallback call back without a lock; cancelAll *)
(* calls back while it holds the mutex of the message store.               *)
(***************************************************************************)
EXTENDS VstSystem

VARIABLE callback  \* per thread: the user's callback it is in

callVars == <<vars, callback>>

(* A callback runs, or is inside sendRequest; the calls below it on the    *)
(* stack of its thread; whether that thread holds MessageStore::_mutex.    *)
Callback == [state: {"none", "running", "sending"}, below: Nat, locked: BOOLEAN]
NoCallback == [state |-> "none", below |-> 0, locked |-> FALSE]

CallInit == Init /\ callback = [t \in Threads |-> NoCallback]

\* The calls that lock the store's mutex, which is not recursive.
StoreCalls == {"addToStore", "readNextBytes", "findByID", "removeByID", "cancelAll"}
StoreMutexFree == \A t \in Threads : ~callback[t].locked

\* Variant: processChunk calls back before it unlocks the store.
LockedCallsAlways == {"cancelAll", "invoke"}

\* The calls that call back with the store's mutex locked.
LockedCalls == {"cancelAll"}

\* The step calls the callback of a user's request, while users have
\* something left to send.
CallsBack ==
  /\ \E i \in IDs \ authIDs : outcome[i] = "none" /\ outcome'[i] # "none"
  /\ nextID - Cardinality(authIDs) < MaxRequests

\* One call of thread t, which may wait for the store's mutex.  The callback
\* returns together with its sendRequest.
RunLocked(t) ==
  /\ callback[t].state # "running"
  /\ Run(t)
  /\ Now(t).op \in StoreCalls => StoreMutexFree
  /\ callback' = [callback EXCEPT ![t] =
                    IF CallsBack
                    THEN [state |-> "running", below |-> Len(todo'[t]),
                          locked |-> Now(t).op \in LockedCalls]
                    ELSE IF Len(todo'[t]) = @.below THEN NoCallback ELSE @]

\* The callback calls sendRequest,
SendFromCallback(t) ==
  /\ Alive /\ callback[t].state = "running"
  /\ nextID - Cardinality(authIDs) < MaxRequests
  /\ NewItem
  /\ todo' = [todo EXCEPT ![t] = SendCalls(nextID + 1) \o @]
  /\ callback' = [callback EXCEPT ![t].state = "sending"]
  /\ UNCHANGED <<authIDs, sent, chunks, outcome, handed, queueVars, connVars, loopVars,
                 outsideVars>>

\* or returns.
CallbackReturns(t) ==
  /\ Alive /\ callback[t].state = "running"
  /\ callback' = [callback EXCEPT ![t] = NoCallback]
  /\ UNCHANGED vars

InCallback(t) == SendFromCallback(t) \/ CallbackReturns(t)

DispatchFree(t) == callback[t] = NoCallback /\ Dispatch(t) /\ UNCHANGED callback
Outside == (Completion \/ Expiry \/ Server \/ Fault) /\ UNCHANGED callback

CallNext ==
  \/ (\E t \in Users : SendRequest(t)) /\ UNCHANGED callback
  \/ \E t \in Threads : RunLocked(t) \/ InCallback(t)
  \/ \E t \in IoThreads : DispatchFree(t)
  \/ Outside

(* As ServedSpec, and callbacks return.                                    *)
CallSpec ==
  /\ CallInit /\ [][CallNext]_callVars
  /\ \A t \in Threads : WF_callVars(RunLocked(t)) /\ WF_callVars(InCallback(t))
  /\ \A t \in IoThreads : WF_callVars(DispatchFree(t))
  /\ WF_callVars(Completion /\ UNCHANGED callback)
  /\ WF_callVars(Expiry /\ UNCHANGED callback)
  /\ WF_callVars(Server /\ UNCHANGED callback)

----------------------------------------------------------------------------
(* Properties.                                                             *)

\* connection.h: "Send a request to the server and return immediately": a
\* callback that sends a request, which a thread of the io_service runs, comes
\* back from sendRequest.
SendReturns ==
  \A t \in IoThreads :
    callback[t].state = "sending" ~> (callback[t].state # "sending" \/ crash # "no")
=============================================================================
