----------------------------- MODULE WaitGroup -----------------------------
(***************************************************************************)
(* WaitGroup and WaitGroupDone (include/fuerte/waitgroup.h) as the         *)
(* synchronous Connection::sendRequest (src/connection.cpp) and callers of *)
(* the asynchronous one use them: a waiter on whose stack the WaitGroup    *)
(* and the results live adds an event per request, then waits; the thread  *)
(* that runs a request's callback stores a result and calls done().  The   *)
(* WaitGroup is gone as soon as the waiter returns.                        *)
(***************************************************************************)
EXTENDS Integers, FiniteSets

CONSTANTS
  Events,      \* the requests that are waited for, each with its callback
  Timed        \* wait_for instead of wait

ASSUME EventsAssumption == IsFiniteSet(Events)
ASSUME TimedAssumption == Timed \in BOOLEAN

VARIABLES
  waiter,      \* "adding", "blocked", "woken", "finished" or "timedOut"
  event,       \* per event: how far its callback is
  counter,     \* _counter
  holding      \* the event, if any, whose callback holds _mutex in done()

vars == <<waiter, event, counter, holding>>

WaiterStates == {"adding", "blocked", "woken", "finished", "timedOut"}
EventStates  == {"new", "started", "stored", "counted", "notified", "over"}

Free == holding = {}

Init == /\ waiter = "adding"
        /\ event = [e \in Events |-> "new"]
        /\ counter = 0
        /\ holding = {}

----------------------------------------------------------------------------
(* The waiter.                                                             *)

\* Variant: the event is counted only when its callback has already begun.
StartUncounted(e) ==
  /\ waiter = "adding" /\ Free /\ event[e] = "new"
  /\ event' = [event EXCEPT ![e] = "started"]
  /\ UNCHANGED <<waiter, counter, holding>>

\* add(), then sendRequest: from here on the callback may run.
Start(e) ==
  /\ waiter = "adding" /\ Free /\ event[e] = "new"
  /\ counter' = counter + 1
  /\ event' = [event EXCEPT ![e] = "started"]
  /\ UNCHANGED <<waiter, holding>>

\* wait() and wait_for(): return at once, or release the mutex and block.
Wait ==
  /\ waiter = "adding" /\ Free
  /\ \A e \in Events : event[e] # "new"
  /\ waiter' = IF counter = 0 THEN "finished" ELSE "blocked"
  /\ UNCHANGED <<event, counter, holding>>

\* The condition variable wakes the waiter without being notified.
SpuriousWakeup ==
  /\ waiter = "blocked"
  /\ waiter' = "woken"
  /\ UNCHANGED <<event, counter, holding>>

\* The predicate, with the mutex taken again.
Recheck ==
  /\ waiter = "woken" /\ Free
  /\ waiter' = IF counter = 0 THEN "finished" ELSE "blocked"
  /\ UNCHANGED <<event, counter, holding>>

\* wait_for gives up: its result is the predicate at that moment.
TimeOut ==
  /\ Timed /\ waiter \in {"blocked", "woken"} /\ Free
  /\ waiter' = IF counter = 0 THEN "finished" ELSE "timedOut"
  /\ UNCHANGED <<event, counter, holding>>

----------------------------------------------------------------------------
(* The callback of event e, which holds a WaitGroupDone.                   *)

\* The callback stores its result in variables of the waiter.
Store(e) ==
  /\ event[e] = "started"
  /\ event' = [event EXCEPT ![e] = "stored"]
  /\ UNCHANGED <<waiter, counter, holding>>

\* Variant: the mutex is released before the waiter is notified.
DoneUnlocked(e) ==
  /\ event[e] = "stored" /\ Free
  /\ counter' = counter - 1
  /\ event' = [event EXCEPT ![e] = "counted"]
  /\ UNCHANGED <<waiter, holding>>

\* done(), called by ~WaitGroupDone: take the mutex and count down,
Done(e) ==
  /\ event[e] = "stored" /\ Free
  /\ holding' = {e}
  /\ counter' = counter - 1
  /\ event' = [event EXCEPT ![e] = "counted"]
  /\ UNCHANGED waiter

\* Variant: the last event but one notifies.
IsLastEarly == counter = 1

\* the event that brings the counter to 0 notifies,
IsLast == counter = 0

Notify(e) ==
  /\ event[e] = "counted"
  /\ event' = [event EXCEPT ![e] = "notified"]
  /\ waiter' = IF IsLast /\ waiter = "blocked" THEN "woken" ELSE waiter
  /\ UNCHANGED <<counter, holding>>

\* release the mutex.
Unlock(e) ==
  /\ event[e] = "notified"
  /\ event' = [event EXCEPT ![e] = "over"]
  /\ holding' = holding \ {e}
  /\ UNCHANGED <<waiter, counter>>

Callback(e) == Store(e) \/ Done(e) \/ Notify(e) \/ Unlock(e)

Next == \/ Wait \/ SpuriousWakeup \/ Recheck \/ TimeOut
        \/ \E e \in Events : Start(e) \/ Callback(e)

Spec == Init /\ [][Next]_vars

(* The waiter's thread and the threads that run callbacks are scheduled;   *)
(* nothing is assumed of spurious wakeups and timeouts.                    *)
Fairness == /\ WF_vars(Wait) /\ WF_vars(Recheck)
            /\ \A e \in Events : WF_vars(Start(e)) /\ WF_vars(Callback(e))

FairSpec == Spec /\ Fairness

----------------------------------------------------------------------------
(* Properties.                                                             *)

\* The states of the waiter, of the callbacks and of the mutex; the counter
\* stays between 0 and the number of events.
TypeOK ==
  /\ waiter \in WaiterStates
  /\ event \in [Events -> EventStates]
  /\ counter \in 0 .. Cardinality(Events)
  /\ holding \subseteq Events

\* When wait() (or wait_for() with true) returns, every result is stored and
\* no callback still uses the mutex, the condition variable or the results,
\* which live on the waiter's stack.
ReturnIsSafe == waiter = "finished" => \A e \in Events : event[e] = "over"

\* wait() returns once every event was started: no notification is lost.
WaitReturns == <>(waiter \in {"finished", "timedOut"})
============================================================================
