-------------------------- MODULE WaitGroupProofs --------------------------
(***************************************************************************)
(* wait() returns only when nothing refers to the WaitGroup any more, for  *)
(* any number of events.                                                   *)
(***************************************************************************)
EXTENDS WaitGroup, FiniteSetTheorems, TLAPS

\* The events that were added and have not counted down yet.
Pending == {e \in Events : event[e] \in {"started", "stored"}}

\* The counter counts the pending events, done() holds the mutex while it
\* notifies, and all events are added before the waiter waits.
IndInv ==
  /\ waiter \in WaiterStates /\ event \in [Events -> EventStates]
  /\ counter = Cardinality(Pending)
  /\ holding = {e \in Events : event[e] \in {"counted", "notified"}}
  /\ waiter # "adding" => \A e \in Events : event[e] # "new"
  /\ ReturnIsSafe

\* The counter of a set of pending events is a number of events, and is 0
\* only when none is pending.
LEMMA CounterRange ==
  IndInv => /\ counter \in 0 .. Cardinality(Events)
            /\ counter = 0 => Pending = {}
  <1> SUFFICES ASSUME IndInv PROVE /\ counter \in 0 .. Cardinality(Events)
                                   /\ counter = 0 => Pending = {}
    OBVIOUS
  <1>1. Pending \subseteq Events
    BY DEF Pending
  <1>2. IsFiniteSet(Pending) /\ Cardinality(Pending) <= Cardinality(Events)
    BY <1>1, EventsAssumption, FS_Subset
  <1>3. Cardinality(Pending) \in Nat /\ Cardinality(Events) \in Nat
    BY <1>2, EventsAssumption, FS_CardinalityType
  <1>4. Cardinality(Pending) = 0 => Pending = {}
    BY <1>2, FS_EmptySet
  <1> QED BY <1>2, <1>3, <1>4 DEF IndInv

\* Where no event is new, pending or in done(), every event is over.
LEMMA AllOver ==
  ASSUME IndInv, Free, counter = 0, \A e \in Events : event[e] # "new"
  PROVE  \A e \in Events : event[e] = "over"
  <1>1. Pending = {}
    BY CounterRange
  <1> QED BY <1>1 DEF IndInv, Free, Pending, EventStates

\* The constructor.
LEMMA InvInit == Init => IndInv
  <1> SUFFICES ASSUME Init PROVE IndInv
    OBVIOUS
  <1>1. Pending = {}
    BY DEF Init, Pending
  <1>2. counter = Cardinality(Pending)
    BY <1>1, FS_EmptySet DEF Init
  <1> QED BY <1>2 DEF Init, IndInv, WaiterStates, EventStates, ReturnIsSafe

\* Every step of the waiter and of the callbacks keeps the invariant.
LEMMA InvStep == IndInv /\ [Next]_vars => IndInv'
  <1> SUFFICES ASSUME IndInv, [Next]_vars PROVE IndInv'
    OBVIOUS
  <1>0. IsFiniteSet(Pending) /\ Cardinality(Pending) \in Nat
    <2>1. Pending \subseteq Events
      BY DEF Pending
    <2> QED BY <2>1, EventsAssumption, FS_Subset, FS_CardinalityType
  <1>1. CASE Wait
    <2>1. Pending' = Pending
      BY <1>1 DEF Wait, Pending
    <2>2. CASE counter = 0
      <3>1. \A e \in Events : event[e] = "over"
        BY <1>1, <2>2, AllOver DEF Wait
      <3> QED BY <1>1, <2>1, <2>2, <3>1 DEF Wait, IndInv, WaiterStates, ReturnIsSafe
    <2>3. CASE counter # 0
      BY <1>1, <2>1, <2>3 DEF Wait, IndInv, WaiterStates, ReturnIsSafe
    <2> QED BY <2>2, <2>3
  <1>2. CASE SpuriousWakeup
    BY <1>2 DEF SpuriousWakeup, IndInv, Pending, WaiterStates, ReturnIsSafe
  <1>3. CASE Recheck \/ TimeOut
    <2>1. Pending' = Pending
      BY <1>3 DEF Recheck, TimeOut, Pending
    <2>2. CASE counter = 0
      <3>1. \A e \in Events : event[e] = "over"
        BY <1>3, <2>2, AllOver DEF Recheck, TimeOut, IndInv
      <3> QED BY <1>3, <2>1, <2>2, <3>1
             DEF Recheck, TimeOut, IndInv, WaiterStates, ReturnIsSafe
    <2>3. CASE counter # 0
      BY <1>3, <2>1, <2>3 DEF Recheck, TimeOut, IndInv, WaiterStates, ReturnIsSafe
    <2> QED BY <2>2, <2>3
  <1>4. ASSUME NEW e \in Events, Start(e)
        PROVE  IndInv'
    <2>1. Pending' = Pending \cup {e} /\ e \notin Pending
      BY <1>4 DEF Start, Pending, IndInv
    <2>2. Cardinality(Pending') = Cardinality(Pending) + 1
      BY <1>0, <2>1, FS_AddElement
    <2> QED BY <1>4, <2>2 DEF Start, IndInv, WaiterStates, EventStates, ReturnIsSafe
  <1>5. ASSUME NEW e \in Events, Store(e)
        PROVE  IndInv'
    <2>1. Pending' = Pending
      BY <1>5 DEF Store, Pending, IndInv
    <2> QED BY <1>5, <2>1 DEF Store, IndInv, EventStates, ReturnIsSafe
  <1>6. ASSUME NEW e \in Events, Done(e)
        PROVE  IndInv'
    <2>1. Pending' = Pending \ {e} /\ e \in Pending
      BY <1>6 DEF Done, Pending, IndInv
    <2>2. Cardinality(Pending') = Cardinality(Pending) - 1
      BY <1>0, <2>1, FS_RemoveElement
    <2> QED BY <1>6, <2>2 DEF Done, Free, IndInv, EventStates, ReturnIsSafe
  <1>7. ASSUME NEW e \in Events, Notify(e) \/ Unlock(e)
        PROVE  IndInv'
    <2>1. Pending' = Pending
      BY <1>7 DEF Notify, Unlock, Pending, IndInv
    <2>2. counter' = Cardinality(Pending')
      BY <1>7, <2>1 DEF Notify, Unlock, IndInv
    <2> QED BY <1>7, <2>2 DEF Notify, Unlock, IndInv, WaiterStates, EventStates, ReturnIsSafe
  <1>8. CASE UNCHANGED vars
    BY <1>8 DEF vars, IndInv, Pending, ReturnIsSafe
  <1> QED BY <1>1, <1>2, <1>3, <1>4, <1>5, <1>6, <1>7, <1>8 DEF Next, Callback

\* For any number of events and with or without a timeout, when wait() or
\* wait_for() returns with the events done, every callback has left done()
\* and stored its result: the WaitGroup and the results can go.
THEOREM ReturnSafe == Spec => []ReturnIsSafe
  <1>1. IndInv => ReturnIsSafe
    BY DEF IndInv
  <1> QED BY <1>1, InvInit, InvStep, PTL DEF Spec

\* The counter never becomes negative and the states are what they should be.
THEOREM TypeCorrect == Spec => []TypeOK
  <1>1. IndInv => TypeOK
    BY CounterRange DEF IndInv, TypeOK
  <1> QED BY <1>1, InvInit, InvStep, PTL DEF Spec
============================================================================
