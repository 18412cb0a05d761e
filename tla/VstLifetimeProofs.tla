------------------------- MODULE VstLifetimeProofs --------------------------
(***************************************************************************)
(* Proofs about the end of a connection: as long as a VstConnection        *)
(* exists, the invariants of its loops hold, and they say that loops which *)
(* nobody works on are not current.  So the cycle of shared_ptrs between a *)
(* connection and its loops is always broken, and never too early.         *)
(***************************************************************************)
EXTENDS VstWakeupProofs, VstLifetime

\* The steps of a connection that exists are those of VstSystem; the calls of
\* the destructor come after them.
LifeInv ==
  /\ holding \subseteq Users
  /\ exists => ReadInv /\ WriteInv
  /\ NothingLeaks

\* Without threads at work, operations and timers, no loop is current: a
\* current loop that nobody goes on with has an operation in progress.
LEMMA NoLoopWithoutWork ==
  ASSUME ReadInv, WriteInv, Resting, ~Work
  PROVE  readCur = NoLoop /\ writeCur = NoLoop
  <1>1. ~BusyOn(ReadCalls, readCur) /\ ~BusyOn(WriteCalls, writeCur)
    BY RestingIsIdle
  <1>2. readCur = NoLoop
    <2> SUFFICES ASSUME readCur # NoLoop PROVE FALSE
      OBVIOUS
    <2>1. readCur \in Loops
      BY DEF ReadInv, TypeOK
    <2> QED BY <1>1, <2>1 DEF ReadInv, ReaderRuns, Work
  <1>3. writeCur = NoLoop
    <2> SUFFICES ASSUME writeCur # NoLoop PROVE FALSE
      OBVIOUS
    <2>1. writeCur \in Loops
      BY DEF WriteInv, TypeOK
    <2> QED BY <1>1, <2>1 DEF ReadInv, WriteInv, WriterRuns, Work
  <1> QED BY <1>2, <1>3

\* The last reference is dropped only when nothing waits for a response.
LEMMA DropsDrained ==
  ASSUME ReadInv, ~Referenced, Alive
  PROVE  store = {}
  <1>1. Resting /\ readCur = NoLoop
    BY DEF Referenced, Resting, Idle, Alive
  <1>2. ~Busy(WatchOps)
    BY <1>1, RestingIsIdle
  <1> QED BY <1>1, <1>2 DEF ReadInv, ReaderComes

\* A step of the lifetime is a step of the connection, which leaves its
\* references alone, or one that changes references only, or the destructor.
LEMMA LifeSteps ==
  ASSUME holding \subseteq Users, [LifeNext]_allVars
  PROVE  \/ [Next]_vars /\ UNCHANGED <<exists, service>> /\ holding' \subseteq Users
         \/ [Next]_vars /\ exists' = exists /\ holding' = holding /\ Joined
         \/ exists' = FALSE /\ ~Referenced /\ Alive /\ UNCHANGED <<holding, service>>
  <1>1. CASE \/ \E t \in holding : SendRequest(t) /\ UNCHANGED lifeVars
             \/ (\E t \in Threads : Run(t)) /\ UNCHANGED lifeVars
             \/ (\E t \in IoThreads : Dispatch(t)) /\ UNCHANGED lifeVars
             \/ (Completion \/ Expiry \/ Server \/ Fault) /\ UNCHANGED lifeVars
    BY <1>1 DEF Next, lifeVars
  <1>2. CASE UNCHANGED allVars
    BY <1>2 DEF allVars, lifeVars
  <1>3. CASE \E t \in Users : Release(t)
    BY <1>3 DEF Release
  <1>4. CASE \E t \in Threads : Destroy(t)
    BY <1>4 DEF Destroy
  <1>5. CASE Joined
    BY <1>5 DEF Joined
  <1> QED BY <1>1, <1>2, <1>3, <1>4, <1>5 DEF LifeNext

\* The invariant is inductive.
LEMMA LifeStep ==
  ASSUME ~Auth PROVE LifeInv /\ [LifeNext]_allVars => LifeInv'
  <1> SUFFICES ASSUME LifeInv, [LifeNext]_allVars PROVE LifeInv'
    OBVIOUS
  <1>1. CASE [Next]_vars /\ UNCHANGED <<exists, service>> /\ holding' \subseteq Users
    BY <1>1, ReadStep, WriteStep DEF LifeInv, NothingLeaks
  <1>2. CASE [Next]_vars /\ exists' = exists /\ holding' = holding /\ Joined
    <2>1. exists => ReadInv' /\ WriteInv'
      BY <1>2, ReadStep, WriteStep DEF LifeInv
    <2>2. ~exists
      <3> SUFFICES ASSUME exists PROVE FALSE
        OBVIOUS
      <3>1. ReadInv /\ WriteInv /\ Resting /\ ~Work /\ Referenced /\ holding = {}
        BY <1>2 DEF LifeInv, Joined
      <3>2. readCur = NoLoop /\ writeCur = NoLoop
        BY <3>1, NoLoopWithoutWork
      <3> QED BY <3>1, <3>2 DEF Referenced, Resting, Idle, ReadInv
    <2> QED BY <1>2, <2>1, <2>2 DEF LifeInv, NothingLeaks
  <1>3. CASE exists' = FALSE /\ ~Referenced /\ Alive /\ UNCHANGED <<holding, service>>
    BY <1>3 DEF LifeInv, NothingLeaks
  <1> QED BY <1>1, <1>2, <1>3, LifeSteps DEF LifeInv

\* The invariant holds at first.
LEMMA LifeStart == LifeInit => LifeInv
  BY ReadInit, WriteInit DEF LifeInit, LifeInv, NothingLeaks

\* The invariant holds throughout.
LEMMA LifeInductive ==
  ASSUME ~Auth PROVE LifeSpec => []LifeInv
  BY LifeStep, LifeStart, PTL DEF LifeSpec

\* No connection leaks: when the io threads have run out of work after the
\* users dropped a connection, it was destroyed, whatever faults, timeouts and
\* restarts there were.  Proved without authentication: a failed one ends the
\* loops and leaves them current.
THEOREM NoConnectionLeaks ==
  ASSUME ~Auth PROVE LifeSpec => []NothingLeaks
  <1>1. LifeInv => NothingLeaks
    BY DEF LifeInv
  <1> QED BY <1>1, LifeInductive, PTL

\* No connection is destroyed too early: the destructor, which would cancel
\* what is in the message store, finds it empty, because the read loop holds
\* a reference until all requests are answered.
THEOREM DrainedWhenDestroyed ==
  ASSUME ~Auth PROVE LifeSpec => DestroyedDrained
  <1>1. LifeInv /\ [LifeNext]_allVars => [exists /\ ~exists' => store = {}]_allVars
    <2> SUFFICES ASSUME LifeInv, [LifeNext]_allVars, exists, ~exists' PROVE store = {}
      OBVIOUS
    <2>1. ~Referenced /\ Alive
      BY LifeSteps DEF LifeInv
    <2> QED BY <2>1, DropsDrained DEF LifeInv
  <1> QED BY <1>1, LifeInductive, PTL DEF LifeSpec, DestroyedDrained

=============================================================================
