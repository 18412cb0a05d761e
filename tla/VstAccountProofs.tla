-------------------------- MODULE VstAccountProofs --------------------------
(***************************************************************************)
(* Proofs that no request is lost between the hands it passes through, and *)
(* that VstConnection implements Connection, with and without              *)
(* authentication; and that the callback is given its request back.        *)
(***************************************************************************)
EXTENDS VstSystemProofs, FiniteSetTheorems

----------------------------------------------------------------------------
(* The inductive invariant.                                                *)

\* Calls that end in a callback or in the restart of the connection: they
\* know what the callback will be called with.
ErrOps == {"removeByID", "moveRequest", "invoke", "restartRead", "restartWrite", "restart",
           "cancelAll"}
Failing == \A t \in Threads : \A c \in CallsOf(t) : c.op \in ErrOps => c.err # "none"

\* Wherever an item can be met, it was numbered before.
Around == Queued \cup store \cup InCall(ItemCalls) \cup OnTheWay \cup Answered
Known == Around \cup authIDs \subseteq 1 .. nextID

\* The write loop's mutex has one holder.  Its item is the first of the
\* queue, unless an authentication request was put before it meanwhile.
Guarded ==
  /\ \A t \in Threads : \A c \in Below(t) : c.op \notin HeadOps
  /\ \A t, u \in Threads : \A c \in CallsOf(t), d \in CallsOf(u) :
       c.op \in LockOps /\ d.op \in LockOps => t = u
  /\ \A t \in Threads : \A c \in CallsOf(t) :
       c.op \in LockOps => sendQueue # <<>> /\ Head(sendQueue) \in {c.id} \cup authIDs

\* Items that can be forgotten by the queue: they are stored, about to be
\* called back, or answered.
Safe == Answered \cup store \cup InCall(MoveOps)

\* The item that leaves the queue next was stored before.
Taken == \A t \in Threads : \A c \in CallsOf(t) : c.op = "removeFirst" => c.id \in Safe

\* The requests of users are safe, queued, or about to be queued.
Kept == (1 .. nextID) \ authIDs \subseteq Safe \cup Queued \cup InCall({"enqueue"})

AccInv == TypeOK /\ Failing /\ Known /\ Guarded /\ Taken /\ Kept

----------------------------------------------------------------------------
(* What a step does to the calls of the threads.                           *)

\* Thread t replaces the calls old on its stack by top, and by rest below it.
Moves(t, old, top, rest) ==
  /\ CallsOf(t)' = top \cup rest \cup Below(t)
  /\ Below(t)' \subseteq rest \cup Below(t)
  /\ CallsOf(t) = old \cup Below(t)
  /\ \A u \in Threads \ {t} : CallsOf(u)' = CallsOf(u) /\ Below(u)' = Below(u)

\* The current call returns, makes one call, or makes several.
LEMMA ThenMoves ==
  ASSUME todo \in [Threads -> Seq(Call)], NEW t \in Threads, todo[t] # <<>>
  PROVE  /\ Return(t) => Moves(t, {Now(t)}, {}, {})
         /\ \A a : Then(t, <<a>>) => Moves(t, {Now(t)}, {a}, {})
         /\ \A a, b : Then(t, <<a, b>>) => Moves(t, {Now(t)}, {}, {a, b})
         /\ \A S : \A calls \in Seq(S) : Then(t, calls) => Moves(t, {Now(t)}, {}, Range(calls))
  <1>1. CallsOf(t) = {Now(t)} \cup Below(t)
    BY StackSplit
  <1>2. ASSUME NEW S, NEW calls \in Seq(S), Then(t, calls)
        PROVE  Moves(t, {Now(t)}, {}, Range(calls))
    <2>1. /\ CallsOf(t)' = Range(calls) \cup Below(t)
          /\ Below(t)' \subseteq Range(calls) \cup Below(t)
          /\ \A u \in Threads \ {t} : CallsOf(u)' = CallsOf(u) /\ Below(u)' = Below(u)
      BY <1>2, StackThen
    <2> QED BY <1>1, <2>1 DEF Moves
  <1>3. ASSUME Return(t) PROVE Moves(t, {Now(t)}, {}, {})
    <2>1. <<>> \in Seq({}) /\ Range(<<>>) = {}
      BY DEF Range
    <2>2. Moves(t, {Now(t)}, {}, Range(<<>>))
      BY <1>2, <1>3, <2>1 DEF Return
    <2> QED BY <2>1, <2>2
  <1>4. ASSUME NEW a, Then(t, <<a>>) PROVE Moves(t, {Now(t)}, {a}, {})
    <2>1. /\ CallsOf(t)' = {a} \cup Below(t)
          /\ \A u \in Threads : Below(u)' = Below(u)
          /\ \A u \in Threads \ {t} : CallsOf(u)' = CallsOf(u)
      BY <1>4, StackOne
    <2> QED BY <1>1, <2>1 DEF Moves
  <1>5. ASSUME NEW a, NEW b, Then(t, <<a, b>>) PROVE Moves(t, {Now(t)}, {}, {a, b})
    <2>1. <<a, b>> \in Seq({a, b}) /\ Range(<<a, b>>) = {a, b}
      BY DEF Range
    <2>2. Moves(t, {Now(t)}, {}, Range(<<a, b>>))
      BY <1>2, <1>5, <2>1
    <2> QED BY <2>1, <2>2
  <1> QED BY <1>2, <1>3, <1>4, <1>5

\* An idle thread takes a handler, or calls sendRequest.
LEMMA BeginMoves ==
  ASSUME todo \in [Threads -> Seq(Call)], NEW t \in Threads, todo[t] = <<>>
  PROVE  /\ \A a, b : todo' = [todo EXCEPT ![t] = <<a, b>>] => Moves(t, {}, {a}, {b})
         /\ \A a : todo' = [todo EXCEPT ![t] = <<a>>] => Moves(t, {}, {a}, {})
         /\ \A S : \A calls \in Seq(S) :
              todo' = [todo EXCEPT ![t] = calls] => Moves(t, {}, {}, Range(calls))
  <1>1. CallsOf(t) = {} /\ Below(t) = {}
    BY DEF CallsOf, Below
  <1>2. ASSUME NEW S, NEW calls \in Seq(S), todo' = [todo EXCEPT ![t] = calls]
        PROVE  /\ CallsOf(t)' = Range(calls)
               /\ Below(t)' = {calls[k] : k \in 2 .. Len(calls)} /\ Below(t)' \subseteq Range(calls)
               /\ \A u \in Threads \ {t} : CallsOf(u)' = CallsOf(u) /\ Below(u)' = Below(u)
    BY <1>2, StackHandler
  <1>3. ASSUME NEW S, NEW calls \in Seq(S), todo' = [todo EXCEPT ![t] = calls]
        PROVE  Moves(t, {}, {}, Range(calls))
    BY <1>1, <1>2, <1>3 DEF Moves
  <1>4. ASSUME NEW a, NEW b, todo' = [todo EXCEPT ![t] = <<a, b>>] PROVE Moves(t, {}, {a}, {b})
    <2>1. <<a, b>> \in Seq({a, b}) /\ Range(<<a, b>>) = {a, b}
          /\ {<<a, b>>[k] : k \in 2 .. Len(<<a, b>>)} = {b}
      BY DEF Range
    <2>2. /\ CallsOf(t)' = {a, b} /\ Below(t)' = {b}
          /\ \A u \in Threads \ {t} : CallsOf(u)' = CallsOf(u) /\ Below(u)' = Below(u)
      BY <1>4, <2>1, StackHandler
    <2> QED BY <1>1, <2>2 DEF Moves
  <1>5. ASSUME NEW a, todo' = [todo EXCEPT ![t] = <<a>>] PROVE Moves(t, {}, {a}, {})
    <2>1. <<a>> \in Seq({a}) /\ Range(<<a>>) = {a} /\ {<<a>>[k] : k \in 2 .. Len(<<a>>)} = {}
      BY DEF Range
    <2>2. /\ CallsOf(t)' = {a} /\ Below(t)' = {}
          /\ \A u \in Threads \ {t} : CallsOf(u)' = CallsOf(u) /\ Below(u)' = Below(u)
      BY <1>5, <2>1, StackHandler
    <2> QED BY <1>1, <2>2 DEF Moves
  <1> QED BY <1>3, <1>4, <1>5

\* The items that calls are about, before and after.
LEMMA InCallMoves ==
  ASSUME NEW t \in Threads, NEW old, NEW top, NEW rest, Moves(t, old, top, rest), NEW ops
  PROVE  /\ \A i \in InCall(ops)' :
              i \in InCall(ops) \/ \E c \in top \cup rest : c.op \in ops /\ c.id = i
         /\ \A i \in InCall(ops) : i \in InCall(ops)' \/ \E c \in old : c.op \in ops /\ c.id = i
         /\ \A c \in top \cup rest : c.op \in ops /\ c.id \in IDs => c.id \in InCall(ops)'
         /\ \A c \in old : c.op \in ops /\ c.id \in IDs => c.id \in InCall(ops)
  <1>1. ASSUME NEW i \in InCall(ops)'
        PROVE  i \in InCall(ops) \/ \E c \in top \cup rest : c.op \in ops /\ c.id = i
    <2>0. PICK u \in Threads : \E c \in CallsOf(u)' : c.id = i /\ c.op \in ops
      BY <1>1 DEF InCall
    <2>1. PICK c \in CallsOf(u)' : c.id = i /\ c.op \in ops
      BY <2>0
    <2>2. i \in IDs
      BY <1>1 DEF InCall
    <2>3. c \in CallsOf(u) \/ c \in top \cup rest
      BY <2>1 DEF Moves
    <2> QED BY <2>1, <2>2, <2>3 DEF InCall
  <1>2. ASSUME NEW i \in InCall(ops)
        PROVE  i \in InCall(ops)' \/ \E c \in old : c.op \in ops /\ c.id = i
    <2>0. PICK u \in Threads : \E c \in CallsOf(u) : c.id = i /\ c.op \in ops
      BY <1>2 DEF InCall
    <2>1. PICK c \in CallsOf(u) : c.id = i /\ c.op \in ops
      BY <2>0
    <2>2. i \in IDs
      BY <1>2 DEF InCall
    <2>3. c \in CallsOf(u)' \/ c \in old
      BY <2>1 DEF Moves
    <2> QED BY <2>1, <2>2, <2>3 DEF InCall
  <1>3. ASSUME NEW c \in top \cup rest, c.op \in ops, c.id \in IDs PROVE c.id \in InCall(ops)'
    BY <1>3 DEF Moves, InCall
  <1>4. ASSUME NEW c \in old, c.op \in ops, c.id \in IDs PROVE c.id \in InCall(ops)
    BY <1>4 DEF Moves, InCall
  <1> QED BY <1>1, <1>2, <1>3, <1>4

----------------------------------------------------------------------------
(* What keeps the invariant.                                               *)

\* A step of a thread that numbers the items in new (none, as a rule).
LEMMA AccMoves ==
  ASSUME AccInv, TypeOK', NEW t \in Threads, NEW old, NEW top, NEW rest, NEW new,
         Moves(t, old, top, rest),
         1 .. nextID' = 1 .. nextID \cup new, authIDs' \subseteq authIDs \cup new,
         authIDs \subseteq authIDs',
         \A c \in top \cup rest : c.op \in ErrOps => c.err # "none",
         \A c \in top \cup rest : c.op \in ItemCalls => c.id \in Around \cup new,
         \A c \in rest : c.op \notin HeadOps,
         Queued' \cup store' \cup Answered' \cup OnTheWay' \subseteq Around \cup new,
         Answered \cup store \subseteq Safe', \A c \in old : c.op \in MoveOps => c.id \in Safe',
         \A c \in top : c.op = "removeFirst" => c.id \in Safe',
         Queued \subseteq Queued' \cup Safe' \cup authIDs',
         \A c \in old : c.op = "enqueue" => c.id \in Queued',
         new \subseteq Queued' \cup Safe' \cup InCall({"enqueue"})' \cup authIDs',
         \A c \in top : c.op \in LockOps =>
           /\ \A u \in Threads \ {t} : \A d \in CallsOf(u) : d.op \notin LockOps
           /\ sendQueue' # <<>> /\ Head(sendQueue') \in {c.id} \cup authIDs',
         \A u \in Threads \ {t} : \A d \in CallsOf(u) : d.op \in LockOps =>
           sendQueue' # <<>> /\ Head(sendQueue') \in {d.id} \cup authIDs'
  PROVE  AccInv'
  <1>1. Failing'
    <2>1. ASSUME NEW u \in Threads, NEW c \in CallsOf(u)', c.op \in ErrOps PROVE c.err # "none"
      <3>1. c \in CallsOf(u) \/ c \in top \cup rest
        BY <2>1 DEF Moves
      <3> QED BY <2>1, <3>1 DEF AccInv, Failing
    <2> QED BY <2>1 DEF Failing
  <1>2. Known'
    <2>1. ASSUME NEW i \in InCall(ItemCalls)' PROVE i \in Around \cup new
      <3>1. i \in InCall(ItemCalls) \/ \E c \in top \cup rest : c.op \in ItemCalls /\ c.id = i
        BY <2>1, InCallMoves
      <3> QED BY <3>1 DEF Around
    <2>2. Around' \subseteq Around \cup new
      BY <2>1 DEF Around
    <2>3. Around \cup authIDs \subseteq 1 .. nextID
      BY DEF AccInv, Known
    <2> QED BY <2>2, <2>3 DEF Known
  <1>3. \A u \in Threads : \A c \in Below(u) : c.op \notin HeadOps
    BY DEF AccInv, Guarded
  <1>4. ASSUME NEW c \in CallsOf(t)', c.op \in LockOps PROVE c \in top
    BY <1>3, <1>4 DEF Moves, HeadOps, LockOps
  <1>5. Guarded'
    <2>1. \A u \in Threads : \A c \in Below(u)' : c.op \notin HeadOps
      BY <1>3 DEF Moves
    <2>2. ASSUME NEW u \in Threads, NEW v \in Threads, NEW c \in CallsOf(u)',
                 NEW d \in CallsOf(v)', c.op \in LockOps, d.op \in LockOps
          PROVE  u = v
      <3>1. CASE u # t /\ v # t
        BY <2>2, <3>1 DEF Moves, AccInv, Guarded
      <3>2. ASSUME NEW w \in Threads, w # t, NEW e \in CallsOf(w)', e.op \in LockOps,
                   NEW f \in CallsOf(t)', f.op \in LockOps
            PROVE  FALSE
        <4>1. f \in top /\ e \in CallsOf(w)
          BY <1>4, <3>2 DEF Moves
        <4> QED BY <3>2, <4>1
      <3> QED BY <2>2, <3>1, <3>2
    <2>3. ASSUME NEW u \in Threads, NEW c \in CallsOf(u)', c.op \in LockOps
          PROVE  sendQueue' # <<>> /\ Head(sendQueue') \in {c.id} \cup authIDs'
      <3>1. CASE u = t
        BY <1>4, <2>3, <3>1
      <3>2. CASE u # t
        <4>1. c \in CallsOf(u)
          BY <2>3, <3>2 DEF Moves
        <4> QED BY <2>3, <3>2, <4>1
      <3> QED BY <3>1, <3>2
    <2> QED BY <2>1, <2>2, <2>3 DEF Guarded
  <1>6. Safe \subseteq Safe'
    <2>1. ASSUME NEW i \in InCall(MoveOps) PROVE i \in Safe'
      <3>1. i \in InCall(MoveOps)' \/ \E c \in old : c.op \in MoveOps /\ c.id = i
        BY <2>1, InCallMoves
      <3> QED BY <3>1 DEF Safe
    <2> QED BY <2>1 DEF Safe
  <1>7. Taken'
    <2>1. ASSUME NEW u \in Threads, NEW c \in CallsOf(u)', c.op = "removeFirst" PROVE c.id \in Safe'
      <3>1. CASE c \in top
        BY <2>1, <3>1
      <3>2. CASE c \in rest
        BY <2>1, <3>2 DEF HeadOps
      <3>3. CASE c \in CallsOf(u)
        BY <1>6, <2>1, <3>3 DEF AccInv, Taken
      <3> QED BY <2>1, <3>1, <3>2, <3>3 DEF Moves
    <2> QED BY <2>1 DEF Taken
  <1>8. Kept'
    <2>1. ASSUME NEW i \in InCall({"enqueue"}) PROVE i \in InCall({"enqueue"})' \cup Queued'
      <3>1. i \in InCall({"enqueue"})' \/ \E c \in old : c.op \in {"enqueue"} /\ c.id = i
        BY <2>1, InCallMoves
      <3> QED BY <3>1
    <2>2. ASSUME NEW i \in (1 .. nextID)', i \notin authIDs'
          PROVE  i \in Safe' \cup Queued' \cup InCall({"enqueue"})'
      <3>1. CASE i \in new
        BY <2>2, <3>1
      <3>2. CASE i \in 1 .. nextID
        <4>1. i \in Safe \cup Queued \cup InCall({"enqueue"})
          BY <2>2, <3>2 DEF AccInv, Kept
        <4> QED BY <1>6, <2>1, <2>2, <4>1
      <3> QED BY <2>2, <3>1, <3>2
    <2> QED BY <2>2 DEF Kept
  <1> QED BY <1>1, <1>2, <1>5, <1>7, <1>8 DEF AccInv

\* A call that queues nothing, and knows its error and its item.
Calm(c) == /\ c.op \in ErrOps => c.err # "none"
           /\ c.op \in ItemCalls => c.id \in Around
           /\ c.op \notin HeadOps

\* What travels is around.
LEMMA AroundTravels == Travelling \subseteq Around
  <1>1. Handled \subseteq InCall(ItemCalls)
    BY DEF Handled, HandledOps, InCall, ItemCalls
  <1> QED BY <1>1 DEF Travelling, Around

\* A step that leaves queue, store and callbacks alone.
LEMMA AccQuiet ==
  ASSUME AccInv, TypeOK', NEW t \in Threads, NEW old, NEW top, NEW rest, Moves(t, old, top, rest),
         \A c \in top \cup rest : Calm(c), \A c \in old : c.op \notin {"enqueue"} \cup MoveOps,
         UNCHANGED <<authIDs, nextID, sendQueue, store, outcome>>, OnTheWay' \subseteq Around
  PROVE  AccInv'
  <1>1. Queued' = Queued /\ Answered' = Answered /\ store' = store
    BY DEF Queued, Answered
  <1>2. Queued' \cup store' \cup Answered' \cup OnTheWay' \subseteq Around
    BY <1>1 DEF Around
  <1>3. Answered \cup store \subseteq Safe'
    BY <1>1 DEF Safe
  <1>4. \A c \in top \cup rest : c.op \notin LockOps /\ c.op # "removeFirst" /\ c.op \notin HeadOps
    BY DEF Calm, HeadOps, LockOps
  <1>5. \A u \in Threads : \A d \in CallsOf(u) : d.op \in LockOps =>
          sendQueue' # <<>> /\ Head(sendQueue') \in {d.id} \cup authIDs'
    BY DEF AccInv, Guarded
  <1>6. \A c \in top \cup rest : /\ c.op \in ErrOps => c.err # "none"
                                 /\ c.op \in ItemCalls => c.id \in Around
    BY DEF Calm
  <1>7. \A c \in old : c.op \notin MoveOps /\ c.op # "enqueue"
    OBVIOUS
  <1> DEFINE new == {}
  <1>8. /\ 1 .. nextID' = 1 .. nextID \cup new /\ authIDs' \subseteq authIDs \cup new
        /\ Around = Around \cup new
    OBVIOUS
  <1> HIDE DEF new
  <1>9. new \subseteq Queued' \cup Safe' \cup InCall({"enqueue"})' \cup authIDs'
    BY DEF new
  <1> QED BY <1>1, <1>2, <1>3, <1>4, <1>5, <1>6, <1>7, <1>8, <1>9, AccMoves

\* The current call returns or makes one calm call.
LEMMA AccReturn ==
  ASSUME AccInv, TypeOK', NEW t \in Threads, todo[t] # <<>>,
         Now(t).op \notin {"enqueue"} \cup MoveOps,
         UNCHANGED <<authIDs, nextID, sendQueue, store, outcome>>, OnTheWay' \subseteq Travelling,
         Return(t) \/ \E a : Calm(a) /\ Then(t, <<a>>)
  PROVE  AccInv'
  <1>1. todo \in [Threads -> Seq(Call)] /\ OnTheWay' \subseteq Around
    BY AroundTravels DEF AccInv, TypeOK
  <1>2. CASE Return(t)
    <2>1. Moves(t, {Now(t)}, {}, {})
      BY <1>1, <1>2, ThenMoves
    <2> QED BY <1>1, <2>1, AccQuiet
  <1>3. CASE \E a : Calm(a) /\ Then(t, <<a>>)
    <2>1. PICK a : Calm(a) /\ Then(t, <<a>>)
      BY <1>3
    <2>2. Moves(t, {Now(t)}, {a}, {})
      BY <1>1, <2>1, ThenMoves
    <2> QED BY <1>1, <2>1, <2>2, AccQuiet
  <1> QED BY <1>2, <1>3

\* Nothing happens in any thread.
LEMMA AccIdle ==
  ASSUME AccInv, TypeOK', UNCHANGED <<todo, authIDs, nextID, sendQueue, store, outcome>>,
         OnTheWay' \subseteq OnTheWay
  PROVE  AccInv'
  <1>1. \A u \in Threads : CallsOf(u)' = CallsOf(u) /\ Below(u)' = Below(u)
    BY DEF CallsOf, Below
  <1>2. \A ops : InCall(ops)' = InCall(ops)
    BY <1>1 DEF InCall
  <1>3. Queued' = Queued /\ Answered' = Answered /\ Safe' = Safe
    BY <1>2 DEF Queued, Answered, Safe
  <1>4. Failing' /\ Guarded' /\ Taken'
    BY <1>1, <1>3 DEF AccInv, Failing, Guarded, Taken
  <1>5. Known' /\ Kept'
    BY <1>2, <1>3 DEF AccInv, Known, Kept, Around
  <1> QED BY <1>4, <1>5 DEF AccInv

----------------------------------------------------------------------------
(* Steps that leave queue, store and callbacks alone.                      *)

\* startWriting, the loops, the restart and the setup of the connection.
LEMMA AccQuietRun ==
  ASSUME AccInv, TypeOK', NEW t \in Threads,
         \/ CheckConnected(t) \/ StartWriting(t) \/ IssueWrite(t)
         \/ StartReading(t) \/ ReadNextBytes(t) \/ IssueRead(t)
         \/ RestartRead(t) \/ RestartWrite(t) \/ StopWriting(t) \/ StopReading(t)
         \/ ShutdownSocket(t) \/ ResolveAgain(t)
         \/ InitSocket(t) \/ StartSSLHandshake(t) \/ FinishInitialization(t)
         \/ SetConnected(t) \/ OnFailure(t)
  PROVE  AccInv'
  <1> USE DEF itemVars, queueVars, connVars, loopVars, setupVars, netVars, budgetVars, outsideVars
  <1>1. Run(t)
    BY DEF Run, Writing, Reading, Restarting, Connecting
  <1>2. OnTheWay' \subseteq Travelling
    BY <1>1, RunTraffic DEF AccInv
  <1>3. \A op, l, h : op \notin ItemCalls \cup ErrOps => Calm(On(op, l, h)) /\ Calm(Plain(op))
    BY DEF Calm, On, Plain, HeadOps, ItemCalls
  <1>4. CASE CheckConnected(t) \/ StartWriting(t) \/ IssueWrite(t)
    <2>1. /\ todo[t] # <<>> /\ Now(t).op \notin {"enqueue"} \cup MoveOps
          /\ UNCHANGED <<authIDs, nextID, sendQueue, store, outcome>>
      BY <1>4 DEF CheckConnected, StartWriting, IssueWrite, At, Now, MoveOps
    <2>2. Return(t) \/ \E a : Calm(a) /\ Then(t, <<a>>)
      BY <1>3, <1>4 DEF CheckConnected, StartWriting, IssueWrite, Return, ItemCalls, ErrOps
    <2> QED BY <1>2, <2>1, <2>2, AccReturn
  <1>5. CASE StartReading(t) \/ ReadNextBytes(t) \/ IssueRead(t)
    <2>1. /\ todo[t] # <<>> /\ Now(t).op \notin {"enqueue"} \cup MoveOps
          /\ UNCHANGED <<authIDs, nextID, sendQueue, store, outcome>>
      BY <1>5 DEF StartReading, ReadNextBytes, IssueRead, At, Now, MoveOps
    <2>2. Return(t) \/ \E a : Calm(a) /\ Then(t, <<a>>)
      BY <1>3, <1>5 DEF StartReading, ReadNextBytes, IssueRead, Return, ItemCalls, ErrOps
    <2> QED BY <1>2, <2>1, <2>2, AccReturn
  <1>6. CASE RestartRead(t) \/ RestartWrite(t)
    <2>1. /\ todo[t] # <<>> /\ Now(t).op \notin {"enqueue"} \cup MoveOps /\ Now(t).op \in ErrOps
          /\ UNCHANGED <<authIDs, nextID, sendQueue, store, outcome>>
      BY <1>6 DEF RestartRead, RestartWrite, RestartOf, At, Now, MoveOps, ErrOps
    <2>2. Now(t).err # "none"
      <3>1. Now(t) \in CallsOf(t)
        BY <2>1, StackSplit DEF AccInv, TypeOK
      <3> QED BY <2>1, <3>1 DEF AccInv, Failing
    <2>3. Calm(Fail("restart", 0, Now(t).err))
      BY <2>2 DEF Calm, Fail, ItemCalls, HeadOps
    <2>4. Return(t) \/ Then(t, <<Fail("restart", 0, Now(t).err)>>)
      BY <1>6 DEF RestartRead, RestartWrite, RestartOf
    <2> QED BY <1>2, <2>1, <2>3, <2>4, AccReturn
  <1>7. CASE \/ StopWriting(t) \/ StopReading(t) \/ ShutdownSocket(t) \/ ResolveAgain(t)
             \/ InitSocket(t) \/ StartSSLHandshake(t) \/ FinishInitialization(t)
             \/ SetConnected(t) \/ OnFailure(t)
    <2>1. /\ todo[t] # <<>> /\ Now(t).op \notin {"enqueue"} \cup MoveOps /\ Return(t)
      BY <1>7 DEF StopWriting, StopReading, ShutdownSocket, ResolveAgain, InitSocket,
                  StartSSLHandshake, FinishInitialization, SetConnected, OnFailure, At, Now, MoveOps
    <2>2. UNCHANGED <<authIDs, nextID, sendQueue, store, outcome>>
      BY <1>7 DEF StopWriting, StopReading, ShutdownSocket, ResolveAgain, InitSocket,
                  StartSSLHandshake, FinishInitialization, SetConnected, OnFailure
    <2> QED BY <1>2, <2>1, <2>2, AccReturn
  <1> QED BY <1>4, <1>5, <1>6, <1>7

\* The calls of shutdownConnection are calm.
LEMMA AccShutdownCalls ==
  ASSUME NEW e, e # "none", NEW op \in {"resolveAgain", "onFailure"}
  PROVE  \E S : /\ ShutdownCalls(e) \o <<Plain(op)>> \in Seq(S)
                /\ \A c \in Range(ShutdownCalls(e) \o <<Plain(op)>>) : Calm(c)
  <1> DEFINE T == {Plain("stopWriting"), Plain("stopReading"), Plain("shutdownSocket"),
                   Fail("cancelAll", 0, e), Plain(op)}
  <1>1. ShutdownCalls(e) \in Seq(T) /\ <<Plain(op)>> \in Seq(T)
    BY DEF ShutdownCalls
  <1>2. \A c \in T : Calm(c)
    BY DEF Plain, Fail, ItemCalls, Calm, ErrOps, HeadOps
  <1> HIDE DEF T
  <1>3. ShutdownCalls(e) \o <<Plain(op)>> \in Seq(T)
    BY <1>1, ConcatProperties
  <1>4. Range(ShutdownCalls(e) \o <<Plain(op)>>) \subseteq T
    BY <1>3 DEF Range
  <1> QED BY <1>2, <1>3, <1>4

\* restartConnection(error).
LEMMA AccRestart ==
  ASSUME AccInv, TypeOK', NEW t \in Threads, Restart(t)
  PROVE  AccInv'
  <1> USE DEF itemVars, queueVars, connVars, loopVars, setupVars, netVars, budgetVars, outsideVars
  <1> DEFINE calls == ShutdownCalls(Now(t).err) \o <<Plain("resolveAgain")>>
  <1>1. /\ todo[t] # <<>> /\ Now(t).op = "restart" /\ Then(t, calls)
        /\ UNCHANGED <<authIDs, nextID, sendQueue, store, outcome>>
    BY DEF Restart, At, Now
  <1>2. todo \in [Threads -> Seq(Call)]
    BY DEF AccInv, TypeOK
  <1>3. Now(t).err # "none"
    <2>1. Now(t) \in CallsOf(t)
      BY <1>1, <1>2, StackSplit
    <2> QED BY <1>1, <2>1 DEF AccInv, Failing, ErrOps
  <1>4. PICK S : calls \in Seq(S) /\ \A c \in Range(calls) : Calm(c)
    BY <1>3, AccShutdownCalls
  <1> HIDE DEF calls
  <1>5. Moves(t, {Now(t)}, {}, Range(calls))
    BY <1>1, <1>2, <1>4, ThenMoves
  <1>6. OnTheWay' \subseteq Around
    BY RunTraffic, AroundTravels DEF AccInv, Run, Restarting
  <1> QED BY <1>1, <1>4, <1>5, <1>6, AccQuiet DEF MoveOps

\* findByID, in processChunk.
LEMMA AccFindByID ==
  ASSUME AccInv, TypeOK', NEW t \in Threads, FindByID(t)
  PROVE  AccInv'
  <1> USE DEF itemVars, queueVars, connVars, loopVars, setupVars, netVars, budgetVars, outsideVars
  <1> DEFINE a == Item("removeByID", Now(t).id, "ok")
  <1>1. /\ todo[t] # <<>> /\ Now(t).op = "findByID"
        /\ UNCHANGED <<authIDs, nextID, sendQueue, store, outcome>>
    BY DEF FindByID, At, Now
  <1>2. Return(t) \/ Then(t, <<a>>)
    BY DEF FindByID, CompletedCalls
  <1>3. OnTheWay' \subseteq Travelling
    BY RunTraffic DEF AccInv, Run, Reading
  <1>4. Now(t).id \in Around
    <2>1. Now(t).id \in Handled
      BY <1>1, HandledNow DEF AccInv, TypeOK, HandledOps
    <2> QED BY <2>1, AroundTravels DEF Travelling
  <1>5. Calm(a)
    BY <1>4 DEF Calm, Item, HeadOps
  <1> HIDE DEF a
  <1> QED BY <1>1, <1>2, <1>3, <1>5, AccReturn DEF MoveOps

\* The handlers of reads and writes.
LEMMA AccHandler ==
  ASSUME AccInv, TypeOK', NEW t \in Threads, NEW l \in Loops,
         \/ ReadCallback(t, l) \/ ReadDeadline(t, l)
         \/ WriteCallback(t, l) \/ WriteDeadline(t, l)
  PROVE  AccInv'
  <1> USE DEF itemVars, queueVars, connVars, loopVars, setupVars, netVars, budgetVars, outsideVars
  <1>1. todo[t] = <<>> /\ UNCHANGED <<authIDs, nextID, sendQueue, store, outcome>>
    BY DEF ReadCallback, ReadDeadline, WriteCallback, WriteDeadline, Idle
  <1>2. /\ rd[l] \in LoopRec /\ wr[l] \in WriteRec /\ wr[l] \in LoopRec
        /\ todo \in [Threads -> Seq(Call)]
    BY DEF AccInv, TypeOK, WriteRec
  <1>3. OnTheWay' \subseteq Around /\ OnTheWay \subseteq Around
    BY HandlerTraffic DEF AccInv, Around
  <1>4. ASSUME NEW S, NEW calls \in Seq(S), todo' = [todo EXCEPT ![t] = calls],
               \A c \in S : Calm(c)
        PROVE  AccInv'
    <2>1. Moves(t, {}, {}, Range(calls))
      BY <1>1, <1>2, <1>4, BeginMoves
    <2>2. \A c \in Range(calls) : Calm(c)
      BY <1>4 DEF Range
    <2> QED BY <1>1, <1>3, <2>1, <2>2, AccQuiet
  <1>5. ASSUME NEW a, todo' = [todo EXCEPT ![t] = <<a>>], Calm(a) PROVE AccInv'
    <2> DEFINE S == {a}
               calls == <<a>>
    <2>1. calls \in Seq(S) /\ todo' = [todo EXCEPT ![t] = calls] /\ \A c \in S : Calm(c)
      BY <1>5
    <2> HIDE DEF S, calls
    <2> QED BY <1>4, <2>1
  <1>6. CASE ReadDeadline(t, l) \/ WriteDeadline(t, l)
    <2>1. Calm(Fail("restartRead", l, "Timeout")) /\ Calm(Fail("restartWrite", l, "Timeout"))
      BY DEF Calm, Fail, ItemCalls, HeadOps
    <2> QED BY <1>5, <1>6, <2>1 DEF ReadDeadline, WriteDeadline
  <1>7. CASE WriteCallback(t, l)
    <2> DEFINE i == Head(wr[l].data)
               a == Item("removeByID", i, "VstWriteError")
               b == Fail("restartWrite", l, "VstWriteError")
    <2>1. CASE wr[l].op = "ok"
      <3>1. Calm(On("front", l, TRUE))
        BY DEF Calm, On, ItemCalls, ErrOps, HeadOps
      <3> QED BY <1>5, <1>7, <2>1, <3>1 DEF WriteCallback, WrittenCalls
    <2>2. CASE wr[l].op = "err"
      <3>1. wr[l].data \in Seq(IDs) /\ wr[l].data # <<>>
        BY <1>2, <2>2 DEF WriteRec, LoopRec
      <3>2. i \in IDs /\ i \in Range(wr[l].data)
        BY <3>1 DEF Range
      <3>3. i \in Around
        BY <1>3, <3>2 DEF OnTheWay
      <3>4. todo' = [todo EXCEPT ![t] = <<a, b>>]
        BY <1>7, <2>2 DEF WriteCallback, FailedCalls
      <3> HIDE DEF i
      <3>5. Calm(a) /\ Calm(b)
        BY <3>3 DEF Calm, Item, Fail, ItemCalls, HeadOps
      <3> HIDE DEF a, b
      <3> DEFINE S == {a, b}
                 calls == <<a, b>>
      <3>6. calls \in Seq(S) /\ todo' = [todo EXCEPT ![t] = calls] /\ \A c \in S : Calm(c)
        BY <3>4, <3>5
      <3> HIDE DEF S, calls
      <3> QED BY <1>4, <3>6
    <2> QED BY <1>7, <2>1, <2>2 DEF WriteCallback
  <1>8. CASE ReadCallback(t, l)
    <2>1. CASE rd[l].op = "err"
      <3>1. Calm(Fail("restartRead", l, "VstReadError"))
        BY DEF Calm, Fail, ItemCalls, HeadOps
      <3> QED BY <1>5, <1>8, <2>1, <3>1 DEF ReadCallback
    <2>2. CASE rd[l].op = "ok"
      <3> DEFINE data == rd[l].data
                 found == [k \in 1 .. Len(data) |-> Item("findByID", data[k], "ok")]
                 b == On("readNextBytes", l, TRUE)
                 T == {Item("findByID", i, "ok") : i \in Range(data)} \cup {b}
      <3>1. data \in Seq(IDs) /\ Len(data) \in Nat /\ DOMAIN data = 1 .. Len(data)
        BY <1>2 DEF LoopRec
      <3>2. Range(data) \subseteq Around
        <4>1. Range(data) \subseteq IDs
          BY <3>1 DEF Range
        <4> QED BY <1>3, <4>1 DEF OnTheWay
      <3>3. todo' = [todo EXCEPT ![t] = found \o <<b>>]
        BY <1>8, <2>2 DEF ReadCallback
      <3>4. \A k \in 1 .. Len(data) : data[k] \in Range(data)
        BY <3>1 DEF Range
      <3> HIDE DEF data
      <3>5. \A c \in T : Calm(c)
        BY <3>2 DEF Calm, Item, On, ItemCalls, ErrOps, HeadOps
      <3>6. found \in [1 .. Len(data) -> T] /\ b \in T
        BY <3>4
      <3> HIDE DEF found, T, b
      <3>7. found \in Seq(T)
        BY <3>1, <3>6, SeqDef
      <3>8. <<b>> \in Seq(T)
        BY <3>6
      <3>9. found \o <<b>> \in Seq(T)
        BY <3>7, <3>8, ConcatProperties
      <3> QED BY <1>4, <3>3, <3>5, <3>9
    <2> QED BY <1>8, <2>1, <2>2 DEF ReadCallback
  <1> QED BY <1>6, <1>7, <1>8

\* The handlers of the setup of a connection.
LEMMA AccSetupHandler ==
  ASSUME AccInv, TypeOK', NEW t \in Threads, NEW n \in Sockets,
         \/ ResolveCallback(t, n) \/ AsyncConnectCallback(t, n)
         \/ HandshakeCallback(t, n) \/ HeaderCallback(t, n)
  PROVE  AccInv'
  <1> USE DEF itemVars, queueVars, connVars, loopVars, setupVars, netVars, budgetVars, outsideVars
  <1>1. /\ todo[t] = <<>> /\ UNCHANGED <<authIDs, nextID, sendQueue, store, outcome>>
        /\ UNCHANGED <<rd, wr, wire, owed>>
    BY DEF ResolveCallback, AsyncConnectCallback, HandshakeCallback, HeaderCallback, Handles, Idle
  <1>2. todo \in [Threads -> Seq(Call)]
    BY DEF AccInv, TypeOK
  <1>3. OnTheWay' \subseteq Around
    BY <1>1, SameTraffic, AroundTravels
  <1>4. ASSUME NEW S, NEW calls \in Seq(S), todo' = [todo EXCEPT ![t] = calls],
               \A c \in Range(calls) : Calm(c)
        PROVE  AccInv'
    <2>1. Moves(t, {}, {}, Range(calls))
      BY <1>1, <1>2, <1>4, BeginMoves
    <2> QED BY <1>1, <1>3, <1>4, <2>1, AccQuiet
  <1>5. ASSUME NEW T, \A c \in T : Calm(c), NEW calls \in Seq(T),
               todo' = [todo EXCEPT ![t] = calls]
        PROVE  AccInv'
    <2>1. Range(calls) \subseteq T
      BY DEF Range
    <2> QED BY <1>4, <1>5, <2>1
  <1>6. CASE todo' = [todo EXCEPT ![t] = ShutdownCalls("CanceledDuringReset")
                                           \o <<Plain("onFailure")>>]
    <2> DEFINE calls == ShutdownCalls("CanceledDuringReset") \o <<Plain("onFailure")>>
    <2>1. PICK S : calls \in Seq(S) /\ \A c \in Range(calls) : Calm(c)
      BY AccShutdownCalls
    <2> HIDE DEF calls
    <2> QED BY <1>4, <1>6, <2>1 DEF calls
  <1> DEFINE T == {On("initSocket", n, FALSE), On("handshake", n, FALSE),
                   On("finishInit", n, FALSE), Plain("shutdownSocket"), Plain("onFailure"),
                   Plain("insertAuth"),
                   Plain("setConnected"), Plain("startWriting"), Plain("startReading")}
             on == On(IF Ssl THEN "handshake" ELSE "finishInit", n, FALSE)
  <1>7. \A c \in T : Calm(c)
    BY DEF Calm, On, Plain, ItemCalls, ErrOps, HeadOps
  <1>8. /\ <<On("initSocket", n, FALSE)>> \in Seq(T) /\ <<Plain("onFailure")>> \in Seq(T)
        /\ <<On("finishInit", n, FALSE)>> \in Seq(T)
        /\ <<Plain("shutdownSocket"), Plain("onFailure")>> \in Seq(T)
        /\ <<Plain("insertAuth"), Plain("setConnected"), Plain("startWriting"),
             Plain("startReading")>> \in Seq(T)
    OBVIOUS
  <1>9. on \in T
    OBVIOUS
  <1> HIDE DEF T, on
  <1>10. <<on>> \in Seq(T)
    BY <1>9
  <1>11. CASE ResolveCallback(t, n)
    BY <1>5, <1>7, <1>8, <1>11 DEF ResolveCallback, Handles
  <1>12. CASE AsyncConnectCallback(t, n)
    <2>1. \/ todo' = [todo EXCEPT ![t] = <<on>>]
          \/ todo' = [todo EXCEPT ![t] = ShutdownCalls("CanceledDuringReset")
                                           \o <<Plain("onFailure")>>]
      BY <1>12 DEF AsyncConnectCallback, Handles, on
    <2> QED BY <1>5, <1>6, <1>7, <1>10, <2>1
  <1>13. CASE HandshakeCallback(t, n)
    BY <1>5, <1>7, <1>8, <1>13 DEF HandshakeCallback, Handles
  <1>14. CASE HeaderCallback(t, n)
    <2>1. \/ todo' = [todo EXCEPT ![t] = <<Plain("insertAuth"), Plain("setConnected"),
                                           Plain("startWriting"), Plain("startReading")>>]
          \/ todo' = [todo EXCEPT ![t] = ShutdownCalls("CanceledDuringReset")
                                           \o <<Plain("onFailure")>>]
      BY <1>14 DEF HeaderCallback, Handles
    <2> QED BY <1>5, <1>6, <1>7, <1>8, <2>1
  <1> QED BY <1>11, <1>12, <1>13, <1>14

\* Completions, the network, the server, and the death of the process.
LEMMA AccEnvironment ==
  ASSUME AccInv, TypeOK',
         Completion \/ Expiry \/ Server \/ Fault \/ \E t \in Threads : Dying(t)
  PROVE  AccInv'
  <1> USE DEF itemVars, queueVars, connVars, loopVars, setupVars, netVars, budgetVars, outsideVars
  <1>1. CASE Completion \/ Expiry \/ Server \/ Fault
    <2>1. /\ OnTheWay' \subseteq OnTheWay
          /\ UNCHANGED todo /\ UNCHANGED <<authIDs, sendQueue, nextID, store, owns>>
      BY <1>1, EnvironmentTraffic DEF AccInv
    <2>2. UNCHANGED outcome
      BY <1>1 DEF Completion, Expiry, Server, Fault, WriteCompletes, WriteFails, ReadCompletes,
                  ReadFails, SetupCompletes, ReadExpires, WriteExpires, Respond, SetupFails,
                  ConnectionLost
    <2> QED BY <2>1, <2>2, AccIdle
  <1>2. CASE \E t \in Threads : Dying(t)
    <2>1. /\ UNCHANGED <<todo, authIDs, nextID, sendQueue, store, outcome>>
          /\ UNCHANGED <<rd, wr, wire, owed>>
      BY <1>2 DEF Dying, DerefFreedLoop, DerefNullRequest, DerefNullSocket, AssertFails, Abort
    <2>2. OnTheWay' \subseteq OnTheWay
      BY <2>1 DEF OnTheWay
    <2> QED BY <2>1, <2>2, AccIdle
  <1> QED BY <1>1, <1>2

----------------------------------------------------------------------------
(* Steps that pass an item on.                                             *)

\* A step of a thread that numbers no item.
LEMMA AccChange ==
  ASSUME AccInv, TypeOK', NEW t \in Threads, NEW old, NEW top, NEW rest, Moves(t, old, top, rest),
         UNCHANGED <<authIDs, nextID>>,
         \A c \in top \cup rest : c.op \in ErrOps => c.err # "none",
         \A c \in top \cup rest : c.op \in ItemCalls => c.id \in Around,
         \A c \in rest : c.op \notin HeadOps,
         Queued' \cup store' \cup Answered' \cup OnTheWay' \subseteq Around,
         Answered \cup store \subseteq Safe', \A c \in old : c.op \in MoveOps => c.id \in Safe',
         \A c \in top : c.op = "removeFirst" => c.id \in Safe',
         Queued \subseteq Queued' \cup Safe' \cup authIDs',
         \A c \in old : c.op = "enqueue" => c.id \in Queued',
         \A c \in top : c.op \in LockOps =>
           /\ \A u \in Threads \ {t} : \A d \in CallsOf(u) : d.op \notin LockOps
           /\ sendQueue' # <<>> /\ Head(sendQueue') \in {c.id} \cup authIDs',
         \A u \in Threads \ {t} : \A d \in CallsOf(u) : d.op \in LockOps =>
           sendQueue' # <<>> /\ Head(sendQueue') \in {d.id} \cup authIDs'
  PROVE  AccInv'
  <1> DEFINE new == {}
  <1>1. /\ 1 .. nextID' = 1 .. nextID \cup new /\ authIDs' \subseteq authIDs \cup new
        /\ Around = Around \cup new
    OBVIOUS
  <1> HIDE DEF new
  <1>2. new \subseteq Queued' \cup Safe' \cup InCall({"enqueue"})' \cup authIDs'
    BY DEF new
  <1> QED BY <1>1, <1>2, AccMoves

\* The call a thread makes: its item is around, its error is known, and the
\* queue is as the holder of the mutex left it.
LEMMA AccNow ==
  ASSUME AccInv, NEW t \in Threads, todo[t] # <<>>
  PROVE  /\ Now(t).op \in ItemCalls => Now(t).id \in IDs /\ Now(t).id \in Around
         /\ Now(t).op \in ErrOps => Now(t).err # "none" /\ Now(t).err \in Outcomes
         /\ Now(t).op = "removeFirst" => Now(t).id \in Safe
         /\ Now(t).op \in LockOps =>
              /\ sendQueue # <<>> /\ Head(sendQueue) \in {Now(t).id} \cup authIDs
              /\ \A u \in Threads \ {t} : \A d \in CallsOf(u) : d.op \notin LockOps
         /\ \A u \in Threads : \A d \in CallsOf(u) :
              d.op \in LockOps => sendQueue # <<>> /\ Head(sendQueue) \in {d.id} \cup authIDs
  <1>1. Now(t) \in CallsOf(t) /\ Now(t) \in Call
    BY StackSplit, NowIsCall DEF AccInv, TypeOK
  <1>2. ASSUME Now(t).op \in ItemCalls PROVE Now(t).id \in IDs /\ Now(t).id \in Around
    <2>1. Now(t).id \in IDs
      BY <1>1, <1>2 DEF Call
    <2> QED BY <1>1, <1>2, <2>1 DEF InCall, Around
  <1>3. ASSUME Now(t).op \in ErrOps PROVE Now(t).err # "none" /\ Now(t).err \in Outcomes
    BY <1>1, <1>3 DEF AccInv, Failing, Call
  <1> QED BY <1>1, <1>2, <1>3 DEF AccInv, Taken, Guarded

\* The item goes to the end of the queue.
LEMMA AccEnqueue ==
  ASSUME AccInv, TypeOK', NEW t \in Threads, Enqueue(t)
  PROVE  AccInv'
  <1> USE DEF itemVars, queueVars, connVars, loopVars, setupVars, netVars, budgetVars, outsideVars
  <1> DEFINE n == Now(t).id
  <1>1. /\ todo[t] # <<>> /\ Now(t).op = "enqueue" /\ Return(t)
        /\ UNCHANGED <<authIDs, nextID, store, outcome>>
        /\ sendQueue' = Append(sendQueue, n)
    BY DEF Enqueue, At, Now
  <1>2. todo \in [Threads -> Seq(Call)] /\ sendQueue \in Seq(IDs)
    BY DEF AccInv, TypeOK
  <1>3. Moves(t, {Now(t)}, {}, {})
    BY <1>1, <1>2, ThenMoves
  <1>4. n \in IDs /\ n \in Around
    BY <1>1, AccNow DEF ItemCalls
  <1>5. /\ Queued' = Queued \cup {n}
        /\ sendQueue # <<>> => sendQueue' # <<>> /\ Head(sendQueue') = Head(sendQueue)
    <2>1. Queued = Range(sendQueue) /\ Queued' = Range(sendQueue')
      BY DEF Queued, Range
    <2> QED BY <1>1, <1>2, <1>4, <2>1, QueueOps
  <1>6. Answered' = Answered
    BY <1>1 DEF Answered
  <1>7. OnTheWay' \subseteq Around
    BY RunTraffic, AroundTravels DEF AccInv, Run, Writing
  <1>8. Queued' \cup store' \cup Answered' \cup OnTheWay' \subseteq Around
    BY <1>1, <1>4, <1>5, <1>6, <1>7 DEF Around
  <1>9. Answered \cup store \subseteq Safe'
    BY <1>1, <1>6 DEF Safe
  <1>10. \A u \in Threads \ {t} : \A d \in CallsOf(u) : d.op \in LockOps =>
           sendQueue' # <<>> /\ Head(sendQueue') \in {d.id} \cup authIDs'
    BY <1>1, <1>5, AccNow
  <1> QED BY <1>1, <1>3, <1>5, <1>8, <1>9, <1>10, AccChange DEF MoveOps

\* getNextRequestToSend takes the write loop's mutex and the first item.
LEMMA AccFront ==
  ASSUME AccInv, TypeOK', NEW t \in Threads, Front(t)
  PROVE  AccInv'
  <1> USE DEF itemVars, queueVars, connVars, loopVars, setupVars, netVars, budgetVars, outsideVars
  <1> DEFINE n == Head(sendQueue)
             a == Send("addToStore", Now(t).on, n, Now(t).held)
  <1>1. /\ todo[t] # <<>> /\ Now(t).op = "front" /\ WriteMutexFree
        /\ UNCHANGED <<authIDs, nextID, sendQueue, store, outcome>>
    BY DEF Front, At, Now
  <1>2. todo \in [Threads -> Seq(Call)] /\ sendQueue \in Seq(IDs)
    BY DEF AccInv, TypeOK
  <1>3. OnTheWay' \subseteq Travelling
    BY RunTraffic DEF AccInv, Run, Writing
  <1>4. CASE Return(t)
    BY <1>1, <1>3, <1>4, AccReturn DEF MoveOps
  <1>5. CASE sendQueue # <<>> /\ Then(t, <<a>>)
    <2>1. a.op = "addToStore" /\ a.id = n
      BY DEF Send
    <2> HIDE DEF a
    <2>2. Moves(t, {Now(t)}, {a}, {})
      BY <1>1, <1>2, <1>5, ThenMoves
    <2>3. n \in Around
      <3>1. Queued = Range(sendQueue)
        BY DEF Queued, Range
      <3> QED BY <1>2, <1>5, <3>1, QueueOps DEF Around
    <2>4. ASSUME NEW u \in Threads, NEW d \in CallsOf(u) PROVE d.op \notin LockOps
      <3>1. todo[u] # <<>>
        BY <2>4 DEF CallsOf
      <3>2. CallsOf(u) = {Now(u)} \cup Below(u)
        BY <1>2, <3>1, StackSplit
      <3>3. Now(u).op \notin LockOps
        BY <1>1, <3>1 DEF WriteMutexFree, LockOps
      <3> QED BY <2>4, <3>2, <3>3 DEF AccInv, Guarded, HeadOps, LockOps
    <2>5. Answered' = Answered /\ Queued' = Queued
      BY <1>1 DEF Answered, Queued
    <2>6. Queued' \cup store' \cup Answered' \cup OnTheWay' \subseteq Around
      BY <1>1, <1>3, <2>5, AroundTravels DEF Around
    <2>7. Answered \cup store \subseteq Safe'
      BY <1>1, <2>5 DEF Safe
    <2> QED BY <1>1, <1>5, <2>1, <2>2, <2>3, <2>4, <2>5, <2>6, <2>7, AccChange DEF MoveOps, ErrOps
  <1> QED BY <1>4, <1>5 DEF Front

\* The item is stored while it is still in the queue.
LEMMA AccAddToStore ==
  ASSUME AccInv, TypeOK', NEW t \in Threads, AddToStore(t)
  PROVE  AccInv'
  <1> USE DEF itemVars, queueVars, connVars, loopVars, setupVars, netVars, budgetVars, outsideVars
  <1> DEFINE n == Now(t).id
             a == Send("removeFirst", Now(t).on, n, Now(t).held)
  <1>1. /\ todo[t] # <<>> /\ Now(t).op = "addToStore" /\ Then(t, <<a>>)
        /\ UNCHANGED <<authIDs, nextID, sendQueue, outcome>>
        /\ store' = store \cup {n}
    BY DEF AddToStore, At, Now
  <1>2. a.op = "removeFirst" /\ a.id = n
    BY DEF Send
  <1>3. todo \in [Threads -> Seq(Call)]
    BY DEF AccInv, TypeOK
  <1> HIDE DEF a
  <1>4. Moves(t, {Now(t)}, {a}, {})
    BY <1>1, <1>3, ThenMoves
  <1>5. /\ n \in Around /\ sendQueue # <<>> /\ Head(sendQueue) \in {n} \cup authIDs
        /\ \A u \in Threads \ {t} : \A d \in CallsOf(u) : d.op \notin LockOps
    BY <1>1, AccNow DEF ItemCalls, LockOps
  <1>6. Answered' = Answered /\ Queued' = Queued
    BY <1>1 DEF Answered, Queued
  <1>7. OnTheWay' \subseteq Around
    BY RunTraffic, AroundTravels DEF AccInv, Run, Writing
  <1>8. Queued' \cup store' \cup Answered' \cup OnTheWay' \subseteq Around
    BY <1>1, <1>5, <1>6, <1>7 DEF Around
  <1>9. Answered \cup store \subseteq Safe' /\ n \in Safe'
    BY <1>1, <1>6 DEF Safe
  <1> QED BY <1>1, <1>2, <1>4, <1>5, <1>6, <1>8, <1>9, AccChange DEF MoveOps, ErrOps

\* The first of the queue leaves it: the stored item, or an authentication
\* request that was put before it.
LEMMA AccRemoveFirst ==
  ASSUME AccInv, TypeOK', NEW t \in Threads, RemoveFirst(t)
  PROVE  AccInv'
  <1> USE DEF itemVars, queueVars, connVars, loopVars, setupVars, netVars, budgetVars, outsideVars
  <1> DEFINE n == Now(t).id
             a == Plain("startReading")
             b == Send("issueWrite", Now(t).on, n, Now(t).held)
  <1>1. /\ todo[t] # <<>> /\ Now(t).op = "removeFirst" /\ Then(t, <<a, b>>)
        /\ UNCHANGED <<authIDs, nextID, store, outcome>>
        /\ sendQueue' = Tail(sendQueue)
    BY DEF RemoveFirst, WriteCallsFor, At, Now
  <1>2. a.op = "startReading" /\ b.op = "issueWrite" /\ b.id = n
    BY DEF Plain, Send
  <1>3. todo \in [Threads -> Seq(Call)] /\ sendQueue \in Seq(IDs)
    BY DEF AccInv, TypeOK
  <1> HIDE DEF a, b
  <1>4. Moves(t, {Now(t)}, {}, {a, b})
    BY <1>1, <1>3, ThenMoves
  <1>5. /\ n \in Around /\ n \in Safe /\ sendQueue # <<>> /\ Head(sendQueue) \in {n} \cup authIDs
        /\ \A u \in Threads \ {t} : \A d \in CallsOf(u) : d.op \notin LockOps
    BY <1>1, AccNow DEF ItemCalls, LockOps
  <1>6. /\ Answered' = Answered
        /\ Queued' \subseteq Queued /\ Queued \subseteq Queued' \cup {Head(sendQueue)}
    <2>1. Queued = Range(sendQueue) /\ Queued' = Range(sendQueue')
      BY DEF Queued, Range
    <2> QED BY <1>1, <1>3, <1>5, <2>1, QueueOps DEF Answered
  <1>7. OnTheWay' \subseteq Around
    BY RunTraffic, AroundTravels DEF AccInv, Run, Writing
  <1>8. Queued' \cup store' \cup Answered' \cup OnTheWay' \subseteq Around
    BY <1>1, <1>6, <1>7 DEF Around
  <1>9. Safe \subseteq Safe'
    <2>1. InCall(MoveOps) \subseteq InCall(MoveOps)'
      BY <1>1, <1>4, InCallMoves DEF MoveOps
    <2> QED BY <1>1, <1>6, <2>1 DEF Safe
  <1>10. Queued \subseteq Queued' \cup Safe' \cup authIDs'
    BY <1>1, <1>5, <1>6, <1>9
  <1>11. Answered \cup store \subseteq Safe'
    BY <1>9 DEF Safe
  <1>12. \A c \in {a, b} : c.op \notin ErrOps /\ c.op \notin HeadOps
                           /\ (c.op \in ItemCalls => c.id \in Around)
    BY <1>2, <1>5 DEF ErrOps, HeadOps, ItemCalls
  <1> QED BY <1>1, <1>4, <1>5, <1>8, <1>10, <1>11, <1>12, AccChange DEF MoveOps

\* MessageStore::removeByID.
LEMMA AccRemoveByID ==
  ASSUME AccInv, TypeOK', NEW t \in Threads, RemoveByID(t)
  PROVE  AccInv'
  <1> USE DEF itemVars, queueVars, connVars, loopVars, setupVars, netVars, budgetVars, outsideVars
  <1> DEFINE n == Now(t).id
             a == Item("moveRequest", n, Now(t).err)
  <1>1. /\ todo[t] # <<>> /\ Now(t).op = "removeByID" /\ Then(t, <<a>>)
        /\ UNCHANGED <<authIDs, nextID, sendQueue, outcome>>
        /\ store' = store \ {n}
    BY DEF RemoveByID, Without, At, Now
  <1>2. a.op = "moveRequest" /\ a.id = n /\ a.err = Now(t).err
    BY DEF Item
  <1>3. todo \in [Threads -> Seq(Call)]
    BY DEF AccInv, TypeOK
  <1> HIDE DEF a
  <1>4. Moves(t, {Now(t)}, {a}, {})
    BY <1>1, <1>3, ThenMoves
  <1>5. n \in IDs /\ n \in Around /\ Now(t).err # "none"
    BY <1>1, AccNow DEF ItemCalls, ErrOps
  <1>6. Answered' = Answered /\ Queued' = Queued
    BY <1>1 DEF Answered, Queued
  <1>7. OnTheWay' \subseteq Around
    BY RunTraffic, AroundTravels DEF AccInv, Run, Reading
  <1>8. Queued' \cup store' \cup Answered' \cup OnTheWay' \subseteq Around
    BY <1>1, <1>6, <1>7 DEF Around
  <1>9. n \in InCall(MoveOps)'
    BY <1>2, <1>4, <1>5, InCallMoves DEF MoveOps
  <1>10. Answered \cup store \subseteq Safe'
    BY <1>1, <1>6, <1>9 DEF Safe
  <1>11. \A u \in Threads : \A d \in CallsOf(u) : d.op \in LockOps =>
           sendQueue' # <<>> /\ Head(sendQueue') \in {d.id} \cup authIDs'
    BY <1>1, AccNow
  <1> QED BY <1>1, <1>2, <1>4, <1>5, <1>6, <1>8, <1>10, <1>11, AccChange DEF MoveOps, LockOps

\* std::move(item->_request).
LEMMA AccMoveRequest ==
  ASSUME AccInv, TypeOK', NEW t \in Threads, MoveRequest(t)
  PROVE  AccInv'
  <1> USE DEF itemVars, queueVars, connVars, loopVars, setupVars, netVars, budgetVars, outsideVars
  <1> DEFINE n == Now(t).id
             a == [op |-> "invoke", on |-> 0, id |-> n, err |-> Now(t).err, held |-> n \in owns]
  <1>1. /\ todo[t] # <<>> /\ Now(t).op = "moveRequest" /\ Then(t, <<a>>)
        /\ UNCHANGED <<authIDs, nextID, sendQueue, store, outcome>>
    BY DEF MoveRequest, At, Now
  <1>2. a.op = "invoke" /\ a.id = n /\ a.err = Now(t).err
    OBVIOUS
  <1>3. todo \in [Threads -> Seq(Call)]
    BY DEF AccInv, TypeOK
  <1> HIDE DEF a
  <1>4. Moves(t, {Now(t)}, {a}, {})
    BY <1>1, <1>3, ThenMoves
  <1>5. n \in IDs /\ n \in Around /\ Now(t).err # "none"
    BY <1>1, AccNow DEF ItemCalls, ErrOps
  <1>6. Answered' = Answered /\ Queued' = Queued
    BY <1>1 DEF Answered, Queued
  <1>7. OnTheWay' \subseteq Around
    BY RunTraffic, AroundTravels DEF AccInv, Run, Reading
  <1>8. Queued' \cup store' \cup Answered' \cup OnTheWay' \subseteq Around
    BY <1>1, <1>6, <1>7 DEF Around
  <1>9. n \in InCall(MoveOps)'
    BY <1>2, <1>4, <1>5, InCallMoves DEF MoveOps
  <1>10. Answered \cup store \subseteq Safe' /\ n \in Safe'
    BY <1>1, <1>6, <1>9 DEF Safe
  <1>11. \A u \in Threads : \A d \in CallsOf(u) : d.op \in LockOps =>
           sendQueue' # <<>> /\ Head(sendQueue') \in {d.id} \cup authIDs'
    BY <1>1, AccNow
  <1> QED BY <1>1, <1>2, <1>4, <1>5, <1>6, <1>8, <1>10, <1>11, AccChange DEF LockOps

\* What invoke and cancelAll do to the callbacks.
LEMMA Answering ==
  ASSUME AccInv, NEW t \in Threads
  PROVE  /\ Invoke(t) => Answered' = Answered \cup {Now(t).id}
         /\ CancelAll(t) => Answered' = Answered \cup store
  <1>1. outcome \in [IDs -> Outcomes] /\ store \subseteq IDs
    BY DEF AccInv, TypeOK
  <1>2. ASSUME Invoke(t) PROVE Answered' = Answered \cup {Now(t).id}
    <2>1. todo[t] # <<>> /\ Now(t).op = "invoke"
      BY <1>2 DEF Invoke, At, Now
    <2>2. Now(t).id \in IDs /\ Now(t).err # "none"
      BY <2>1, AccNow DEF ItemCalls, ErrOps
    <2>3. outcome' = IF outcome[Now(t).id] = "none"
                     THEN [outcome EXCEPT ![Now(t).id] = Now(t).err] ELSE outcome
      BY <1>2 DEF Invoke, NotInvoked
    <2> QED BY <1>1, <2>2, <2>3 DEF Answered
  <1>3. ASSUME CancelAll(t) PROVE Answered' = Answered \cup store
    <2>1. todo[t] # <<>> /\ Now(t).op = "cancelAll"
      BY <1>3 DEF CancelAll, At, Now
    <2>2. Now(t).err # "none"
      BY <2>1, AccNow DEF ErrOps
    <2>3. outcome' = [i \in IDs |-> IF i \in store /\ outcome[i] = "none"
                                    THEN Now(t).err ELSE outcome[i]]
      BY <1>3 DEF CancelAll, Cancelled, NotInvoked
    <2> QED BY <1>1, <2>2, <2>3 DEF Answered
  <1> QED BY <1>2, <1>3

\* CallOnceRequestCallback::invoke, and MessageStore::cancelAll.
LEMMA AccAnswer ==
  ASSUME AccInv, TypeOK', NEW t \in Threads, Invoke(t) \/ CancelAll(t)
  PROVE  AccInv'
  <1> USE DEF itemVars, queueVars, connVars, loopVars, setupVars, netVars, budgetVars, outsideVars
  <1> DEFINE a == Plain("onFailure")
  <1>1. /\ todo[t] # <<>> /\ Now(t).op \in {"invoke", "cancelAll"}
        /\ Return(t) \/ Then(t, <<a>>)
        /\ UNCHANGED <<authIDs, nextID, sendQueue>>
    BY DEF Invoke, CancelAll, At, Now, Return
  <1>2. a.op = "onFailure"
    BY DEF Plain
  <1>3. todo \in [Threads -> Seq(Call)]
    BY DEF AccInv, TypeOK
  <1> HIDE DEF a
  <1>4. \E top \in {{}, {a}} : Moves(t, {Now(t)}, top, {})
    BY <1>1, <1>3, ThenMoves
  <1>5. PICK top \in {{}, {a}} : Moves(t, {Now(t)}, top, {})
    BY <1>4
  <1>6. /\ Answered \cup store \subseteq Answered' \cup store'
        /\ Now(t).op \in MoveOps => Now(t).id \in Answered'
        /\ Answered' \cup store' \subseteq Around
    <2>1. CASE Invoke(t)
      <3>1. Now(t).op = "invoke" /\ store' = store
        BY <2>1 DEF Invoke, At, Now
      <3>2. Now(t).id \in Around
        BY <1>1, <3>1, AccNow DEF ItemCalls
      <3> QED BY <2>1, <3>1, <3>2, Answering DEF Around
    <2>2. CASE CancelAll(t)
      <3>1. Now(t).op = "cancelAll" /\ store' = {}
        BY <2>2 DEF CancelAll, At, Now
      <3> QED BY <2>2, <3>1, Answering DEF Around, MoveOps
    <2> QED BY <2>1, <2>2
  <1>7. Queued' = Queued
    BY <1>1 DEF Queued
  <1>8. OnTheWay' \subseteq Around
    BY RunTraffic, AroundTravels DEF AccInv, Run, Reading, Restarting
  <1>9. Queued' \cup store' \cup Answered' \cup OnTheWay' \subseteq Around
    BY <1>6, <1>7, <1>8 DEF Around
  <1>10. Answered \cup store \subseteq Safe' /\ (Now(t).op \in MoveOps => Now(t).id \in Safe')
    BY <1>6 DEF Safe
  <1>11. \A u \in Threads : \A d \in CallsOf(u) : d.op \in LockOps =>
           sendQueue' # <<>> /\ Head(sendQueue') \in {d.id} \cup authIDs'
    BY <1>1, AccNow
  <1>12. \A c \in top : c.op \notin ErrOps /\ c.op \notin ItemCalls /\ c.op \notin LockOps
                        /\ c.op # "removeFirst"
    BY <1>2 DEF ErrOps, ItemCalls, LockOps
  <1> QED BY <1>1, <1>5, <1>7, <1>9, <1>10, <1>11, <1>12, AccChange

\* sendRequest numbers a new item.
LEMMA AccSendRequest ==
  ASSUME AccInv, TypeOK', NEW t \in Threads, SendRequest(t)
  PROVE  AccInv'
  <1> USE DEF itemVars, queueVars, connVars, loopVars, setupVars, netVars, budgetVars, outsideVars
  <1> DEFINE n == nextID + 1
             a == Item("enqueue", n, "none")
             b == Plain("checkConnected")
             new == {n}
  <1>1. /\ todo[t] = <<>>
        /\ UNCHANGED <<authIDs, sendQueue, store, outcome>> /\ UNCHANGED <<rd, wr, wire, owed>>
        /\ nextID' = n /\ nextID < MaxID
        /\ todo' = [todo EXCEPT ![t] = <<a, b>>]
    BY DEF SendRequest, NewItem, SendCalls, Idle
  <1>2. a.op = "enqueue" /\ a.id = n /\ b.op = "checkConnected"
    BY DEF Item, Plain
  <1>3. nextID \in Nat /\ todo \in [Threads -> Seq(Call)]
    BY BoundsAssumption DEF AccInv, TypeOK
  <1>4. n \in IDs /\ 1 .. nextID' = 1 .. nextID \cup new
    BY <1>1, <1>3, BoundsAssumption DEF IDs, MaxID
  <1> HIDE DEF a, b
  <1>5. Moves(t, {}, {a}, {b})
    BY <1>1, <1>3, BeginMoves
  <1>6. Answered' = Answered /\ Queued' = Queued
    BY <1>1 DEF Answered, Queued
  <1>7. OnTheWay' \subseteq Around
    BY <1>1, SameTraffic, AroundTravels
  <1>8. Queued' \cup store' \cup Answered' \cup OnTheWay' \subseteq Around
    BY <1>1, <1>6, <1>7 DEF Around
  <1>9. n \in InCall({"enqueue"})'
    BY <1>2, <1>4, <1>5, InCallMoves
  <1>10. Answered \cup store \subseteq Safe'
    BY <1>1, <1>6 DEF Safe
  <1>11. \A u \in Threads : \A d \in CallsOf(u) : d.op \in LockOps =>
           sendQueue' # <<>> /\ Head(sendQueue') \in {d.id} \cup authIDs'
    BY <1>1 DEF AccInv, Guarded
  <1>12. \A c \in {a} \cup {b} : c.op \notin ErrOps /\ c.op \notin LockOps /\ c.op # "removeFirst"
                                 /\ (c.op \in ItemCalls => c.id \in Around \cup new)
    BY <1>2 DEF ErrOps, ItemCalls, LockOps
  <1>13. \A c \in {b} : c.op \notin HeadOps
    BY <1>2 DEF HeadOps
  <1>14. new \subseteq Queued' \cup Safe' \cup InCall({"enqueue"})' \cup authIDs'
    BY <1>9
  <1>15. /\ authIDs' \subseteq authIDs \cup new /\ authIDs \subseteq authIDs'
         /\ Queued' \cup store' \cup Answered' \cup OnTheWay' \subseteq Around \cup new
         /\ Queued \subseteq Queued' \cup Safe' \cup authIDs'
    BY <1>1, <1>6, <1>8
  <1> DEFINE old == {}
             top == {a}
             rest == {b}
  <1>16. /\ Moves(t, old, top, rest)
         /\ \A c \in old : c.op \in MoveOps => c.id \in Safe'
         /\ \A c \in old : c.op = "enqueue" => c.id \in Queued'
         /\ \A c \in top \cup rest : c.op \notin ErrOps /\ c.op # "removeFirst"
                                     /\ c.op \notin LockOps
                                     /\ (c.op \in ItemCalls => c.id \in Around \cup new)
         /\ \A c \in rest : c.op \notin HeadOps
    BY <1>5, <1>12, <1>13
  <1> HIDE DEF n, new, old, top, rest
  <1> QED BY <1>4, <1>10, <1>11, <1>14, <1>15, <1>16, AccMoves

\* The authentication request goes to the front of the queue.
LEMMA AccInsertAuth ==
  ASSUME AccInv, TypeOK', NEW t \in Threads, InsertAuthenticationRequests(t)
  PROVE  AccInv'
  <1> USE DEF itemVars, queueVars, connVars, loopVars, setupVars, netVars, budgetVars, outsideVars
  <1>1. todo[t] # <<>> /\ Now(t).op = "insertAuth" /\ Return(t) /\ UNCHANGED <<store, outcome>>
    BY DEF InsertAuthenticationRequests, At, Now
  <1>2. OnTheWay' \subseteq Travelling
    BY RunTraffic DEF AccInv, Run, Connecting
  <1>3. CASE ~Auth
    <2>1. UNCHANGED <<authIDs, nextID, sendQueue>>
      BY <1>3 DEF InsertAuthenticationRequests
    <2> QED BY <1>1, <1>2, <2>1, AccReturn DEF MoveOps
  <1>4. CASE Auth
    <2> DEFINE n == nextID + 1
               new == {n}
    <2>1. /\ nextID' = n /\ nextID < MaxID /\ authIDs' = authIDs \cup {n}
          /\ sendQueue' = <<n>> \o sendQueue
      BY <1>4 DEF InsertAuthenticationRequests, NewItem
    <2>2. nextID \in Nat /\ todo \in [Threads -> Seq(Call)] /\ sendQueue \in Seq(IDs)
      BY BoundsAssumption DEF AccInv, TypeOK
    <2>3. n \in IDs /\ 1 .. nextID' = 1 .. nextID \cup new
      BY <2>1, <2>2, BoundsAssumption DEF IDs, MaxID
    <2>4. Moves(t, {Now(t)}, {}, {})
      BY <1>1, <2>2, ThenMoves
    <2>5. Queued' = Queued \cup {n} /\ sendQueue' # <<>> /\ Head(sendQueue') = n
      <3>1. <<n>> \in Seq(IDs) /\ Range(<<n>>) = {n} /\ Len(<<n>>) = 1 /\ <<n>>[1] = n
        BY <2>3 DEF Range
      <3> DEFINE m == <<n>>
      <3> HIDE DEF m, n
      <3>0. m \in Seq(IDs)
        BY <3>1 DEF m
      <3>2. Range(m \o sendQueue) = Range(m) \cup Range(sendQueue)
        BY <2>2, <3>0, RangeConcat
      <3>3. /\ m \o sendQueue \in Seq(IDs) /\ Len(m \o sendQueue) = Len(m) + Len(sendQueue)
            /\ \A k \in 1 .. Len(m) + Len(sendQueue) :
                 (m \o sendQueue)[k] = IF k <= Len(m) THEN m[k] ELSE sendQueue[k - Len(m)]
        BY <2>2, <3>1, ConcatProperties DEF m
      <3>4. Len(sendQueue) \in Nat /\ Len(m) = 1 /\ m[1] = n /\ Range(m) = {n}
        BY <2>2, <3>1 DEF m
      <3>5. sendQueue' \in Seq(IDs) /\ Len(sendQueue') = 1 + Len(sendQueue) /\ sendQueue'[1] = n
        BY <2>1, <3>3, <3>4 DEF m
      <3>6. sendQueue' # <<>> /\ Head(sendQueue') = n
        BY <3>4, <3>5
      <3>7. Queued = Range(sendQueue) /\ Queued' = Range(sendQueue')
        BY DEF Queued, Range
      <3> QED BY <2>1, <3>2, <3>4, <3>6, <3>7 DEF m
    <2>6. Answered' = Answered
      BY <1>1 DEF Answered
    <2>7. Queued' \cup store' \cup Answered' \cup OnTheWay' \subseteq Around \cup new
      BY <1>1, <1>2, <2>5, <2>6, AroundTravels DEF Around
    <2>8. Answered \cup store \subseteq Safe'
      BY <1>1, <2>6 DEF Safe
    <2>9. sendQueue' # <<>> /\ Head(sendQueue') \in authIDs'
      BY <2>1, <2>5
    <2>10. authIDs' = authIDs \cup new /\ new \subseteq Queued'
      BY <2>1, <2>5
    <2> DEFINE old == {Now(t)}
               top == {}
               rest == {}
    <2>11. /\ authIDs' \subseteq authIDs \cup new /\ authIDs \subseteq authIDs'
           /\ Queued \subseteq Queued' \cup Safe' \cup authIDs'
           /\ new \subseteq Queued' \cup Safe' \cup InCall({"enqueue"})' \cup authIDs'
      BY <2>5, <2>10
    <2>12. /\ Moves(t, old, top, rest)
           /\ \A c \in old : c.op \notin MoveOps /\ c.op # "enqueue"
           /\ \A c \in top \cup rest : FALSE
      BY <1>1, <2>4 DEF MoveOps
    <2> HIDE DEF n, new, old, top, rest
    <2> QED BY <2>3, <2>7, <2>8, <2>9, <2>11, <2>12, AccMoves
  <1> QED BY <1>3, <1>4

----------------------------------------------------------------------------
(* The theorems.                                                           *)

\* A new connection has nothing to account for.
LEMMA AccInit == Init => AccInv
  <1> SUFFICES ASSUME Init PROVE AccInv
    OBVIOUS
  <1>1. TypeOK /\ authIDs = {} /\ nextID = 0 /\ store = {}
    BY TypeInit DEF Init
  <1>2. \A t \in Threads : CallsOf(t) = {} /\ Below(t) = {}
    BY DEF Init, CallsOf, Below
  <1>3. \A ops : InCall(ops) = {}
    BY <1>2 DEF InCall
  <1>4. Queued = {} /\ Answered = {}
    BY DEF Init, Queued, Answered
  <1>5. OnTheWay = {}
    BY IndInit DEF IndInv, Numbered, Travelling, Init
  <1>6. Known
    BY <1>1, <1>3, <1>4, <1>5 DEF Known, Around
  <1>7. Kept
    BY <1>1 DEF Kept
  <1> QED BY <1>1, <1>2, <1>6, <1>7 DEF AccInv, Failing, Guarded, Taken

\* Every step keeps the invariant.
LEMMA AccStep == AccInv /\ [Next]_vars => AccInv'
  <1> SUFFICES ASSUME AccInv, [Next]_vars PROVE AccInv'
    OBVIOUS
  <1>1. TypeOK'
    BY TypeStep DEF AccInv
  <1>2. CASE UNCHANGED vars
    <2>1. /\ UNCHANGED <<todo, authIDs, nextID, sendQueue, store, outcome>>
          /\ UNCHANGED <<rd, wr, wire, owed>>
      BY <1>2 DEF vars, itemVars, queueVars, loopVars, netVars, outsideVars
    <2>2. OnTheWay' \subseteq OnTheWay
      BY <2>1 DEF OnTheWay
    <2> QED BY <1>1, <2>1, <2>2, AccIdle
  <1>3. ASSUME NEW t \in Users, SendRequest(t) PROVE AccInv'
    BY <1>1, <1>3, AccSendRequest DEF Threads
  <1>4. ASSUME NEW t \in Threads, Run(t) PROVE AccInv'
    <2>1. CASE Writing(t)
      BY <1>1, <2>1, AccQuietRun, AccEnqueue, AccFront, AccAddToStore, AccRemoveFirst DEF Writing
    <2>2. CASE Reading(t)
      BY <1>1, <2>2, AccQuietRun, AccFindByID, AccRemoveByID, AccMoveRequest, AccAnswer DEF Reading
    <2>3. CASE Restarting(t)
      BY <1>1, <2>3, AccQuietRun, AccRestart, AccAnswer DEF Restarting
    <2>4. CASE Connecting(t)
      BY <1>1, <2>4, AccQuietRun, AccInsertAuth DEF Connecting
    <2>5. CASE Dying(t)
      BY <1>1, <2>5, AccEnvironment
    <2> QED BY <1>4, <2>1, <2>2, <2>3, <2>4, <2>5 DEF Run
  <1>5. ASSUME NEW t \in IoThreads, Dispatch(t) PROVE AccInv'
    BY <1>1, <1>5, AccHandler, AccSetupHandler DEF Dispatch, Threads
  <1> QED BY <1>1, <1>2, <1>3, <1>4, <1>5, AccEnvironment DEF Next

\* The invariant holds in every behaviour.
LEMMA AccAlways == Spec => []AccInv
  BY AccInit, AccStep, PTL DEF Spec

\* Which steps number items, and which call callbacks.
LEMMA WhoAnswers ==
  ASSUME [Next]_vars
  PROVE  \/ UNCHANGED <<nextID, authIDs, outcome, handed>>
         \/ \E t \in Threads : \/ SendRequest(t) \/ InsertAuthenticationRequests(t)
                               \/ Invoke(t) \/ CancelAll(t)
  <1> USE DEF itemVars, queueVars, connVars, loopVars, setupVars, netVars, budgetVars, outsideVars
  <1>1. CASE UNCHANGED vars
    BY <1>1 DEF vars
  <1>2. ASSUME NEW t \in Threads, Run(t)
        PROVE  \/ UNCHANGED <<nextID, authIDs, outcome, handed>>
               \/ InsertAuthenticationRequests(t) \/ Invoke(t) \/ CancelAll(t)
    <2>1. CASE Writing(t)
      BY <2>1 DEF Writing, Enqueue, CheckConnected, StartWriting, Front, AddToStore, RemoveFirst,
                  IssueWrite
    <2>2. CASE Reading(t)
      BY <2>2 DEF Reading, StartReading, ReadNextBytes, IssueRead, FindByID, RemoveByID, MoveRequest
    <2>3. CASE Restarting(t)
      BY <2>3 DEF Restarting, RestartRead, RestartWrite, RestartOf, Restart, StopWriting,
                  StopReading, ShutdownSocket, ResolveAgain
    <2>4. CASE Connecting(t)
      BY <2>4 DEF Connecting, InitSocket, StartSSLHandshake, FinishInitialization, SetConnected,
                  OnFailure
    <2>5. CASE Dying(t)
      BY <2>5 DEF Dying, DerefFreedLoop, DerefNullRequest, DerefNullSocket, AssertFails, Abort
    <2> QED BY <1>2, <2>1, <2>2, <2>3, <2>4, <2>5 DEF Run
  <1>3. ASSUME NEW t \in IoThreads, Dispatch(t) PROVE UNCHANGED <<nextID, authIDs, outcome, handed>>
    BY <1>3 DEF Dispatch, ReadCallback, ReadDeadline, WriteCallback, WriteDeadline, ResolveCallback,
                AsyncConnectCallback, HandshakeCallback, HeaderCallback, Handles
  <1>4. CASE Completion \/ Expiry \/ Server \/ Fault
    BY <1>4 DEF Completion, Expiry, Server, Fault, WriteCompletes, WriteFails, ReadCompletes,
                ReadFails, SetupCompletes, ReadExpires, WriteExpires, Respond, SetupFails,
                ConnectionLost
  <1> QED BY <1>1, <1>2, <1>3, <1>4 DEF Next, Threads

\* Without authentication there are no authentication requests.
LEMMA NoAuthentication ==
  ASSUME ~Auth
  PROVE  Spec => [](authIDs = {})
  <1>1. Init => authIDs = {}
    BY DEF Init
  <1>2. ASSUME authIDs = {}, [Next]_vars PROVE authIDs' = {}
    <2>1. ASSUME NEW t \in Threads,
                 \/ SendRequest(t) \/ InsertAuthenticationRequests(t) \/ Invoke(t) \/ CancelAll(t)
          PROVE  UNCHANGED authIDs
      BY <2>1 DEF SendRequest, InsertAuthenticationRequests, Invoke, CancelAll
    <2> QED BY <1>2, <2>1, WhoAnswers
  <1>3. authIDs = {} /\ [Next]_vars => (authIDs = {})'
    BY <1>2
  <1> QED BY <1>1, <1>3, PTL DEF Spec

\* No request is lost between sendRequest, the queue, the store and its
\* callback, on a connection without authentication: getNextRequestToSend
\* stores an item before it takes it from the queue, and whoever takes it
\* from the store calls it back.
THEOREM NothingLost ==
  ASSUME ~Auth
  PROVE  Spec => []Accounted
  <1>1. AccInv /\ authIDs = {} => Accounted
    <2> SUFFICES ASSUME AccInv, authIDs = {} PROVE Accounted
      OBVIOUS
    <2>1. 1 .. nextID \subseteq Safe \cup Queued \cup InCall({"enqueue"})
      BY DEF AccInv, Kept
    <2>2. InCall(MoveOps) \cup InCall({"enqueue"})
            \subseteq InCall({"enqueue", "moveRequest", "invoke"})
      BY DEF InCall, MoveOps
    <2> QED BY <2>1, <2>2 DEF Safe, Accounted
  <1> QED BY <1>1, AccAlways, NoAuthentication, PTL

----------------------------------------------------------------------------
(* VstConnection implements Connection.                                    *)

\* What users see of the callbacks.
Result == [i \in IDs |-> IF i \in authIDs THEN "none" ELSE outcome[i]]

\* The connection is responsible for every request it did not answer.
Responsible == /\ Pending = ((1 .. nextID) \ authIDs) \ Answered
               /\ Answered \subseteq 1 .. nextID /\ authIDs \subseteq 1 .. nextID
               /\ 1 .. nextID \subseteq IDs

\* The items in the hands of queue, store and threads are those requests.
LEMMA PendingIs ==
  /\ AccInv => Responsible
  /\ AccInv' => Responsible'
  <1>1. ASSUME AccInv PROVE Responsible
    <2>1. (1 .. nextID) \ authIDs \subseteq Safe \cup Queued \cup InCall({"enqueue"})
      BY <1>1 DEF AccInv, Kept
    <2>2. InCall(MoveOps) \cup InCall({"enqueue"})
            \subseteq InCall({"enqueue", "moveRequest", "invoke"})
      BY DEF InCall, MoveOps
    <2>3. Pending = ((1 .. nextID) \ authIDs) \ Answered
      BY <2>1, <2>2 DEF Safe, Pending
    <2>4. Answered \subseteq 1 .. nextID /\ authIDs \subseteq 1 .. nextID
      BY <1>1 DEF AccInv, Known, Around
    <2>5. nextID \in Nat /\ nextID <= MaxID
      BY <1>1, BoundsAssumption DEF AccInv, TypeOK, MaxID
    <2>6. 1 .. nextID \subseteq IDs
      BY <2>5, BoundsAssumption DEF IDs, MaxID
    <2> QED BY <2>3, <2>4, <2>6 DEF Responsible
  <1>2. AccInv => Responsible
    BY <1>1
  <1> QED BY <1>2, PTL

\* sendRequest accepts a request; an authentication request is not seen.
LEMMA NumberingImplements ==
  ASSUME AccInv, AccInv', NEW t \in Threads, SendRequest(t) \/ InsertAuthenticationRequests(t)
  PROVE  \/ \E r \in IDs : r \notin Pending /\ Result[r] = "none"
                           /\ Pending' = Pending \cup {r} /\ Result' = Result
         \/ Pending' = Pending /\ Result' = Result
  <1> USE DEF itemVars, queueVars, connVars, loopVars, setupVars, netVars, budgetVars, outsideVars
  <1> DEFINE n == nextID + 1
  <1>1. nextID \in Nat /\ outcome' = outcome
    BY BoundsAssumption
       DEF AccInv, TypeOK, SendRequest, InsertAuthenticationRequests
  <1>2. Answered' = Answered
    BY <1>1 DEF Answered
  <1>3. /\ Pending = ((1 .. nextID) \ authIDs) \ Answered
        /\ Pending' = ((1 .. nextID') \ authIDs') \ Answered
        /\ Answered \subseteq 1 .. nextID /\ authIDs \subseteq 1 .. nextID
        /\ 1 .. nextID' \subseteq IDs
    BY <1>2, PendingIs DEF Responsible
  <1>4. CASE UNCHANGED <<nextID, authIDs>>
    BY <1>1, <1>3, <1>4 DEF Result
  <1>5. CASE nextID' = n
    <2>1. 1 .. nextID' = 1 .. nextID \cup {n} /\ n \notin 1 .. nextID
      BY <1>1, <1>5
    <2>2. n \in IDs /\ n \notin Answered /\ n \notin authIDs /\ n \notin Pending
      BY <1>3, <2>1
    <2>3. outcome[n] = "none"
      BY <2>2 DEF Answered
    <2> HIDE DEF n
    <2>4. CASE authIDs' = authIDs
      BY <1>1, <1>3, <2>1, <2>2, <2>3, <2>4 DEF Result
    <2>5. CASE authIDs' = authIDs \cup {n}
      BY <1>1, <1>3, <2>1, <2>2, <2>3, <2>5 DEF Result
    <2>6. authIDs' = authIDs \/ authIDs' = authIDs \cup {n}
      BY DEF SendRequest, InsertAuthenticationRequests, n
    <2> QED BY <2>4, <2>5, <2>6
  <1> QED BY <1>4, <1>5 DEF SendRequest, InsertAuthenticationRequests, NewItem

\* A callback answers its request; that of an authentication request, and a
\* second call, are not seen.
LEMMA AnsweringImplements ==
  ASSUME AccInv, AccInv', NEW t \in Threads, Invoke(t) \/ CancelAll(t)
  PROVE  \/ \E rs \in SUBSET IDs, res \in Outcomes \ {"none"} :
              /\ rs # {} /\ rs \subseteq Pending /\ Pending' = Pending \ rs
              /\ Result' = [i \in IDs |-> IF i \in rs THEN res ELSE Result[i]]
         \/ Pending' = Pending /\ Result' = Result
  <1> USE DEF itemVars, queueVars, connVars, loopVars, setupVars, netVars, budgetVars, outsideVars
  <1>1. UNCHANGED <<nextID, authIDs>> /\ todo[t] # <<>> /\ Now(t).op \in ErrOps
    BY DEF Invoke, CancelAll, At, Now, ErrOps
  <1>2. outcome \in [IDs -> Outcomes] /\ store \subseteq IDs /\ authIDs \subseteq IDs
    BY DEF AccInv, TypeOK
  <1>3. Now(t).err \in Outcomes \ {"none"}
    BY <1>1, AccNow
  <1> DEFINE done == Answered' \ Answered
             rs == done \ authIDs
  <1>4. /\ Pending = ((1 .. nextID) \ authIDs) \ Answered
        /\ Pending' = ((1 .. nextID) \ authIDs) \ Answered'
        /\ Answered' \subseteq 1 .. nextID /\ 1 .. nextID \subseteq IDs
    <2>1. 1 .. nextID' = 1 .. nextID
      BY <1>1
    <2> QED BY <1>1, <2>1, PendingIs DEF Responsible
  <1>5. Answered \subseteq Answered'
    BY Answering
  <1>6. outcome' = [i \in IDs |-> IF i \in done THEN Now(t).err ELSE outcome[i]]
    <2>1. CASE Invoke(t)
      <3>1. outcome' = IF outcome[Now(t).id] = "none"
                       THEN [outcome EXCEPT ![Now(t).id] = Now(t).err] ELSE outcome
        BY <2>1 DEF Invoke, NotInvoked
      <3>2. Now(t).id \in IDs
        <4>1. Now(t).op = "invoke"
          BY <2>1 DEF Invoke, At, Now
        <4> QED BY <1>1, <4>1, AccNow DEF ItemCalls
      <3>3. Answered' = Answered \cup {Now(t).id}
        BY <2>1, Answering
      <3>4. \A i \in IDs : i \in done <=> i = Now(t).id /\ outcome[i] = "none"
        BY <3>2, <3>3 DEF Answered
      <3> HIDE DEF done
      <3> QED BY <1>2, <3>1, <3>2, <3>4
    <2>2. CASE CancelAll(t)
      <3>1. outcome' = [i \in IDs |-> IF i \in store /\ outcome[i] = "none"
                                      THEN Now(t).err ELSE outcome[i]]
        BY <2>2 DEF CancelAll, Cancelled, NotInvoked
      <3>2. Answered' = Answered \cup store
        BY <2>2, Answering
      <3>3. \A i \in IDs : i \in done <=> i \in store /\ outcome[i] = "none"
        BY <1>2, <3>2 DEF Answered
      <3> HIDE DEF done
      <3> QED BY <3>1, <3>3
    <2> QED BY <2>1, <2>2
  <1>7. /\ rs \subseteq Pending /\ Pending' = Pending \ rs /\ rs \in SUBSET IDs
    BY <1>4, <1>5
  <1>8. Result' = [i \in IDs |-> IF i \in rs THEN Now(t).err ELSE Result[i]]
    <2> HIDE DEF done
    <2> QED BY <1>1, <1>6 DEF Result
  <1>9. CASE rs = {}
    <2> HIDE DEF rs
    <2>1. Result' = Result
      BY <1>8, <1>9 DEF Result
    <2> QED BY <1>7, <1>9, <2>1
  <1>10. CASE rs # {}
    <2> HIDE DEF rs
    <2> QED BY <1>3, <1>7, <1>8, <1>10
  <1> QED BY <1>9, <1>10

\* Every step is a step of Connection, or is not seen.
LEMMA StepImplements ==
  ASSUME AccInv, AccInv', [Next]_vars
  PROVE  [C!Next]_(C!vars)
  <1>1. ASSUME Pending' = Pending, Result' = Result PROVE UNCHANGED C!vars
    BY <1>1 DEF C!vars, Result
  <1>2. CASE UNCHANGED <<nextID, authIDs, outcome, handed>>
    <2>1. Answered' = Answered /\ 1 .. nextID' = 1 .. nextID /\ authIDs' = authIDs
      BY <1>2 DEF Answered
    <2>2. Pending' = Pending
      BY <2>1, PendingIs DEF Responsible
    <2>3. Result' = Result
      BY <1>2 DEF Result
    <2> QED BY <1>1, <2>2, <2>3
  <1>3. ASSUME NEW t \in Threads, SendRequest(t) \/ InsertAuthenticationRequests(t)
        PROVE  [C!Next]_(C!vars)
    <2>1. ASSUME NEW r \in IDs, r \notin Pending, Result[r] = "none",
                 Pending' = Pending \cup {r}, Result' = Result
          PROVE  C!Next
      <3>1. C!Accept(r)
        BY <2>1 DEF C!Accept, Result
      <3> QED BY <3>1 DEF C!Next
    <2> QED BY <1>1, <1>3, <2>1, NumberingImplements
  <1>4. ASSUME NEW t \in Threads, Invoke(t) \/ CancelAll(t) PROVE [C!Next]_(C!vars)
    <2>1. ASSUME NEW rs \in SUBSET IDs, NEW res \in Outcomes \ {"none"},
                 rs # {}, rs \subseteq Pending, Pending' = Pending \ rs,
                 Result' = [i \in IDs |-> IF i \in rs THEN res ELSE Result[i]]
          PROVE  C!Next
      <3>1. C!Answer(rs, res)
        BY <2>1 DEF C!Answer, Result
      <3> QED BY <3>1 DEF C!Next
    <2> QED BY <1>1, <1>4, <2>1, AnsweringImplements
  <1> QED BY <1>2, <1>3, <1>4, WhoAnswers

\* The initial state is one of Connection.
LEMMA InitImplements == Init => C!Init
  <1> SUFFICES ASSUME Init PROVE C!Init
    OBVIOUS
  <1>1. Pending = {}
    BY DEF Init, Pending
  <1>2. Result = [i \in IDs |-> "none"]
    BY DEF Init, Result
  <1> QED BY <1>1, <1>2 DEF C!Init, Result

\* VstConnection implements Connection: a request that sendRequest took is
\* with the connection until its callback is called, and that happens once,
\* although authentication requests can be put before the request that
\* getNextRequestToSend is taking, and restarts take requests twice.
THEOREM Implements == Spec => ImplementsConnection
  <1>1. AccInv /\ AccInv' /\ [Next]_vars => [C!Next]_(C!vars)
    BY StepImplements
  <1> QED BY <1>1, InitImplements, AccAlways, PTL DEF Spec, ImplementsConnection, C!Spec

----------------------------------------------------------------------------
(* Who gets the request back: the inductive invariant.                     *)

\* Thread t makes these calls next: its current call returns after making
\* them, or it was idle.
Pushes(t, calls) == \/ todo[t] # <<>> /\ Then(t, calls)
                    \/ todo[t] = <<>> /\ todo' = [todo EXCEPT ![t] = calls]

\* The k-th call of a stack, counted from below: calls keep their number while
\* others above them come and go.
Stacked(t, k) == todo[t][(Len(todo[t]) + 1) - k]
Places(ops, i) == {p \in Threads \X Nat : /\ p[2] \in 1 .. Len(todo[p[1]])
                                          /\ Stacked(p[1], p[2]).op \in ops
                                          /\ Stacked(p[1], p[2]).id = i}

\* An item is with one thread or write as a whole while it is written and
\* while it is completed,
WholeOps == {"issueWrite", "removeByID", "moveRequest", "invoke"}
Writes(i) == {l \in Loops : wr[l].op \in {"pending", "err"} /\ Head(wr[l].data) = i}
NoHolder(i) == Places(WholeOps, i) = {} /\ Writes(i) = {}
OneHolder(i) == /\ \A p, q \in Places(WholeOps, i) : p = q
                /\ \A k, l \in Writes(i) : k = l
                /\ Places(WholeOps, i) = {} \/ Writes(i) = {}

\* and in between it is spread over the chunks of its response: those the
\* server owes, and those on the wire, in a read, or with a thread.
OnWire(s, n, i) == s \in Sockets /\ n \in Nat /\ n \in 1 .. Len(wire[s]) /\ wire[s][n] = i
InRead(l, n, i) == l \in Loops /\ n \in Nat /\ n \in 1 .. Len(rd[l].data) /\ rd[l].data[n] = i
Found(t, n, i)  == <<t, n>> \in Places({"findByID"}, i)
Copies(i) == {p \in {"wire", "read", "found"} \X (Sockets \cup Loops \cup Threads) \X Nat :
                \/ p[1] = "wire" /\ OnWire(p[2], p[3], i)
                \/ p[1] = "read" /\ InRead(p[2], p[3], i)
                \/ p[1] = "found" /\ Found(p[2], p[3], i)}
Count(i) == owed[i].left + Cardinality(Copies(i))

\* Items the server has not seen yet.
Unseen(i) == \/ i > nextID \/ i \in Queued
             \/ Places({"enqueue"}, i) # {} \/ Places({"issueWrite"}, i) # {} \/ Writes(i) # {}

\* The chunks that were added and those still to be added are never more than
\* a response has, so that only one thread adds the last one.
Shares(i) == /\ IsFiniteSet(Copies(i)) /\ Count(i) + chunks[i] <= ChunksPerResponse
             /\ OneHolder(i)
             /\ NoHolder(i) \/ Count(i) = 0
             /\ Unseen(i) => chunks[i] = 0

\* The request is with its item, with the callback, or on its way between them.
Given(i) == /\ i <= nextID => \/ i \in owns \cup handed
                             \/ \E p \in Places({"invoke"}, i) : Stacked(p[1], p[2]).held
            /\ Places({"invoke"}, i) # {} => i \notin owns
            /\ outcome[i] # "none" => i \in handed

HandInv == IndInv /\ \A i \in IDs : Shares(i) /\ Given(i)

----------------------------------------------------------------------------
(* Where calls are.                                                        *)

\* The calls of a thread below its current one.
Depth(t) == IF todo[t] = <<>> THEN 0 ELSE Len(todo[t]) - 1

LEMMA StackedPushed ==
  ASSUME todo \in [Threads -> Seq(Call)], NEW t \in Threads,
         NEW S, NEW calls \in Seq(S), Pushes(t, calls)
  PROVE  /\ \A u \in Threads \ {t} : todo'[u] = todo[u]
         /\ Depth(t) \in Nat /\ Len(calls) \in Nat /\ Len(todo'[t]) = Depth(t) + Len(calls)
         /\ Len(todo[t]) = IF todo[t] = <<>> THEN Depth(t) ELSE Depth(t) + 1
         /\ \A k \in 1 .. Depth(t) : Stacked(t, k)' = Stacked(t, k)
         /\ \A n, k \in Nat : k \in 1 .. Len(calls) /\ n = Depth(t) + k =>
              Stacked(t, n)' = calls[(Len(calls) + 1) - k]
         /\ todo[t] # <<>> => Stacked(t, Depth(t) + 1) = Now(t)
  <1>1. CASE todo[t] # <<>> /\ Then(t, calls)
    <2> DEFINE rest == Tail(todo[t])
               U == S \cup Call
               new == calls \o rest
    <2>1. rest \in Seq(U) /\ calls \in Seq(U) /\ todo'[t] = new
          /\ \A u \in Threads \ {t} : todo'[u] = todo[u]
      <3>1. rest \in Seq(Call)
        BY <1>1, HeadTailProperties
      <3> QED BY <1>1, <3>1 DEF Then
    <2>2. /\ Len(todo[t]) \in Nat /\ Len(todo[t]) > 0
          /\ Len(rest) = Len(todo[t]) - 1 /\ Len(rest) \in Nat
          /\ \A k \in 1 .. Len(rest) : rest[k] = todo[t][k + 1]
      BY <1>1, HeadTailProperties
    <2>3. Depth(t) = Len(rest) /\ Len(todo[t]) = Len(rest) + 1
      BY <1>1, <2>2 DEF Depth
    <2> HIDE DEF rest, U
    <2>4. /\ Len(calls) \in Nat /\ Len(new) = Len(calls) + Len(rest)
          /\ \A k \in 1 .. Len(calls) + Len(rest) :
               new[k] = IF k <= Len(calls) THEN calls[k] ELSE rest[k - Len(calls)]
      BY <2>1, ConcatProperties
    <2> HIDE DEF new
    <2>5. ASSUME NEW k \in 1 .. Depth(t) PROVE Stacked(t, k)' = Stacked(t, k)
      <3> DEFINE h == (Len(rest) + 1) - k
      <3>1. h \in 1 .. Len(rest) /\ (Len(new) + 1) - k = Len(calls) + h
            /\ (Len(todo[t]) + 1) - k = h + 1
        BY <2>2, <2>3, <2>4
      <3>2. Stacked(t, k)' = new[Len(calls) + h] /\ Stacked(t, k) = todo[t][h + 1]
        BY <2>1, <3>1 DEF Stacked
      <3> HIDE DEF h
      <3>3. new[Len(calls) + h] = rest[h]
        <4>1. /\ Len(calls) + h \in 1 .. Len(calls) + Len(rest) /\ ~(Len(calls) + h <= Len(calls))
              /\ (Len(calls) + h) - Len(calls) = h
          BY <2>2, <2>4, <3>1
        <4> QED BY <2>4, <4>1
      <3> QED BY <2>2, <3>1, <3>2, <3>3
    <2>6. ASSUME NEW n \in Nat, NEW k \in Nat, k \in 1 .. Len(calls), n = Depth(t) + k
          PROVE  Stacked(t, n)' = calls[(Len(calls) + 1) - k]
      <3> DEFINE h == (Len(calls) + 1) - k
      <3>1. h \in 1 .. Len(calls) /\ (Len(new) + 1) - n = h
        BY <2>2, <2>3, <2>4, <2>6
      <3>2. Stacked(t, n)' = new[(Len(new) + 1) - n]
        BY <2>1 DEF Stacked
      <3> HIDE DEF h
      <3>3. new[h] = calls[h]
        <4>1. h \in 1 .. Len(calls) + Len(rest) /\ h <= Len(calls)
          BY <2>2, <2>4, <3>1
        <4> QED BY <2>4, <4>1
      <3> QED BY <3>1, <3>2, <3>3 DEF h
    <2>7. Stacked(t, Depth(t) + 1) = Now(t)
      <3>1. (Len(todo[t]) + 1) - (Depth(t) + 1) = 1
        BY <2>2, <2>3
      <3> QED BY <1>1, <3>1 DEF Stacked, Now
    <2> QED BY <1>1, <2>1, <2>2, <2>3, <2>4, <2>5, <2>6, <2>7
  <1>2. CASE todo[t] = <<>> /\ todo' = [todo EXCEPT ![t] = calls]
    <2>1. Len(calls) \in Nat /\ todo'[t] = calls /\ Depth(t) = 0 /\ Len(todo[t]) = 0
          /\ \A u \in Threads \ {t} : todo'[u] = todo[u]
      BY <1>2 DEF Depth
    <2>2. ASSUME NEW n \in Nat, NEW k \in Nat, k \in 1 .. Len(calls), n = Depth(t) + k
          PROVE  Stacked(t, n)' = calls[(Len(calls) + 1) - k]
      BY <2>1, <2>2 DEF Stacked
    <2> QED BY <1>2, <2>1, <2>2
  <1> QED BY <1>1, <1>2 DEF Pushes

\* A call of some kind about an item: it was there before, below the current
\* call, or it is one of those that are made now.
LEMMA PlacesPushed ==
  ASSUME todo \in [Threads -> Seq(Call)], NEW t \in Threads,
         NEW S, NEW calls \in Seq(S), Pushes(t, calls), NEW ops, NEW i
  PROVE  \A p \in Places(ops, i)' :
           \/ p \in Places(ops, i) /\ p # <<t, Depth(t) + 1>>
           \/ \E k \in 1 .. Len(calls) : /\ calls[k].op \in ops /\ calls[k].id = i
                                        /\ p = <<t, Depth(t) + ((Len(calls) + 1) - k)>>
  <1> DEFINE d == Depth(t)
             m == Len(calls)
  <1>1. /\ \A u \in Threads \ {t} : todo'[u] = todo[u]
        /\ d \in Nat /\ m \in Nat /\ Len(todo'[t]) = d + m
        /\ Len(todo[t]) = IF todo[t] = <<>> THEN d ELSE d + 1
        /\ \A k \in 1 .. d : Stacked(t, k)' = Stacked(t, k)
        /\ \A n, k \in Nat : k \in 1 .. m /\ n = d + k => Stacked(t, n)' = calls[(m + 1) - k]
    BY StackedPushed
  <1>2. SUFFICES ASSUME NEW p \in Places(ops, i)'
                 PROVE  \/ p \in Places(ops, i) /\ p # <<t, d + 1>>
                        \/ \E k \in 1 .. m : /\ calls[k].op \in ops /\ calls[k].id = i
                                             /\ p = <<t, d + ((m + 1) - k)>>
    OBVIOUS
  <1> HIDE DEF d, m
  <1>3. PICK u \in Threads, n \in Nat : p = <<u, n>>
    BY DEF Places
  <1>4. /\ n \in 1 .. Len(todo'[u])
        /\ Stacked(u, n)'.op \in ops /\ Stacked(u, n)'.id = i
    <2>1. p[1] = u /\ p[2] = n
      BY <1>3
    <2> QED BY <1>2, <2>1 DEF Places
  <1>5. CASE u # t
    <2>1. todo'[u] = todo[u]
      BY <1>1, <1>5
    <2>2. Stacked(u, n)' = Stacked(u, n)
      BY <2>1 DEF Stacked
    <2>3. <<u, n>> \in Places(ops, i)
      BY <1>4, <2>1, <2>2 DEF Places
    <2> QED BY <1>3, <1>5, <2>3
  <1>6. CASE u = t /\ n <= d
    <2>1. n \in 1 .. d /\ n \in 1 .. Len(todo[t]) /\ n # d + 1
      BY <1>1, <1>4, <1>6
    <2>2. Stacked(t, n)' = Stacked(t, n)
      BY <1>1, <2>1
    <2>3. <<t, n>> \in Places(ops, i)
      BY <1>4, <1>6, <2>1, <2>2 DEF Places
    <2> QED BY <1>3, <1>6, <2>1, <2>3
  <1>7. CASE u = t /\ ~(n <= d)
    <2> DEFINE k == n - d
               h == (m + 1) - k
    <2>1. k \in 1 .. m /\ k \in Nat /\ n = d + k /\ h \in 1 .. m /\ n = d + ((m + 1) - h)
      BY <1>1, <1>4, <1>7
    <2>2. Stacked(t, n)' = calls[h]
      BY <1>1, <2>1
    <2> HIDE DEF k, h
    <2>3. calls[h].op \in ops /\ calls[h].id = i
      BY <1>4, <1>7, <2>2
    <2> QED BY <1>3, <1>7, <2>1, <2>3
  <1> QED BY <1>5, <1>6, <1>7

\* The current call has its place.
LEMMA NowPlace ==
  ASSUME todo \in [Threads -> Seq(Call)], NEW t \in Threads, todo[t] # <<>>,
         NEW ops, Now(t).op \in ops
  PROVE  <<t, Depth(t) + 1>> \in Places(ops, Now(t).id)
  <1>1. /\ Len(todo[t]) \in Nat \ {0} /\ Depth(t) = Len(todo[t]) - 1
    BY DEF Depth
  <1>2. (Len(todo[t]) + 1) - (Depth(t) + 1) = 1 /\ Depth(t) + 1 \in 1 .. Len(todo[t])
        /\ Depth(t) + 1 \in Nat
    BY <1>1
  <1>3. Stacked(t, Depth(t) + 1) = Now(t)
    BY <1>2 DEF Stacked, Now
  <1> DEFINE n == Depth(t) + 1
  <1>4. n \in Nat /\ n \in 1 .. Len(todo[t]) /\ Stacked(t, n) = Now(t)
    BY <1>2, <1>3
  <1> HIDE DEF n
  <1>5. <<t, n>> \in Places(ops, Now(t).id)
    BY <1>4 DEF Places
  <1> QED BY <1>5 DEF n

\* Items have a place exactly when they are in a call.
LEMMA PlacesInCall ==
  ASSUME todo \in [Threads -> Seq(Call)], NEW ops, NEW i \in IDs
  PROVE  i \in InCall(ops) <=> Places(ops, i) # {}
  <1>1. ASSUME i \in InCall(ops) PROVE Places(ops, i) # {}
    <2>1. PICK t \in Threads : \E c \in CallsOf(t) : c.id = i /\ c.op \in ops
      BY <1>1 DEF InCall
    <2>2. PICK k \in DOMAIN todo[t] : todo[t][k].id = i /\ todo[t][k].op \in ops
      BY <2>1 DEF CallsOf
    <2> DEFINE m == Len(todo[t])
               n == (m + 1) - k
    <2>3. m \in Nat /\ k \in 1 .. m
      OBVIOUS
    <2>4. n \in Nat /\ n \in 1 .. m /\ (m + 1) - n = k
      BY <2>3
    <2> HIDE DEF n
    <2>5. <<t, n>> \in Places(ops, i)
      BY <2>2, <2>4 DEF Places, Stacked
    <2> QED BY <2>5
  <1>2. ASSUME Places(ops, i) # {} PROVE i \in InCall(ops)
    <2>1. PICK t \in Threads, n \in Nat : <<t, n>> \in Places(ops, i)
      BY <1>2 DEF Places
    <2>2. n \in 1 .. Len(todo[t]) /\ Stacked(t, n).op \in ops /\ Stacked(t, n).id = i
      BY <2>1 DEF Places
    <2> DEFINE k == (Len(todo[t]) + 1) - n
    <2>3. k \in DOMAIN todo[t] /\ todo[t][k] \in CallsOf(t)
      <3>1. Len(todo[t]) \in Nat /\ DOMAIN todo[t] = 1 .. Len(todo[t])
        OBVIOUS
      <3>2. k \in DOMAIN todo[t]
        BY <2>2, <3>1
      <3> QED BY <3>2 DEF CallsOf
    <2> QED BY <2>2, <2>3 DEF Stacked, InCall
  <1> QED BY <1>1, <1>2

\* What is not replaced by a step of a thread stays where it is, and what it
\* makes next is put above.
LEMMA PlacesKept ==
  ASSUME todo \in [Threads -> Seq(Call)], NEW t \in Threads,
         NEW S, NEW calls \in Seq(S), Pushes(t, calls), NEW ops, NEW i
  PROVE  /\ \A p \in Places(ops, i) : p # <<t, Depth(t) + 1>> =>
              p \in Places(ops, i)' /\ Stacked(p[1], p[2])' = Stacked(p[1], p[2])
         /\ \A n, k \in Nat : /\ k \in 1 .. Len(calls) /\ n = Depth(t) + k
                              /\ calls[(Len(calls) + 1) - k].op \in ops
                              /\ calls[(Len(calls) + 1) - k].id = i
                              => /\ <<t, n>> \in Places(ops, i)'
                                 /\ Stacked(t, n)' = calls[(Len(calls) + 1) - k]
  <1> DEFINE d == Depth(t)
             m == Len(calls)
  <1>1. /\ \A u \in Threads \ {t} : todo'[u] = todo[u]
        /\ d \in Nat /\ m \in Nat /\ Len(todo'[t]) = d + m
        /\ Len(todo[t]) = IF todo[t] = <<>> THEN d ELSE d + 1
        /\ \A k \in 1 .. d : Stacked(t, k)' = Stacked(t, k)
        /\ \A n, k \in Nat : k \in 1 .. m /\ n = d + k => Stacked(t, n)' = calls[(m + 1) - k]
    BY StackedPushed
  <1> HIDE DEF d, m
  <1>2. ASSUME NEW p \in Places(ops, i), p # <<t, d + 1>>
        PROVE  p \in Places(ops, i)' /\ Stacked(p[1], p[2])' = Stacked(p[1], p[2])
    <2>1. PICK u \in Threads, n \in Nat : p = <<u, n>>
      BY <1>2 DEF Places
    <2>2. n \in 1 .. Len(todo[u]) /\ Stacked(u, n).op \in ops /\ Stacked(u, n).id = i
      BY <1>2, <2>1 DEF Places
    <2>3. n \in 1 .. Len(todo'[u]) /\ Stacked(u, n)' = Stacked(u, n)
      <3>1. CASE u # t
        BY <1>1, <2>2, <3>1 DEF Stacked
      <3>2. CASE u = t
        <4>1. n # d + 1
          BY <1>2, <2>1, <3>2
        <4>2. n \in 1 .. d
          BY <1>1, <2>2, <3>2, <4>1
        <4> QED BY <1>1, <3>2, <4>2
      <3> QED BY <3>1, <3>2
    <2>4. p[1] = u /\ p[2] = n /\ p \in Threads \X Nat
      BY <2>1
    <2>5. p \in Places(ops, i)'
      BY <2>2, <2>3, <2>4 DEF Places
    <2> QED BY <2>3, <2>4, <2>5
  <1>3. ASSUME NEW n \in Nat, NEW k \in Nat, k \in 1 .. m, n = d + k,
               calls[(m + 1) - k].op \in ops, calls[(m + 1) - k].id = i
        PROVE  <<t, n>> \in Places(ops, i)' /\ Stacked(t, n)' = calls[(m + 1) - k]
    <2>1. Stacked(t, n)' = calls[(m + 1) - k]
      BY <1>1, <1>3
    <2>2. n \in 1 .. Len(todo'[t])
      BY <1>1, <1>3
    <2> QED BY <1>3, <2>1, <2>2 DEF Places
  <1> QED BY <1>2, <1>3 DEF d, m

\* A single call has a place above.
LEMMA OneWhere ==
  ASSUME todo \in [Threads -> Seq(Call)], NEW t \in Threads,
         NEW S, NEW calls \in Seq(S), Pushes(t, calls), Len(calls) = 1,
         NEW ops, NEW i, calls[1].op \in ops, calls[1].id = i
  PROVE  \E p \in Places(ops, i)' : Stacked(p[1], p[2])' = calls[1]
  <1> DEFINE d == Depth(t)
             m == Len(calls)
  <1>1. todo \in [Threads -> Seq(Call)] /\ calls \in Seq(S) /\ Pushes(t, calls)
    OBVIOUS
  <1>2. /\ \A u \in Threads \ {t} : todo'[u] = todo[u]
        /\ d \in Nat /\ m \in Nat /\ Len(todo'[t]) = d + m
        /\ Len(todo[t]) = IF todo[t] = <<>> THEN d ELSE d + 1
        /\ \A k \in 1 .. d : Stacked(t, k)' = Stacked(t, k)
        /\ \A n, k \in Nat : k \in 1 .. m /\ n = d + k => Stacked(t, n)' = calls[(m + 1) - k]
    <2> HIDE DEF d, m
    <2> QED BY ONLY <1>1, t \in Threads, StackedPushed DEF d, m
  <1> HIDE DEF d
  <1>3. PICK n \in Nat : n = d + 1
    BY <1>2
  <1>4. (Len(calls) + 1) - 1 = 1 /\ 1 \in 1 .. Len(calls) /\ n \in 1 .. Len(todo'[t])
    BY <1>2, <1>3
  <1>5. Stacked(t, n)' = calls[1]
    BY <1>2, <1>3, <1>4
  <1> DEFINE r == <<t, n>>
  <1>6. r \in Threads \X Nat /\ r[1] = t /\ r[2] = n
    OBVIOUS
  <1> HIDE DEF r
  <1>7. r \in Places(ops, i)' /\ Stacked(r[1], r[2])' = calls[1]
    BY <1>4, <1>5, <1>6 DEF Places
  <1> QED BY <1>7

\* No thread moves.
LEMMA PlacesSame ==
  ASSUME UNCHANGED todo
  PROVE  /\ \A ops, i : Places(ops, i)' = Places(ops, i)
         /\ \A t, k : Stacked(t, k)' = Stacked(t, k)
  BY DEF Places, Stacked

----------------------------------------------------------------------------
(* Counting the chunks of a response.                                      *)

\* The copies of an item are those on the wire, in a read and with a thread.
LEMMA CopyIs ==
  /\ \A i, x, n : /\ <<"wire", x, n>> \in Copies(i) <=> OnWire(x, n, i)
                  /\ <<"read", x, n>> \in Copies(i) <=> InRead(x, n, i)
                  /\ <<"found", x, n>> \in Copies(i) <=> Found(x, n, i)
  /\ \A i, x, n : /\ <<"wire", x, n>> \in Copies(i)' <=> OnWire(x, n, i)'
                  /\ <<"read", x, n>> \in Copies(i)' <=> InRead(x, n, i)'
                  /\ <<"found", x, n>> \in Copies(i)' <=> Found(x, n, i)'
  BY DEF Copies, OnWire, InRead, Found, Places

LEMMA CopyForms ==
  /\ \A i : \A p \in Copies(i) : \E x, n : \/ p = <<"wire", x, n>> /\ OnWire(x, n, i)
                                           \/ p = <<"read", x, n>> /\ InRead(x, n, i)
                                           \/ p = <<"found", x, n>> /\ Found(x, n, i)
  /\ \A i : \A p \in Copies(i)' : \E x, n : \/ p = <<"wire", x, n>> /\ OnWire(x, n, i)'
                                            \/ p = <<"read", x, n>> /\ InRead(x, n, i)'
                                            \/ p = <<"found", x, n>> /\ Found(x, n, i)'
  <1>1. ASSUME NEW i, NEW p \in Copies(i)
        PROVE  \E x, n : \/ p = <<"wire", x, n>> /\ OnWire(x, n, i)
                         \/ p = <<"read", x, n>> /\ InRead(x, n, i)
                         \/ p = <<"found", x, n>> /\ Found(x, n, i)
    <2>1. p = <<p[1], p[2], p[3]>>
      BY <1>1 DEF Copies
    <2> QED BY <1>1, <2>1 DEF Copies
  <1>2. ASSUME NEW i, NEW p \in Copies(i)'
        PROVE  \E x, n : \/ p = <<"wire", x, n>> /\ OnWire(x, n, i)'
                         \/ p = <<"read", x, n>> /\ InRead(x, n, i)'
                         \/ p = <<"found", x, n>> /\ Found(x, n, i)'
    <2>1. p = <<p[1], p[2], p[3]>>
      BY <1>2 DEF Copies
    <2> QED BY <1>2, <2>1 DEF Copies
  <1> QED BY <1>1, <1>2

\* The numbers that are added.
LEMMA CountType ==
  ASSUME TypeOK, NEW i \in IDs, IsFiniteSet(Copies(i))
  PROVE  /\ owed[i].left \in Nat /\ Cardinality(Copies(i)) \in Nat /\ Count(i) \in Nat
         /\ chunks[i] \in Nat
  <1>1. owed[i].left \in Nat /\ chunks[i] \in Nat
    BY BoundsAssumption DEF TypeOK, OwedRec
  <1>2. Cardinality(Copies(i)) \in Nat
    BY FS_CardinalityType
  <1> QED BY <1>1, <1>2 DEF Count

\* The same numbers after a step.
LEMMA CountTypeNext ==
  ASSUME TypeOK', NEW i \in IDs, IsFiniteSet(Copies(i)')
  PROVE  /\ owed'[i].left \in Nat /\ Cardinality(Copies(i)') \in Nat /\ Count(i)' \in Nat
         /\ chunks'[i] \in Nat
  <1>1. owed'[i].left \in Nat /\ chunks'[i] \in Nat
    BY BoundsAssumption DEF TypeOK, OwedRec
  <1>2. Cardinality(Copies(i)') \in Nat
    BY FS_CardinalityType
  <1> QED BY <1>1, <1>2 DEF Count

\* Copies that can be told apart by copies there were before are no more
\* than those.
LEMMA CountInjected ==
  ASSUME TypeOK, TypeOK', NEW i \in IDs, IsFiniteSet(Copies(i)), owed'[i].left <= owed[i].left,
         NEW f \in [Copies(i)' -> Copies(i)],
         \A p, q \in Copies(i)' : f[p] = f[q] => p = q
  PROVE  IsFiniteSet(Copies(i)') /\ Count(i)' <= Count(i)
  <1> DEFINE old == Copies(i)
             new == Copies(i)'
  <1>1. f \in Injection(new, old) /\ IsFiniteSet(old)
    BY DEF Injection, IsInjective
  <1> HIDE DEF old, new
  <1>2. IsFiniteSet(new) /\ Cardinality(new) <= Cardinality(old)
    BY <1>1, FS_Injection
  <1>3. owed[i].left \in Nat /\ owed'[i].left \in Nat
        /\ Cardinality(old) \in Nat /\ Cardinality(new) \in Nat
    BY <1>2, CountType, CountTypeNext DEF old, new
  <1>4. owed'[i].left + Cardinality(new) <= owed[i].left + Cardinality(old)
    BY <1>2, <1>3
  <1> QED BY <1>2, <1>4 DEF Count, old, new

\* Fewer copies count less.
LEMMA CountLess ==
  ASSUME TypeOK, TypeOK', NEW i \in IDs, IsFiniteSet(Copies(i)), Copies(i)' \subseteq Copies(i)
  PROVE  /\ IsFiniteSet(Copies(i)') /\ Cardinality(Copies(i)') <= Cardinality(Copies(i))
         /\ owed'[i].left <= owed[i].left => Count(i)' <= Count(i)
  <1> DEFINE old == Copies(i)
             new == Copies(i)'
  <1>1. new \in SUBSET old /\ IsFiniteSet(old)
    OBVIOUS
  <1> HIDE DEF old, new
  <1>2. IsFiniteSet(new) /\ Cardinality(new) <= Cardinality(old)
    BY <1>1, FS_Subset
  <1>3. owed[i].left \in Nat /\ owed'[i].left \in Nat
        /\ Cardinality(old) \in Nat /\ Cardinality(new) \in Nat
    BY <1>2, CountType, CountTypeNext DEF old, new
  <1>4. owed'[i].left <= owed[i].left =>
          owed'[i].left + Cardinality(new) <= owed[i].left + Cardinality(old)
    BY <1>2, <1>3
  <1> QED BY <1>2, <1>4 DEF Count, old, new

\* Nobody holds an item that does not travel.
LEMMA Absent ==
  ASSUME TypeOK, NEW i \in IDs, i \notin Travelling
  PROVE  NoHolder(i) /\ IsFiniteSet(Copies(i)) /\ Copies(i) = {} /\ Count(i) = 0
  <1>0. /\ todo \in [Threads -> Seq(Call)] /\ wire \in [Sockets -> Seq(IDs)]
        /\ rd \in [Loops -> LoopRec] /\ wr \in [Loops -> WriteRec]
        /\ owed[i].left \in Nat
    BY BoundsAssumption DEF TypeOK, OwedRec
  <1>1. ASSUME NEW ops \in SUBSET HandledOps PROVE Places(ops, i) = {}
    <2>1. i \notin InCall(ops)
      BY <1>1 DEF Travelling, Handled, InCall
    <2> QED BY <1>0, <2>1, PlacesInCall
  <1>2. Places(WholeOps, i) = {} /\ Places({"findByID"}, i) = {}
    BY <1>1 DEF WholeOps, HandledOps
  <1>3. /\ owed[i].left = 0 /\ \A s \in Sockets : i \notin Range(wire[s])
        /\ \A l \in Loops : i \notin Range(wr[l].data) /\ i \notin Range(rd[l].data)
    BY <1>0 DEF Travelling, OnTheWay
  <1>4. Writes(i) = {}
    <2>1. ASSUME NEW l \in Loops, wr[l].op \in {"pending", "err"}, Head(wr[l].data) = i
          PROVE  FALSE
      <3>1. wr[l] \in WriteRec
        BY <1>0
      <3>2. wr[l].data \in Seq(IDs) /\ wr[l].data # <<>>
        BY <2>1, <3>1 DEF WriteRec, LoopRec
      <3>3. i \in Range(wr[l].data)
        BY <2>1, <3>2 DEF Range
      <3> QED BY <1>3, <3>3
    <2> QED BY <2>1 DEF Writes
  <1>5. Copies(i) = {}
    <2>1. ASSUME NEW x, NEW n PROVE ~OnWire(x, n, i)
      <3>1. \A s \in Sockets : DOMAIN wire[s] = 1 .. Len(wire[s])
        BY <1>0
      <3> QED BY <1>3, <3>1 DEF OnWire, Range
    <2>2. ASSUME NEW x, NEW n PROVE ~InRead(x, n, i)
      <3>1. \A l \in Loops : DOMAIN rd[l].data = 1 .. Len(rd[l].data)
        BY <1>0 DEF LoopRec
      <3> QED BY <1>3, <3>1 DEF InRead, Range
    <2>3. ASSUME NEW x, NEW n PROVE ~Found(x, n, i)
      BY <1>2 DEF Found
    <2> QED BY <2>1, <2>2, <2>3, CopyForms
  <1>6. IsFiniteSet(Copies(i)) /\ Cardinality(Copies(i)) = 0
    BY <1>5, FS_EmptySet
  <1> QED BY <1>2, <1>3, <1>4, <1>5, <1>6 DEF NoHolder, Count

----------------------------------------------------------------------------
(* What keeps the shares of an item.                                       *)

\* No chunk is added, and neither copies nor holders get more.
LEMMA SharesKept ==
  ASSUME TypeOK, TypeOK', NEW i \in IDs, Shares(i), chunks'[i] = chunks[i],
         IsFiniteSet(Copies(i)'), Count(i)' <= Count(i),
         Places(WholeOps, i)' \subseteq Places(WholeOps, i), Writes(i)' \subseteq Writes(i),
         Unseen(i)' => Unseen(i)
  PROVE  Shares(i)'
  <1>1. Count(i) \in Nat /\ Count(i)' \in Nat /\ chunks[i] \in Nat /\ ChunksPerResponse \in Nat
    BY CountType, CountTypeNext, BoundsAssumption DEF Shares
  <1>2. Count(i)' + chunks'[i] <= ChunksPerResponse
    BY <1>1 DEF Shares
  <1>3. OneHolder(i)'
    BY DEF OneHolder, Shares
  <1>4. NoHolder(i)' \/ Count(i)' = 0
    BY <1>1 DEF NoHolder, Shares
  <1> QED BY <1>2, <1>3, <1>4 DEF Shares

\* Loops and sockets only drop data about item i, and nobody starts to write it.
Dwindles(i) == /\ owed'[i].left <= owed[i].left
               /\ \A s \in Sockets : wire'[s] = wire[s] \/ wire'[s] = <<>>
               /\ \A l \in Loops : rd'[l].data = rd[l].data \/ rd'[l].data = <<>>
               /\ Writes(i)' \subseteq Writes(i)

\* No chunk arrives at a thread, so that copies only get less.
LEMMA CopiesDwindle ==
  ASSUME NEW i, \A s \in Sockets : wire'[s] = wire[s] \/ wire'[s] = <<>>,
         \A l \in Loops : rd'[l].data = rd[l].data \/ rd'[l].data = <<>>,
         \A t, n : Found(t, n, i)' => Found(t, n, i)
  PROVE  Copies(i)' \subseteq Copies(i)
  <1>1. Len(<<>>) = 0
    OBVIOUS
  <1>2. \A s, n : OnWire(s, n, i)' => OnWire(s, n, i)
    BY <1>1 DEF OnWire
  <1>3. \A l, n : InRead(l, n, i)' => InRead(l, n, i)
    BY <1>1 DEF InRead
  <1>4. ASSUME NEW p \in Copies(i)' PROVE p \in Copies(i)
    <2>1. PICK x, n : \/ p = <<"wire", x, n>> /\ OnWire(x, n, i)'
                      \/ p = <<"read", x, n>> /\ InRead(x, n, i)'
                      \/ p = <<"found", x, n>> /\ Found(x, n, i)'
      BY CopyForms
    <2> QED BY <1>2, <1>3, <2>1, CopyIs
  <1> QED BY <1>4

\* A step of a thread that does not hand on item i, or hands it on from one
\* holder to the next.
LEMMA SharesPushed ==
  ASSUME TypeOK, TypeOK', NEW i \in IDs, Shares(i), NEW t \in Threads,
         NEW S, NEW calls \in Seq(S), Pushes(t, calls), Dwindles(i), chunks'[i] = chunks[i],
         i > nextID' \/ i \in Queued' => Unseen(i),
         \A k \in 1 .. Len(calls) : calls[k].id = i =>
           /\ calls[k].op \notin {"findByID", "issueWrite"}
           /\ calls[k].op = "enqueue" => Unseen(i)
           /\ calls[k].op \in WholeOps => /\ Len(calls) = 1 /\ todo[t] # <<>>
                                          /\ Now(t).op \in WholeOps /\ Now(t).id = i
  PROVE  Shares(i)'
  <1>0. todo \in [Threads -> Seq(Call)] /\ Len(calls) \in Nat /\ Depth(t) \in Nat
    BY StackedPushed DEF TypeOK
  <1>1. ASSUME NEW ops PROVE \A p \in Places(ops, i)' :
           \/ p \in Places(ops, i)
           \/ \E k \in 1 .. Len(calls) : /\ calls[k].op \in ops /\ calls[k].id = i
                                        /\ p = <<t, Depth(t) + ((Len(calls) + 1) - k)>>
    BY <1>0, PlacesPushed
  <1>2. Places({"findByID"}, i)' \subseteq Places({"findByID"}, i)
    BY <1>1
  <1>3. Places({"issueWrite"}, i)' \subseteq Places({"issueWrite"}, i)
    BY <1>1
  <1>4. Places(WholeOps, i)' \subseteq Places(WholeOps, i)
    <2>1. ASSUME NEW p \in Places(WholeOps, i)', p \notin Places(WholeOps, i) PROVE FALSE
      <3>1. PICK k \in 1 .. Len(calls) : /\ calls[k].op \in WholeOps /\ calls[k].id = i
                                         /\ p = <<t, Depth(t) + ((Len(calls) + 1) - k)>>
        BY <1>1, <2>1
      <3>2. Len(calls) = 1 /\ todo[t] # <<>> /\ Now(t).op \in WholeOps /\ Now(t).id = i
        BY <3>1
      <3>3. k = 1 /\ (Len(calls) + 1) - k = 1
        BY <3>1, <3>2
      <3>4. <<t, Depth(t) + 1>> \in Places(WholeOps, i)
        BY <1>0, <3>2, NowPlace
      <3> QED BY <2>1, <3>1, <3>3, <3>4
    <2> QED BY <2>1
  <1>5. Places({"enqueue"}, i)' # {} => Unseen(i)
    <2>1. ASSUME NEW p \in Places({"enqueue"}, i)' PROVE Unseen(i)
      <3>1. CASE p \in Places({"enqueue"}, i)
        BY <3>1 DEF Unseen
      <3>2. CASE \E k \in 1 .. Len(calls) : calls[k].op = "enqueue" /\ calls[k].id = i
        BY <3>2
      <3> QED BY <1>1, <2>1, <3>1, <3>2
    <2> QED BY <2>1
  <1>6. Unseen(i)' => Unseen(i)
    BY <1>3, <1>5 DEF Unseen, Dwindles
  <1>7. Copies(i)' \subseteq Copies(i)
    BY <1>2, CopiesDwindle DEF Found, Dwindles
  <1>8. IsFiniteSet(Copies(i)') /\ Count(i)' <= Count(i)
    BY <1>7, CountLess DEF Shares, Dwindles
  <1> QED BY <1>4, <1>6, <1>8, SharesKept DEF Dwindles

\* A step of the environment that hands on no item.
LEMMA SharesLeft ==
  ASSUME TypeOK, TypeOK', NEW i \in IDs, Shares(i), UNCHANGED <<todo, nextID, sendQueue, chunks>>,
         IsFiniteSet(Copies(i)'), Count(i)' <= Count(i), Writes(i)' \subseteq Writes(i)
  PROVE  Shares(i)'
  <1>1. \A ops : Places(ops, i)' = Places(ops, i)
    BY PlacesSame
  <1>2. Unseen(i)' => Unseen(i)
    BY <1>1 DEF Unseen, Queued
  <1> QED BY <1>1, <1>2, SharesKept

\* A step that leaves the request of item i where it is.
LEMMA GivenPushed ==
  ASSUME TypeOK, NEW i \in IDs, Given(i), NEW t \in Threads,
         NEW S, NEW calls \in Seq(S), Pushes(t, calls),
         i <= nextID' => i <= nextID, i \in owns' <=> i \in owns, i \in handed => i \in handed',
         outcome'[i] = outcome[i],
         \A k \in 1 .. Len(calls) : calls[k].id = i => calls[k].op # "invoke",
         todo[t] # <<>> => Now(t).op # "invoke" \/ Now(t).id # i
  PROVE  Given(i)'
  <1>0. todo \in [Threads -> Seq(Call)]
    BY DEF TypeOK
  <1>1. \A p \in Places({"invoke"}, i)' : p \in Places({"invoke"}, i)
    <2>1. ASSUME NEW ops PROVE \A p \in Places(ops, i)' :
            \/ p \in Places(ops, i)
            \/ \E k \in 1 .. Len(calls) : calls[k].op \in ops /\ calls[k].id = i
      BY <1>0, PlacesPushed
    <2> QED BY <2>1
  <1>2. ASSUME NEW p \in Places({"invoke"}, i)
        PROVE  p \in Places({"invoke"}, i)' /\ Stacked(p[1], p[2])' = Stacked(p[1], p[2])
    <2>1. p # <<t, Depth(t) + 1>>
      <3>1. CASE todo[t] = <<>>
        <4>1. Depth(t) = 0 /\ Len(todo[t]) = 0
          BY <3>1 DEF Depth
        <4>2. p # <<t, 1>>
          BY <4>1 DEF Places
        <4> QED BY <4>1, <4>2
      <3>2. CASE todo[t] # <<>> /\ p = <<t, Depth(t) + 1>>
        <4>1. Stacked(t, Depth(t) + 1) = Now(t)
          BY <1>0, <3>2, StackedPushed
        <4>2. Now(t).op = "invoke" /\ Now(t).id = i
          BY <3>2, <4>1 DEF Places
        <4> QED BY <3>2, <4>2
      <3> QED BY <3>1, <3>2
    <2> QED BY <1>0, <2>1, PlacesKept
  <1> QED BY <1>1, <1>2 DEF Given

\* The environment touches no request.
LEMMA GivenLeft ==
  ASSUME NEW i, Given(i), UNCHANGED <<todo, nextID, owns, handed, outcome>>
  PROVE  Given(i)'
  BY PlacesSame DEF Given

----------------------------------------------------------------------------
(* Steps that hand on no item.                                             *)

HandOps == WholeOps \cup {"enqueue", "findByID"}

\* A thread makes calls that are about no item, or that move it from the queue
\* to the store.
LEMMA HandPushed ==
  ASSUME HandInv, IndInv', NEW t \in Threads, NEW S, NEW calls \in Seq(S), Pushes(t, calls),
         \A k \in 1 .. Len(calls) : calls[k].op \notin HandOps,
         todo[t] # <<>> => Now(t).op # "invoke",
         UNCHANGED <<nextID, chunks, owns, handed, outcome>>,
         \A i \in Queued' : Unseen(i), \A i \in IDs : Dwindles(i)
  PROVE  HandInv'
  <1>1. ASSUME NEW i \in IDs PROVE Shares(i)' /\ Given(i)'
    <2>1. TypeOK /\ TypeOK' /\ Shares(i) /\ Given(i) /\ Dwindles(i)
      BY DEF HandInv, IndInv
    <2>2. i > nextID' \/ i \in Queued' => Unseen(i)
      BY DEF Unseen
    <2>3. Shares(i)'
      BY <2>1, <2>2, SharesPushed DEF HandOps, WholeOps
    <2>4. Given(i)'
      BY <2>1, GivenPushed DEF HandOps, WholeOps
    <2> QED BY <2>3, <2>4
  <1> QED BY <1>1 DEF HandInv

\* The usual cases: the current call returns or makes one call, or an idle
\* thread takes a handler that makes one or two.
LEMMA HandReturn ==
  ASSUME HandInv, IndInv', NEW t \in Threads,
         \/ todo[t] # <<>> /\ Now(t).op # "invoke"
            /\ (Return(t) \/ \E a : a.op \notin HandOps /\ Then(t, <<a>>))
         \/ todo[t] = <<>> /\ \E a : a.op \notin HandOps /\ todo' = [todo EXCEPT ![t] = <<a>>]
         \/ todo[t] = <<>> /\ \E a, b : /\ a.op \notin HandOps /\ b.op \notin HandOps
                                        /\ todo' = [todo EXCEPT ![t] = <<a, b>>],
         UNCHANGED <<nextID, sendQueue, chunks, owns, handed, outcome>>,
         \A i \in IDs : Dwindles(i)
  PROVE  HandInv'
  <1> \A i \in Queued' : Unseen(i)
    BY DEF Queued, Unseen
  <1>1. CASE todo[t] # <<>> /\ Return(t)
    <2> DEFINE calls == <<>>
               S == {}
    <2>1. calls \in Seq(S) /\ 1 .. Len(calls) = {} /\ Pushes(t, calls)
      BY <1>1 DEF Return, Pushes
    <2>2. Now(t).op # "invoke"
      BY <1>1
    <2> HIDE DEF calls, S
    <2> QED BY <2>1, <2>2, HandPushed
  <1>2. ASSUME NEW a, a.op \notin HandOps, Pushes(t, <<a>>), todo[t] # <<>> => Now(t).op # "invoke"
        PROVE  HandInv'
    <2> DEFINE calls == <<a>>
               S == {a}
    <2>1. calls \in Seq(S) /\ Len(calls) = 1 /\ calls[1] = a /\ Pushes(t, calls)
      BY <1>2
    <2> HIDE DEF calls, S
    <2>2. \A k \in 1 .. Len(calls) : calls[k].op \notin HandOps
      BY <1>2, <2>1
    <2> QED BY <1>2, <2>1, <2>2, HandPushed
  <1>3. ASSUME NEW a, NEW b, a.op \notin HandOps, b.op \notin HandOps, todo[t] = <<>>,
               todo' = [todo EXCEPT ![t] = <<a, b>>]
        PROVE  HandInv'
    <2> DEFINE calls == <<a, b>>
               S == {a, b}
    <2>1. calls \in Seq(S) /\ Len(calls) = 2 /\ calls[1] = a /\ calls[2] = b /\ Pushes(t, calls)
      BY <1>3 DEF Pushes
    <2> HIDE DEF calls, S
    <2>2. \A k \in 1 .. Len(calls) : k = 1 \/ k = 2
      BY <2>1
    <2>3. \A k \in 1 .. Len(calls) : calls[k].op \notin HandOps
      BY <1>3, <2>1, <2>2
    <2> QED BY <1>3, <2>1, <2>3, HandPushed
  <1> QED BY <1>1, <1>2, <1>3 DEF Pushes

\* A write loop that is not written, or written as before, holds no new item.
LEMMA WritesLess ==
  ASSUME \A l \in Loops : wr'[l].op \in {"pending", "err"} =>
           wr[l].op \in {"pending", "err"} /\ wr'[l].data = wr[l].data
  PROVE  \A i : Writes(i)' \subseteq Writes(i)
  BY DEF Writes

\* Loops and sockets are left alone.
LEMMA SameDwindle ==
  ASSUME TypeOK, UNCHANGED <<owed, wire, rd, wr>>
  PROVE  \A i \in IDs : Dwindles(i)
  <1>1. \A i : Writes(i)' \subseteq Writes(i)
    BY WritesLess
  <1>2. \A i \in IDs : owed[i].left \in Nat
    BY BoundsAssumption DEF TypeOK, OwedRec
  <1> QED BY <1>1, <1>2 DEF Dwindles

\* startWriting, the loops, the restart and the setup of the connection.
LEMMA HandQuietRun ==
  ASSUME HandInv, IndInv', NEW t \in Threads,
         \/ CheckConnected(t) \/ Front(t) \/ AddToStore(t) \/ ReadNextBytes(t)
         \/ RestartRead(t) \/ RestartWrite(t) \/ StopWriting(t) \/ StopReading(t)
         \/ ResolveAgain(t)
         \/ InitSocket(t) \/ StartSSLHandshake(t) \/ FinishInitialization(t)
         \/ SetConnected(t) \/ OnFailure(t)
  PROVE  HandInv'
  <1> USE DEF itemVars, queueVars, connVars, loopVars, setupVars, netVars, budgetVars, outsideVars
  <1>1. TypeOK
    BY DEF HandInv, IndInv
  <1>2. CASE CheckConnected(t) \/ Front(t) \/ AddToStore(t) \/ ReadNextBytes(t)
    <2>1. /\ todo[t] # <<>> /\ Now(t).op # "invoke"
          /\ UNCHANGED <<nextID, sendQueue, chunks, owns, handed, outcome>>
          /\ UNCHANGED <<owed, wire, rd, wr>>
      BY <1>2 DEF CheckConnected, Front, AddToStore, ReadNextBytes, At, Now
    <2>2. Return(t) \/ \E a : a.op \notin HandOps /\ Then(t, <<a>>)
      BY <1>2 DEF CheckConnected, Front, AddToStore, ReadNextBytes, Return, Plain, Send, On, HandOps,
                  WholeOps
    <2>3. \A i \in IDs : Dwindles(i)
      BY <1>1, <2>1, SameDwindle
    <2> QED BY <2>1, <2>2, <2>3, HandReturn
  <1>3. CASE RestartRead(t) \/ RestartWrite(t)
    <2>1. /\ todo[t] # <<>> /\ Now(t).op # "invoke"
          /\ UNCHANGED <<nextID, sendQueue, chunks, owns, handed, outcome>>
          /\ UNCHANGED <<owed, wire, rd, wr>>
      BY <1>3 DEF RestartRead, RestartWrite, RestartOf, At, Now
    <2>2. Return(t) \/ \E a : a.op \notin HandOps /\ Then(t, <<a>>)
      BY <1>3 DEF RestartRead, RestartWrite, RestartOf, Fail, HandOps, WholeOps
    <2>3. \A i \in IDs : Dwindles(i)
      BY <1>1, <2>1, SameDwindle
    <2> QED BY <2>1, <2>2, <2>3, HandReturn
  <1>4. CASE \/ StopWriting(t) \/ StopReading(t) \/ ResolveAgain(t) \/ InitSocket(t)
             \/ StartSSLHandshake(t) \/ FinishInitialization(t) \/ SetConnected(t) \/ OnFailure(t)
    <2>1. /\ todo[t] # <<>> /\ Now(t).op # "invoke" /\ Return(t)
      BY <1>4 DEF StopWriting, StopReading, ResolveAgain, InitSocket, StartSSLHandshake,
                  FinishInitialization, SetConnected, OnFailure, At, Now
    <2>2. /\ UNCHANGED <<nextID, sendQueue, chunks, owns, handed, outcome>>
          /\ UNCHANGED <<owed, wire, rd, wr>>
      BY <1>4 DEF StopWriting, StopReading, ResolveAgain, InitSocket, StartSSLHandshake,
                  FinishInitialization, SetConnected, OnFailure
    <2>3. \A i \in IDs : Dwindles(i)
      BY <1>1, <2>2, SameDwindle
    <2> QED BY <2>1, <2>2, <2>3, HandReturn
  <1> QED BY <1>2, <1>3, <1>4

\* startWriting, startReading and the next read: new loops are empty.
LEMMA HandLoopStarts ==
  ASSUME HandInv, IndInv', NEW t \in Threads, StartWriting(t) \/ StartReading(t) \/ IssueRead(t)
  PROVE  HandInv'
  <1> USE DEF itemVars, queueVars, connVars, loopVars, setupVars, netVars, budgetVars, outsideVars
  <1> TypeOK
    BY DEF HandInv, IndInv
  <1>0. /\ rd \in [Loops -> LoopRec] /\ wr \in [Loops -> WriteRec]
        /\ \A i \in IDs : owed[i].left \in Nat
    <2>1. owed \in [IDs -> OwedRec]
      BY DEF TypeOK
    <2>2. \A i \in IDs : owed[i].left \in Nat
      BY <2>1, BoundsAssumption DEF OwedRec
    <2> QED BY <2>2 DEF TypeOK
  <1>1. /\ todo[t] # <<>> /\ Now(t).op # "invoke"
        /\ UNCHANGED <<nextID, sendQueue, chunks, owns, handed, outcome>> /\ UNCHANGED <<owed, wire>>
    BY DEF StartWriting, StartReading, IssueRead, At, Now
  <1>2. Return(t) \/ \E a : a.op \notin HandOps /\ Then(t, <<a>>)
    BY DEF StartWriting, StartReading, IssueRead, On, HandOps, WholeOps
  <1>3. NewLoop(socket).data = <<>> /\ NewLoop(socket).op = "idle"
    BY DEF NewLoop
  <1>4. \A l \in Loops : Started(rd[l], <<>>).data = <<>>
    BY DEF Started
  <1> HIDE DEF NewLoop
  <1>5. \A l \in Loops : rd'[l].data = rd[l].data \/ rd'[l].data = <<>>
    BY <1>0, <1>3, <1>4 DEF StartWriting, StartReading, IssueRead
  <1>6. \A l \in Loops : wr'[l].op \in {"pending", "err"} =>
          wr[l].op \in {"pending", "err"} /\ wr'[l].data = wr[l].data
    BY <1>0, <1>3 DEF StartWriting, StartReading, IssueRead
  <1>7. \A i \in IDs : Dwindles(i)
    BY <1>0, <1>1, <1>5, <1>6, WritesLess DEF Dwindles
  <1> QED BY <1>1, <1>2, <1>7, HandReturn

\* shutdownSocket: what is pending on the socket fails, its data is lost.
LEMMA HandShutdownSocket ==
  ASSUME HandInv, IndInv', NEW t \in Threads, ShutdownSocket(t)
  PROVE  HandInv'
  <1> USE DEF itemVars, queueVars, connVars, loopVars, setupVars, netVars, budgetVars, outsideVars
  <1> TypeOK
    BY DEF HandInv, IndInv
  <1>0. /\ rd \in [Loops -> LoopRec] /\ wr \in [Loops -> LoopRec]
        /\ wire \in [Sockets -> Seq(IDs)] /\ \A i \in IDs : owed[i].left \in Nat
    <2>1. owed \in [IDs -> OwedRec]
      BY DEF TypeOK
    <2>2. \A i \in IDs : owed[i].left \in Nat
      BY <2>1, BoundsAssumption DEF OwedRec
    <2> QED BY <2>2 DEF TypeOK, WriteRec
  <1>1. /\ todo[t] # <<>> /\ Now(t).op # "invoke" /\ Return(t)
        /\ UNCHANGED <<nextID, sendQueue, chunks, owns, handed, outcome>> /\ UNCHANGED owed
    BY DEF ShutdownSocket, At, Now
  <1>2. ASSUME NEW f \in [Loops -> LoopRec], NEW s, NEW l \in Loops
        PROVE  /\ Aborted(f, s)[l].data = f[l].data
               /\ Aborted(f, s)[l].op \in {"pending", "err"} => f[l].op \in {"pending", "err"}
    <2>1. f[l] \in LoopRec
      OBVIOUS
    <2> DEFINE r == f[l]
    <2>2. [r EXCEPT !.op = "err"].data = r.data
      BY <2>1 DEF LoopRec
    <2> QED BY <2>2 DEF Aborted
  <1>3. \/ UNCHANGED <<rd, wr, wire>>
        \/ /\ rd' = Aborted(rd, socket) /\ wr' = Aborted(wr, socket)
           /\ wire' = [wire EXCEPT ![socket] = <<>>]
    BY DEF ShutdownSocket
  <1>4. CASE UNCHANGED <<rd, wr, wire>>
    <2>1. \A i \in IDs : Dwindles(i)
      BY <1>0, <1>1, <1>4, SameDwindle
    <2> QED BY <1>1, <2>1, HandReturn
  <1>5. CASE /\ rd' = Aborted(rd, socket) /\ wr' = Aborted(wr, socket)
             /\ wire' = [wire EXCEPT ![socket] = <<>>]
    <2>1. \A l \in Loops : /\ rd'[l].data = rd[l].data /\ wr'[l].data = wr[l].data
                           /\ wr'[l].op \in {"pending", "err"} => wr[l].op \in {"pending", "err"}
      BY <1>0, <1>2, <1>5, Zenon
    <2>2. \A s \in Sockets : wire'[s] = <<>> \/ wire'[s] = wire[s]
      BY <1>0, <1>5
    <2>3. \A i \in IDs : Dwindles(i)
      BY <1>0, <1>1, <2>1, <2>2, WritesLess DEF Dwindles
    <2> QED BY <1>1, <2>3, HandReturn
  <1> QED BY <1>3, <1>4, <1>5

\* enqueue, which puts the item of the call into the queue.
LEMMA HandEnqueue ==
  ASSUME HandInv, IndInv', NEW t \in Threads, Enqueue(t)
  PROVE  HandInv'
  <1> USE DEF itemVars, queueVars, connVars, loopVars, setupVars, netVars, budgetVars, outsideVars
  <1> DEFINE c == Now(t)
             calls == <<>>
             S == {}
  <1>0. TypeOK /\ todo \in [Threads -> Seq(Call)] /\ sendQueue \in Seq(IDs)
    BY DEF HandInv, IndInv, TypeOK
  <1>1. /\ todo[t] # <<>> /\ c.op = "enqueue" /\ Then(t, calls)
        /\ sendQueue' = Append(sendQueue, c.id)
        /\ UNCHANGED <<nextID, chunks, owns, handed, outcome>> /\ UNCHANGED <<owed, wire, rd, wr>>
    BY DEF Enqueue, At, Now, Return
  <1>2. Unseen(c.id)
    <2>1. <<t, Depth(t) + 1>> \in Places({"enqueue"}, c.id)
      BY <1>0, <1>1, NowPlace
    <2> QED BY <2>1 DEF Unseen
  <1>3. \A i \in Queued' : Unseen(i)
    <2> DEFINE x == c.id
    <2>1. sendQueue' = Append(sendQueue, x) /\ Unseen(x)
      BY <1>1, <1>2
    <2> HIDE DEF x
    <2>2. \A i \in Queued' : i \in Queued \/ i = x
      BY <1>0, <2>1 DEF Queued
    <2> QED BY <2>1, <2>2 DEF Unseen
  <1>4. \A i \in IDs : Dwindles(i)
    BY <1>0, <1>1, SameDwindle
  <1>5. calls \in Seq(S) /\ 1 .. Len(calls) = {} /\ Pushes(t, calls) /\ c.op # "invoke"
    BY <1>1 DEF Pushes
  <1> HIDE DEF calls, S
  <1> QED BY <1>1, <1>3, <1>4, <1>5, HandPushed

\* sendRequest and insertAuthenticationRequests: a new item, that nobody has
\* seen, with its request.
LEMMA HandNumbered ==
  ASSUME HandInv, IndInv', NEW t \in Threads, NEW S, NEW calls \in Seq(S), Pushes(t, calls),
         NewItem, UNCHANGED <<chunks, handed, outcome>>, UNCHANGED <<owed, wire, rd, wr>>,
         todo[t] # <<>> => Now(t).op # "invoke",
         \A k \in 1 .. Len(calls) : \/ calls[k].op \notin HandOps
                                    \/ calls[k].op = "enqueue" /\ calls[k].id = nextID + 1,
         \A i \in Queued' : i \in Queued \/ i = nextID + 1
  PROVE  HandInv'
  <1> DEFINE n == nextID + 1
  <1>00. TypeOK /\ TypeOK'
    BY DEF HandInv, IndInv
  <1>01. nextID \in Nat /\ todo \in [Threads -> Seq(Call)]
    BY <1>00 DEF TypeOK
  <1>0. TypeOK /\ TypeOK' /\ nextID \in Nat
    BY <1>00, <1>01
  <1>1. nextID' = n /\ owns' = owns \cup {n} /\ n > nextID /\ n \in IDs
    BY <1>0, BoundsAssumption DEF NewItem, IDs, MaxID
  <1>2. Unseen(n)
    BY <1>1 DEF Unseen
  <1>3. n \notin Travelling
    <2>1. n \notin 1 .. nextID
      BY <1>0
    <2> QED BY <2>1 DEF HandInv, IndInv, Numbered
  <1> HIDE DEF n
  <1>4. ASSUME NEW i \in IDs PROVE Shares(i)' /\ Given(i)'
    <2>1. Shares(i) /\ Given(i) /\ Dwindles(i)
      BY <1>0, SameDwindle DEF HandInv
    <2>2. i > nextID' \/ i \in Queued' => Unseen(i)
      <3>1. i > nextID' => i > nextID
        BY <1>0, <1>1 DEF n, IDs
      <3> QED BY <1>2, <3>1 DEF Unseen, n
    <2>3. \A k \in 1 .. Len(calls) : calls[k].id = i =>
            /\ calls[k].op \notin {"findByID", "issueWrite"} /\ calls[k].op \notin WholeOps
            /\ calls[k].op = "enqueue" => Unseen(i)
      BY <1>2 DEF HandOps, WholeOps, n
    <2>4. Shares(i)'
      BY <1>0, <2>1, <2>2, <2>3, SharesPushed
    <2>5. \A k \in 1 .. Len(calls) : calls[k].id = i => calls[k].op # "invoke"
      BY <2>3 DEF WholeOps
    <2>6. CASE i # n
      <3>1. i <= nextID' => i <= nextID
        BY <1>0, <1>1, <2>6 DEF n, IDs
      <3> QED BY <1>0, <1>1, <2>1, <2>4, <2>5, <2>6, <3>1, GivenPushed
    <2>7. CASE i = n
      <3>1. Places(WholeOps, i) = {}
        BY <1>0, <1>3, <2>7, Absent DEF NoHolder
      <3>2. Places({"invoke"}, i)' = {}
        <4>1. ASSUME NEW ops PROVE \A p \in Places(ops, i)' :
                \/ p \in Places(ops, i)
                \/ \E k \in 1 .. Len(calls) : calls[k].op \in ops /\ calls[k].id = i
          <5> DEFINE d == Depth(t)
          <5>1. /\ todo \in [Threads -> Seq(Call)] /\ calls \in Seq(S) /\ Pushes(t, calls)
            BY <1>01
          <5>2. \A p \in Places(ops, i)' :
                  \/ p \in Places(ops, i) /\ p # <<t, d + 1>>
                  \/ \E k \in 1 .. Len(calls) : /\ calls[k].op \in ops /\ calls[k].id = i
                                               /\ p = <<t, d + ((Len(calls) + 1) - k)>>
            <6> HIDE DEF d
            <6> QED BY ONLY <5>1, t \in Threads, PlacesPushed DEF d
          <5> HIDE DEF d
          <5> QED BY ONLY <5>2
        <4>2. Places({"invoke"}, i) \subseteq Places(WholeOps, i)
          BY DEF Places, WholeOps
        <4>3. \A p \in Places({"invoke"}, i)' : p \in Places({"invoke"}, i)
          BY <2>5, <4>1
        <4> QED BY <3>1, <4>2, <4>3
      <3> QED BY <1>1, <2>1, <2>4, <2>7, <3>2 DEF Given
    <2> QED BY <2>6, <2>7
  <1> QED BY <1>4 DEF HandInv

\* sendRequest.
LEMMA HandSendRequest ==
  ASSUME HandInv, IndInv', NEW t \in Threads, SendRequest(t)
  PROVE  HandInv'
  <1> USE DEF itemVars, queueVars, connVars, loopVars, setupVars, netVars, budgetVars, outsideVars
  <1> DEFINE a == Item("enqueue", nextID + 1, "none")
             b == Plain("checkConnected")
             calls == <<a, b>>
             S == {a, b}
  <1>1. a.op = "enqueue" /\ a.id = nextID + 1 /\ b.op = "checkConnected"
    BY DEF Item, Plain
  <1>2. /\ todo[t] = <<>> /\ todo' = [todo EXCEPT ![t] = calls] /\ NewItem
        /\ UNCHANGED <<chunks, handed, outcome, sendQueue>> /\ UNCHANGED <<owed, wire, rd, wr>>
    BY DEF SendRequest, SendCalls, Idle
  <1> HIDE DEF a, b
  <1>3. calls \in Seq(S) /\ Len(calls) = 2 /\ calls[1] = a /\ calls[2] = b /\ Pushes(t, calls)
    BY <1>2 DEF Pushes
  <1> HIDE DEF calls, S
  <1>4. \A k \in 1 .. Len(calls) : \/ calls[k].op \notin HandOps
                                   \/ calls[k].op = "enqueue" /\ calls[k].id = nextID + 1
    <2>1. \A k \in 1 .. Len(calls) : k = 1 \/ k = 2
      BY <1>3
    <2> QED BY <1>1, <1>3, <2>1 DEF HandOps, WholeOps
  <1>5. \A i \in Queued' : i \in Queued \/ i = nextID + 1
    BY <1>2 DEF Queued
  <1> QED BY <1>2, <1>3, <1>4, <1>5, HandNumbered

\* insertAuthenticationRequests.
LEMMA HandInsertAuth ==
  ASSUME HandInv, IndInv', NEW t \in Threads, InsertAuthenticationRequests(t)
  PROVE  HandInv'
  <1> USE DEF itemVars, queueVars, connVars, loopVars, setupVars, netVars, budgetVars, outsideVars
  <1>00. TypeOK
    BY DEF HandInv, IndInv
  <1>0. TypeOK /\ sendQueue \in Seq(IDs) /\ nextID \in Nat
    BY <1>00 DEF TypeOK
  <1>1. /\ todo[t] # <<>> /\ Now(t).op = "insertAuth" /\ Return(t)
        /\ UNCHANGED <<chunks, handed, outcome>> /\ UNCHANGED <<owed, wire, rd, wr>>
    BY DEF InsertAuthenticationRequests, At, Now
  <1>2. CASE UNCHANGED <<nextID, owns, sendQueue>>
    <2>1. \A i \in IDs : Dwindles(i)
      BY <1>0, <1>1, SameDwindle
    <2> QED BY <1>1, <1>2, <2>1, HandReturn
  <1>3. CASE NewItem /\ sendQueue' = <<nextID + 1>> \o sendQueue
    <2> DEFINE calls == <<>>
               S == {}
               n == nextID + 1
    <2>1. calls \in Seq(S) /\ 1 .. Len(calls) = {} /\ Pushes(t, calls)
      BY <1>1 DEF Return, Pushes
    <2>2. <<n>> \in Seq(IDs \cup {n}) /\ sendQueue \in Seq(IDs \cup {n}) /\ Range(<<n>>) = {n}
      BY <1>0 DEF Range
    <2>3. sendQueue' = <<n>> \o sendQueue /\ n = nextID + 1
      BY <1>3
    <2> HIDE DEF calls, S, n
    <2>4. Range(<<n>> \o sendQueue) = Range(<<n>>) \cup Range(sendQueue)
      <3> DEFINE a == <<n>>
                 U == IDs \cup {n}
      <3>1. a \in Seq(U) /\ sendQueue \in Seq(U)
        BY <2>2
      <3> HIDE DEF a, U
      <3>2. Range(a \o sendQueue) = Range(a) \cup Range(sendQueue)
        BY ONLY <3>1, RangeConcat
      <3> QED BY <3>2 DEF a
    <2>5. \A i \in Queued' : i \in Queued \/ i = n
      BY <2>2, <2>3, <2>4 DEF Queued, Range
    <2> QED BY <1>1, <1>3, <2>1, <2>3, <2>5, HandNumbered
  <1> QED BY <1>2, <1>3 DEF InsertAuthenticationRequests

----------------------------------------------------------------------------
(* The hands an item passes through when it is completed.                  *)

\* removeByID: the thread that completes the item goes on with it.
LEMMA HandRemoveByID ==
  ASSUME HandInv, IndInv', NEW t \in Threads, RemoveByID(t)
  PROVE  HandInv'
  <1> USE DEF itemVars, queueVars, connVars, loopVars, setupVars, netVars, budgetVars, outsideVars
  <1> DEFINE c == Now(t)
             a == Item("moveRequest", c.id, c.err)
             calls == <<a>>
             S == {a}
  <1>0. TypeOK /\ TypeOK'
    BY DEF HandInv, IndInv
  <1>1. /\ todo[t] # <<>> /\ c.op = "removeByID" /\ Then(t, calls)
        /\ UNCHANGED <<nextID, sendQueue, chunks, owns, handed, outcome>>
        /\ UNCHANGED <<owed, wire, rd, wr>>
    BY DEF RemoveByID, At, Now
  <1>2. a.op = "moveRequest" /\ a.id = c.id
    BY DEF Item
  <1> HIDE DEF a
  <1>3. calls \in Seq(S) /\ Len(calls) = 1 /\ calls[1] = a /\ Pushes(t, calls)
    BY <1>1 DEF Pushes
  <1> HIDE DEF calls, S
  <1>4. \A k \in 1 .. Len(calls) : calls[k] = a
    BY <1>3
  <1>5. ASSUME NEW i \in IDs PROVE Shares(i)' /\ Given(i)'
    <2>1. Shares(i) /\ Given(i) /\ Dwindles(i)
      BY <1>0, <1>1, SameDwindle DEF HandInv
    <2>2. i > nextID' \/ i \in Queued' => Unseen(i)
      BY <1>1 DEF Unseen, Queued
    <2>3. \A k \in 1 .. Len(calls) : calls[k].id = i =>
            /\ calls[k].op \notin {"findByID", "issueWrite"} /\ calls[k].op # "enqueue"
            /\ Len(calls) = 1 /\ todo[t] # <<>> /\ Now(t).op \in WholeOps /\ Now(t).id = i
      BY <1>1, <1>2, <1>3, <1>4 DEF WholeOps
    <2>4. Shares(i)'
      BY <1>0, <1>1, <1>3, <2>1, <2>2, <2>3, SharesPushed
    <2>5. Given(i)'
      BY <1>0, <1>1, <1>2, <1>3, <1>4, <2>1, GivenPushed
    <2> QED BY <2>4, <2>5
  <1> QED BY <1>5 DEF HandInv

\* The argument of invoke: the request is on its way to the callback.
LEMMA HandMoveRequest ==
  ASSUME HandInv, IndInv', NEW t \in Threads, MoveRequest(t)
  PROVE  HandInv'
  <1> USE DEF itemVars, queueVars, connVars, loopVars, setupVars, netVars, budgetVars, outsideVars
  <1> DEFINE c == Now(t)
             a == [op |-> "invoke", on |-> 0, id |-> c.id, err |-> c.err, held |-> c.id \in owns]
             calls == <<a>>
             S == {a}
             q == <<t, Depth(t) + 1>>
  <1>0. TypeOK /\ TypeOK'
    BY DEF HandInv, IndInv
  <1>1. /\ todo[t] # <<>> /\ c.op = "moveRequest" /\ Then(t, calls)
        /\ UNCHANGED <<nextID, sendQueue, chunks, handed, outcome>>
        /\ owns' = owns \ {c.id} /\ UNCHANGED <<owed, wire, rd, wr>>
    BY DEF MoveRequest, At, Now
  <1>2. a.op = "invoke" /\ a.id = c.id /\ (a.held <=> c.id \in owns)
    OBVIOUS
  <1> HIDE DEF a
  <1>3. /\ calls \in Seq(S) /\ Len(calls) = 1 /\ calls[1] = a /\ Pushes(t, calls)
        /\ Pushes(t, <<a>>)
    BY <1>1 DEF Pushes
  <1> HIDE DEF calls, S
  <1>4. \A k \in 1 .. Len(calls) : calls[k] = a
    BY <1>3
  <1>5. todo \in [Threads -> Seq(Call)] /\ Depth(t) \in Nat
    <2>1. todo \in [Threads -> Seq(Call)]
      BY <1>0 DEF TypeOK
    <2> QED BY <1>3, <2>1, StackedPushed
  <1>6. ASSUME NEW i \in IDs PROVE Shares(i)'
    <2>1. Shares(i) /\ Dwindles(i)
      BY <1>0, <1>1, SameDwindle DEF HandInv
    <2>2. i > nextID' \/ i \in Queued' => Unseen(i)
      BY <1>1 DEF Unseen, Queued
    <2>3. \A k \in 1 .. Len(calls) : calls[k].id = i =>
            /\ calls[k].op \notin {"findByID", "issueWrite"} /\ calls[k].op # "enqueue"
            /\ Len(calls) = 1 /\ todo[t] # <<>> /\ Now(t).op \in WholeOps /\ Now(t).id = i
      BY <1>1, <1>2, <1>3, <1>4 DEF WholeOps
    <2> QED BY <1>0, <1>1, <1>3, <2>1, <2>2, <2>3, SharesPushed
  <1>7. ASSUME NEW i \in IDs, i # c.id PROVE Given(i)'
    <2>1. Given(i) /\ (i \in owns' <=> i \in owns)
      BY <1>1, <1>7 DEF HandInv
    <2>2. \A k \in 1 .. Len(calls) : calls[k].id # i
      BY <1>2, <1>4, <1>7
    <2> QED BY <1>0, <1>1, <1>3, <2>1, <2>2, GivenPushed
  <1>8. ASSUME NEW i \in IDs, i = c.id PROVE Given(i)'
    <2>1. Given(i)
      BY DEF HandInv
    <2>3. i \in owns => \E p \in Places({"invoke"}, i)' : Stacked(p[1], p[2])'.held
      <3> DEFINE ops == {"invoke"}
      <3>1. calls[1].op \in ops /\ calls[1].id = i
        BY <1>2, <1>3, <1>8
      <3> HIDE DEF ops
      <3>2. PICK p \in Places(ops, i)' : Stacked(p[1], p[2])' = calls[1]
        BY ONLY <1>3, <1>5, <3>1, t \in Threads, OneWhere
      <3> QED BY <1>2, <1>3, <1>8, <3>2 DEF ops
    <2>4. ASSUME NEW p \in Places({"invoke"}, i), Stacked(p[1], p[2]).held
          PROVE  \E r \in Places({"invoke"}, i)' : Stacked(r[1], r[2])'.held
      <3>1. p # q
        <4>1. Stacked(t, Depth(t) + 1) = c
          BY <1>1, <1>3, <1>5, StackedPushed
        <4>2. CASE p = q
          BY <1>1, <4>1, <4>2 DEF Places
        <4> QED BY <4>2
      <3>2. p \in Places({"invoke"}, i)' /\ Stacked(p[1], p[2])' = Stacked(p[1], p[2])
        BY <1>3, <1>5, <3>1, PlacesKept
      <3> QED BY <2>4, <3>2
    <2> HIDE DEF q
    <2> QED BY <1>1, <1>8, <2>1, <2>3, <2>4 DEF Given
  <1> QED BY <1>6, <1>7, <1>8 DEF HandInv

\* invoke: the callback is called with the request that was moved for it, or it
\* was called before.
LEMMA HandInvoke ==
  ASSUME HandInv, IndInv', NEW t \in Threads, Invoke(t)
  PROVE  HandInv'
  <1> USE DEF itemVars, queueVars, connVars, loopVars, setupVars, netVars, budgetVars, outsideVars
  <1> DEFINE c == Now(t)
             a == Plain("onFailure")
             failed == NotInvoked(c.id) /\ c.id \in authIDs /\ c.err \in Errors
             calls == IF failed THEN <<a>> ELSE <<>>
             S == {a}
  <1>0. TypeOK /\ TypeOK'
    BY DEF HandInv, IndInv
  <1>1. /\ todo[t] # <<>> /\ c.op = "invoke" /\ Then(t, calls)
        /\ UNCHANGED <<nextID, sendQueue, chunks, owns>> /\ UNCHANGED <<owed, wire, rd, wr>>
    BY DEF Invoke, At, Now
  <1>2. a.op = "onFailure"
    BY DEF Plain
  <1> HIDE DEF a, failed
  <1>3. calls \in Seq(S) /\ \A k \in 1 .. Len(calls) : calls[k] = a
    <2>1. CASE failed
      <3>1. calls = <<a>>
        BY <2>1
      <3> HIDE DEF calls
      <3> QED BY <3>1
    <2>2. CASE ~failed
      <3>1. calls = <<>>
        BY <2>2
      <3> HIDE DEF calls
      <3> QED BY <3>1
    <2> QED BY <2>1, <2>2
  <1>4. Pushes(t, calls)
    BY <1>1 DEF Pushes
  <1> HIDE DEF calls, S
  <1>5. todo \in [Threads -> Seq(Call)] /\ outcome \in [IDs -> Outcomes]
    BY <1>0 DEF TypeOK
  <1>6. /\ handed \subseteq handed'
        /\ \A i \in IDs : i # c.id => outcome'[i] = outcome[i]
        /\ outcome[c.id] = "none" /\ c.held => c.id \in handed'
    BY <1>5 DEF Invoke, NotInvoked
  <1>7. ASSUME NEW i \in IDs PROVE Shares(i)'
    <2>1. Shares(i) /\ Dwindles(i)
      BY <1>0, <1>1, SameDwindle DEF HandInv
    <2>2. i > nextID' \/ i \in Queued' => Unseen(i)
      BY <1>1 DEF Unseen, Queued
    <2>3. \A k \in 1 .. Len(calls) :
            /\ calls[k].op \notin {"findByID", "issueWrite"} /\ calls[k].op # "enqueue"
            /\ calls[k].op \notin WholeOps
      BY <1>2, <1>3 DEF WholeOps
    <2> QED BY <1>0, <1>1, <1>3, <1>4, <2>1, <2>2, <2>3, SharesPushed
  <1>8. \A k \in 1 .. Len(calls) : calls[k].op # "invoke"
    BY <1>2, <1>3
  <1>9. ASSUME NEW i \in IDs, i # c.id PROVE Given(i)'
    <2>1. Given(i) /\ outcome'[i] = outcome[i]
      BY <1>6, <1>9 DEF HandInv
    <2> QED BY <1>0, <1>1, <1>3, <1>4, <1>6, <1>8, <1>9, <2>1, GivenPushed
  <1>10. ASSUME NEW i \in IDs, i = c.id PROVE Given(i)'
    <2> DEFINE q == <<t, Depth(t) + 1>>
    <2>1. Given(i) /\ OneHolder(i)
      BY DEF HandInv, Shares
    <2>2. q \in Places({"invoke"}, i) /\ Stacked(q[1], q[2]) = c
      <3>1. q \in Places({"invoke"}, i)
        BY <1>1, <1>5, <1>10, NowPlace
      <3>2. Stacked(t, Depth(t) + 1) = c
        BY <1>1, <1>3, <1>4, <1>5, StackedPushed
      <3> QED BY <3>1, <3>2
    <2> HIDE DEF q
    <2>3. i <= nextID
      <3>1. i \in Travelling
        BY <1>1, <1>5, <1>10, HandledNow DEF HandledOps, Travelling
      <3> QED BY <3>1 DEF HandInv, IndInv, Numbered
    <2>4. Places({"invoke"}, i) \subseteq Places(WholeOps, i)
      BY DEF Places, WholeOps
    <2>5. i \in handed'
      <3>1. CASE \E p \in Places({"invoke"}, i) : Stacked(p[1], p[2]).held
        <4>1. c.held
          BY <2>1, <2>2, <2>4, <3>1 DEF OneHolder
        <4> QED BY <1>6, <1>10, <2>1, <4>1 DEF Given
      <3>2. CASE i \in handed
        BY <1>6, <3>2
      <3> QED BY <2>1, <2>2, <2>3, <3>1, <3>2 DEF Given
    <2>6. i \notin owns'
      BY <1>1, <2>1, <2>2 DEF Given
    <2> QED BY <2>5, <2>6 DEF Given
  <1> QED BY <1>7, <1>9, <1>10 DEF HandInv

\* cancelAll: every stored item still has its request, which its callback gets
\* unless it was called before.
LEMMA HandCancelAll ==
  ASSUME HandInv, IndInv', NEW t \in Threads, CancelAll(t)
  PROVE  HandInv'
  <1> USE DEF itemVars, queueVars, connVars, loopVars, setupVars, netVars, budgetVars, outsideVars
  <1> DEFINE a == Plain("onFailure")
             calls == IF Cancelled \cap authIDs # {} THEN <<a>> ELSE <<>>
             S == {a}
  <1>0. TypeOK /\ TypeOK'
    BY DEF HandInv, IndInv
  <1>1. /\ todo[t] # <<>> /\ Now(t).op = "cancelAll" /\ Then(t, calls)
        /\ UNCHANGED <<nextID, sendQueue, chunks>> /\ UNCHANGED <<owed, wire, rd, wr>>
    BY DEF CancelAll, At, Now
  <1>2. a.op = "onFailure"
    BY DEF Plain
  <1> HIDE DEF a
  <1>3. calls \in Seq(S) /\ \A k \in 1 .. Len(calls) : calls[k] = a
    OBVIOUS
  <1>4. Pushes(t, calls)
    BY <1>1 DEF Pushes
  <1> HIDE DEF calls, S
  <1>5. todo \in [Threads -> Seq(Call)] /\ outcome \in [IDs -> Outcomes]
    BY <1>0 DEF TypeOK
  <1>6. /\ handed \subseteq handed' /\ owns' = owns \ store
        /\ \A i \in IDs : i \notin store => outcome'[i] = outcome[i]
        /\ \A i \in store : outcome[i] = "none" /\ i \in owns => i \in handed'
    BY <1>5 DEF CancelAll, Cancelled, NotInvoked
  <1>7. ASSUME NEW i \in IDs PROVE Shares(i)'
    <2>1. Shares(i) /\ Dwindles(i)
      BY <1>0, <1>1, SameDwindle DEF HandInv
    <2>2. i > nextID' \/ i \in Queued' => Unseen(i)
      BY <1>1 DEF Unseen, Queued
    <2>3. \A k \in 1 .. Len(calls) :
            /\ calls[k].op \notin {"findByID", "issueWrite"} /\ calls[k].op # "enqueue"
            /\ calls[k].op \notin WholeOps
      BY <1>2, <1>3 DEF WholeOps
    <2> QED BY <1>0, <1>1, <1>3, <1>4, <2>1, <2>2, <2>3, SharesPushed
  <1>8. \A k \in 1 .. Len(calls) : calls[k].op # "invoke"
    BY <1>2, <1>3
  <1>9. ASSUME NEW i \in IDs, i \notin store PROVE Given(i)'
    <2>1. Given(i) /\ outcome'[i] = outcome[i] /\ (i \in owns' <=> i \in owns)
      BY <1>6, <1>9 DEF HandInv
    <2> QED BY <1>0, <1>1, <1>3, <1>4, <1>6, <1>8, <2>1, GivenPushed
  <1>10. ASSUME NEW i \in IDs, i \in store PROVE Given(i)'
    <2>1. Given(i) /\ i \in owns
      BY <1>10 DEF HandInv, IndInv, Ownership
    <2>2. i \in handed' /\ i \notin owns'
      BY <1>6, <1>10, <2>1 DEF Given
    <2> QED BY <2>2 DEF Given
  <1> QED BY <1>7, <1>9, <1>10 DEF HandInv

----------------------------------------------------------------------------
(* Handlers that hand on no item.                                          *)

\* A thread makes calls that are about no item at all.
LEMMA HandNeutral ==
  ASSUME HandInv, IndInv', NEW t \in Threads,
         \/ todo[t] # <<>> /\ Now(t).op # "invoke"
            /\ \E S : \E calls \in Seq(S) : Then(t, calls) /\ \A c \in Range(calls) : c.op \notin ItemCalls
         \/ todo[t] = <<>>
            /\ \E S : \E calls \in Seq(S) : /\ todo' = [todo EXCEPT ![t] = calls]
                                            /\ \A c \in Range(calls) : c.op \notin ItemCalls,
         UNCHANGED <<nextID, sendQueue, chunks, owns, handed, outcome>>,
         UNCHANGED <<owed, wire, rd, wr>>
  PROVE  HandInv'
  <1>1. PICK S : \E calls \in Seq(S) : Pushes(t, calls) /\ \A c \in Range(calls) : c.op \notin ItemCalls
    BY DEF Pushes
  <1>2. PICK calls \in Seq(S) : Pushes(t, calls) /\ \A c \in Range(calls) : c.op \notin ItemCalls
    BY <1>1
  <1>3. \A k \in 1 .. Len(calls) : calls[k].op \notin HandOps
    <2>1. \A k \in 1 .. Len(calls) : calls[k] \in Range(calls)
      BY <1>2 DEF Range
    <2> QED BY <1>2, <2>1 DEF HandOps, WholeOps, ItemCalls
  <1>4. \A i \in IDs : Dwindles(i)
    BY SameDwindle DEF HandInv, IndInv
  <1>5. \A i \in Queued' : Unseen(i)
    BY DEF Queued, Unseen
  <1>6. todo[t] # <<>> => Now(t).op # "invoke"
    OBVIOUS
  <1> QED BY <1>2, <1>3, <1>4, <1>5, <1>6, HandPushed

\* restartConnection(error)
LEMMA HandRestart ==
  ASSUME HandInv, IndInv', NEW t \in Threads, Restart(t)
  PROVE  HandInv'
  <1> USE DEF itemVars, queueVars, connVars, loopVars, setupVars, netVars, budgetVars, outsideVars
  <1> DEFINE calls == ShutdownCalls(Now(t).err) \o <<Plain("resolveAgain")>>
  <1>1. /\ todo[t] # <<>> /\ Now(t).op # "invoke" /\ Then(t, calls)
        /\ UNCHANGED <<nextID, sendQueue, chunks, owns, handed, outcome>>
        /\ UNCHANGED <<owed, wire, rd, wr>>
    BY DEF Restart, At, Now
  <1>2. Plain("resolveAgain").op \notin ItemCalls
    BY DEF Plain, ItemCalls
  <1>3. \E S : calls \in Seq(S) /\ \A c \in Range(calls) : c.op \notin ItemCalls
    BY <1>2, ShutdownNeutral
  <1> HIDE DEF calls
  <1> QED BY <1>1, <1>3, HandNeutral

\* The setup of a connection.
LEMMA HandSetupHandler ==
  ASSUME HandInv, IndInv', NEW t \in Threads, NEW n \in Sockets,
         \/ ResolveCallback(t, n) \/ AsyncConnectCallback(t, n)
         \/ HandshakeCallback(t, n) \/ HeaderCallback(t, n)
  PROVE  HandInv'
  <1> USE DEF itemVars, queueVars, connVars, loopVars, setupVars, netVars, budgetVars, outsideVars
  <1>1. /\ todo[t] = <<>> /\ UNCHANGED <<nextID, sendQueue, chunks, owns, handed, outcome>>
        /\ UNCHANGED <<owed, wire, rd, wr>>
    BY DEF ResolveCallback, AsyncConnectCallback, HandshakeCallback, HeaderCallback, Handles, Idle
  <1>2. ASSUME NEW T, \A c \in T : c.op \notin ItemCalls, NEW calls \in Seq(T),
               todo' = [todo EXCEPT ![t] = calls]
        PROVE  HandInv'
    <2>1. \A c \in Range(calls) : c.op \notin ItemCalls
      BY <1>2 DEF Range
    <2> QED BY <1>1, <1>2, <2>1, HandNeutral
  <1>3. CASE todo' = [todo EXCEPT ![t] = ShutdownCalls("CanceledDuringReset")
                                           \o <<Plain("onFailure")>>]
    <2>1. Plain("onFailure").op \notin ItemCalls
      BY DEF Plain, ItemCalls
    <2> DEFINE calls == ShutdownCalls("CanceledDuringReset") \o <<Plain("onFailure")>>
    <2>2. PICK S : calls \in Seq(S) /\ \A c \in Range(calls) : c.op \notin ItemCalls
      BY <2>1, ShutdownNeutral
    <2>3. todo' = [todo EXCEPT ![t] = calls]
      BY <1>3
    <2> HIDE DEF calls
    <2> QED BY <1>1, <2>2, <2>3, HandNeutral
  <1>4. CASE ResolveCallback(t, n)
    <2> DEFINE T == {On("initSocket", n, FALSE), Plain("onFailure")}
    <2>1. \A c \in T : c.op \notin ItemCalls
      BY DEF On, Plain, ItemCalls
    <2>2. <<On("initSocket", n, FALSE)>> \in Seq(T) /\ <<Plain("onFailure")>> \in Seq(T)
      OBVIOUS
    <2> HIDE DEF T
    <2> QED BY <1>2, <1>4, <2>1, <2>2 DEF ResolveCallback, Handles
  <1>5. CASE AsyncConnectCallback(t, n)
    <2> DEFINE a == On(IF Ssl THEN "handshake" ELSE "finishInit", n, FALSE)
    <2>1. a.op \notin ItemCalls
      BY DEF On, ItemCalls
    <2>2. \/ todo' = [todo EXCEPT ![t] = <<a>>]
          \/ todo' = [todo EXCEPT ![t] = ShutdownCalls("CanceledDuringReset")
                                           \o <<Plain("onFailure")>>]
      BY <1>5 DEF AsyncConnectCallback, Handles
    <2> HIDE DEF a
    <2>3. <<a>> \in Seq({a}) /\ \A c \in {a} : c.op \notin ItemCalls
      BY <2>1
    <2> QED BY <1>2, <1>3, <2>2, <2>3
  <1>6. CASE HandshakeCallback(t, n)
    <2> DEFINE T == {On("finishInit", n, FALSE), Plain("shutdownSocket"), Plain("onFailure")}
    <2>1. \A c \in T : c.op \notin ItemCalls
      BY DEF On, Plain, ItemCalls
    <2>2. /\ <<On("finishInit", n, FALSE)>> \in Seq(T)
          /\ <<Plain("shutdownSocket"), Plain("onFailure")>> \in Seq(T)
      OBVIOUS
    <2> HIDE DEF T
    <2> QED BY <1>2, <1>6, <2>1, <2>2 DEF HandshakeCallback, Handles
  <1>7. CASE HeaderCallback(t, n)
    <2> DEFINE T == {Plain("insertAuth"), Plain("setConnected"), Plain("startWriting"),
                     Plain("startReading")}
               calls == <<Plain("insertAuth"), Plain("setConnected"),
                          Plain("startWriting"), Plain("startReading")>>
    <2>1. \A c \in T : c.op \notin ItemCalls
      BY DEF Plain, ItemCalls
    <2>2. calls \in Seq(T)
      OBVIOUS
    <2>3. \/ todo' = [todo EXCEPT ![t] = calls]
          \/ todo' = [todo EXCEPT ![t] = ShutdownCalls("CanceledDuringReset")
                                           \o <<Plain("onFailure")>>]
      BY <1>7 DEF HeaderCallback, Handles
    <2> HIDE DEF T, calls
    <2> QED BY <1>2, <1>3, <2>1, <2>2, <2>3
  <1> QED BY <1>4, <1>5, <1>6, <1>7

\* Deadlines, a failed read, and a write that went well.
LEMMA HandQuietHandler ==
  ASSUME HandInv, IndInv', NEW t \in Threads, NEW l \in Loops,
         \/ ReadDeadline(t, l) \/ WriteDeadline(t, l)
         \/ ReadCallback(t, l) /\ rd[l].op = "err"
         \/ WriteCallback(t, l) /\ wr[l].op = "ok"
  PROVE  HandInv'
  <1> USE DEF itemVars, queueVars, connVars, loopVars, setupVars, netVars, budgetVars, outsideVars
  <1>1. TypeOK
    BY DEF HandInv, IndInv
  <1>2. /\ rd \in [Loops -> LoopRec] /\ wr \in [Loops -> LoopRec]
        /\ \A i \in IDs : owed[i].left \in Nat
    <2>1. owed \in [IDs -> OwedRec]
      BY <1>1 DEF TypeOK
    <2>2. \A i \in IDs : owed[i].left \in Nat
      BY <2>1, BoundsAssumption DEF OwedRec
    <2> QED BY <1>1, <2>2 DEF TypeOK, WriteRec
  <1>3. /\ todo[t] = <<>> /\ UNCHANGED <<nextID, sendQueue, chunks, owns, handed, outcome>>
        /\ UNCHANGED <<owed, wire>>
    BY DEF ReadDeadline, WriteDeadline, ReadCallback, WriteCallback, Idle
  <1>4. \E a : a.op \notin HandOps /\ todo' = [todo EXCEPT ![t] = <<a>>]
    BY DEF ReadDeadline, WriteDeadline, ReadCallback, WriteCallback, WrittenCalls, Fail, On,
           HandOps, WholeOps
  <1>5. /\ \A k \in Loops : rd'[k].data = rd[k].data \/ rd'[k].data = <<>>
        /\ \A k \in Loops : wr'[k].op \in {"pending", "err"} =>
             wr[k].op \in {"pending", "err"} /\ wr'[k].data = wr[k].data
    <2>1. rd[l] \in LoopRec /\ wr[l] \in LoopRec
      BY <1>2
    <2>2. ASSUME NEW r \in LoopRec
          PROVE  /\ [r EXCEPT !.expired = FALSE].data = r.data
                 /\ [r EXCEPT !.expired = FALSE].op = r.op
                 /\ [r EXCEPT !.op = "idle", !.armed = FALSE, !.data = <<>>].data = <<>>
                 /\ [r EXCEPT !.op = "idle", !.armed = FALSE, !.data = <<>>].op = "idle"
      BY DEF LoopRec
    <2>3. \/ rd' = [rd EXCEPT ![l] = [rd[l] EXCEPT !.expired = FALSE]] /\ wr' = wr
          \/ wr' = [wr EXCEPT ![l] = [wr[l] EXCEPT !.expired = FALSE]] /\ rd' = rd
          \/ rd' = [rd EXCEPT ![l] = [rd[l] EXCEPT !.op = "idle", !.armed = FALSE, !.data = <<>>]]
             /\ wr' = wr
          \/ wr' = [wr EXCEPT ![l] = [wr[l] EXCEPT !.op = "idle", !.armed = FALSE, !.data = <<>>]]
             /\ rd' = rd
      BY DEF ReadDeadline, WriteDeadline, ReadCallback, WriteCallback
    <2>4. \A k \in Loops : k # l => rd'[k] = rd[k] /\ wr'[k] = wr[k]
      BY <1>2, <2>3
    <2>5. \/ rd'[l] = [rd[l] EXCEPT !.expired = FALSE] /\ wr'[l] = wr[l]
          \/ wr'[l] = [wr[l] EXCEPT !.expired = FALSE] /\ rd'[l] = rd[l]
          \/ rd'[l] = [rd[l] EXCEPT !.op = "idle", !.armed = FALSE, !.data = <<>>] /\ wr'[l] = wr[l]
          \/ wr'[l] = [wr[l] EXCEPT !.op = "idle", !.armed = FALSE, !.data = <<>>] /\ rd'[l] = rd[l]
      BY <1>2, <2>3
    <2>6. /\ rd'[l].data = rd[l].data \/ rd'[l].data = <<>>
          /\ wr'[l].op \in {"pending", "err"} =>
               wr[l].op \in {"pending", "err"} /\ wr'[l].data = wr[l].data
      BY <2>1, <2>2, <2>5
    <2> QED BY <2>4, <2>6
  <1>6. \A i \in IDs : Dwindles(i)
    BY <1>2, <1>3, <1>5, WritesLess DEF Dwindles
  <1> QED BY <1>3, <1>4, <1>6, HandReturn

----------------------------------------------------------------------------
(* Steps that hand on one item.                                            *)

\* They hand on no other.
LEMMA HandOther ==
  ASSUME HandInv, IndInv', NEW t \in Threads, NEW S, NEW calls \in Seq(S), Pushes(t, calls),
         NEW i \in IDs, \A k \in 1 .. Len(calls) : calls[k].op \in HandOps => calls[k].id # i,
         todo[t] # <<>> => Now(t).op # "invoke",
         UNCHANGED <<nextID, owns, handed, outcome>>, chunks'[i] = chunks[i],
         i \in Queued' => Unseen(i), Dwindles(i)
  PROVE  Shares(i)' /\ Given(i)'
  <1>1. TypeOK /\ TypeOK' /\ Shares(i) /\ Given(i)
    BY DEF HandInv, IndInv
  <1>2. i > nextID' \/ i \in Queued' => Unseen(i)
    BY DEF Unseen
  <1>3. Shares(i)'
    BY <1>1, <1>2, SharesPushed DEF HandOps, WholeOps
  <1>4. Given(i)'
    BY <1>1, GivenPushed DEF HandOps, WholeOps
  <1> QED BY <1>3, <1>4

\* A thread whose current call is not about it leaves the request of an item.
LEMMA HandGiven ==
  ASSUME HandInv, NEW t \in Threads, NEW S, NEW calls \in Seq(S), Pushes(t, calls),
         NEW i \in IDs, \A k \in 1 .. Len(calls) : calls[k].op # "invoke",
         todo[t] # <<>> => Now(t).op # "invoke",
         UNCHANGED <<nextID, owns, handed, outcome>>
  PROVE  Given(i)'
  <1>1. TypeOK /\ Given(i)
    BY DEF HandInv, IndInv
  <1> QED BY <1>1, GivenPushed

\* What travels, and is held by nobody as a whole, was seen by the server.
LEMMA SeenTravels ==
  ASSUME IndInv, NEW i \in IDs, i \in Travelling
  PROVE  i <= nextID /\ i \notin Queued /\ Places({"enqueue"}, i) = {}
  <1>1. todo \in [Threads -> Seq(Call)] /\ nextID \in Nat
    BY DEF IndInv, TypeOK
  <1>2. i \notin Waiting /\ i \in 1 .. nextID
    BY DEF IndInv, Separate, Numbered
  <1>3. i \notin InCall({"enqueue"})
    BY <1>2 DEF Waiting
  <1> QED BY <1>1, <1>2, <1>3, PlacesInCall DEF Waiting

\* removeFirst: the item leaves the queue for the write loop.
LEMMA HandRemoveFirst ==
  ASSUME HandInv, IndInv', NEW t \in Threads, RemoveFirst(t)
  PROVE  HandInv'
  <1> USE DEF itemVars, queueVars, connVars, loopVars, setupVars, netVars, budgetVars, outsideVars
  <1> DEFINE c == Now(t)
             a == Plain("startReading")
             b == Send("issueWrite", c.on, c.id, c.held)
             d == Depth(t)
  <1>0. TypeOK /\ TypeOK'
    BY DEF HandInv, IndInv
  <1>1. /\ todo[t] # <<>> /\ c.op = "removeFirst" /\ Then(t, <<a, b>>)
        /\ sendQueue # <<>> /\ sendQueue' = Tail(sendQueue)
        /\ UNCHANGED <<nextID, chunks, owns, handed, outcome>> /\ UNCHANGED <<owed, wire, rd, wr>>
    BY DEF RemoveFirst, WriteCallsFor, At, Now
  <1>2. a.op = "startReading" /\ b.op = "issueWrite" /\ b.id = c.id
    BY DEF Plain, Send
  <1> HIDE DEF a, b
  <1>2a. PICK S : S = {a, b}
    OBVIOUS
  <1>3. PICK calls \in Seq(S) : Len(calls) = 2 /\ calls[1] = a /\ calls[2] = b /\ Pushes(t, calls)
    <2>1. <<a, b>> \in Seq(S) /\ Pushes(t, <<a, b>>)
      BY <1>1, <1>2a DEF Pushes
    <2> QED BY <2>1
  <1>4. \A k \in 1 .. Len(calls) : k = 1 \/ k = 2
    BY <1>3
  <1>5. /\ todo \in [Threads -> Seq(Call)] /\ sendQueue \in Seq(IDs)
        /\ ChunksPerResponse \in Nat /\ d \in Nat
    <2>1. todo \in [Threads -> Seq(Call)] /\ sendQueue \in Seq(IDs)
      BY <1>0 DEF TypeOK
    <2> QED BY <1>3, <2>1, BoundsAssumption, StackedPushed
  <1>6. Queued' \subseteq Queued
    <2>1. /\ Len(sendQueue) \in Nat /\ Len(Tail(sendQueue)) = Len(sendQueue) - 1
          /\ \A k \in 1 .. Len(Tail(sendQueue)) : Tail(sendQueue)[k] = sendQueue[k + 1]
          /\ DOMAIN sendQueue = 1 .. Len(sendQueue)
          /\ DOMAIN Tail(sendQueue) = 1 .. Len(Tail(sendQueue))
      BY <1>1, <1>5, HeadTailProperties
    <2>2. \A k \in DOMAIN Tail(sendQueue) : Tail(sendQueue)[k] \in Queued
      BY <2>1 DEF Queued
    <2> QED BY <1>1, <2>2 DEF Queued
  <1>7. ASSUME NEW i \in IDs, i # c.id PROVE Shares(i)' /\ Given(i)'
    <2>1. \A k \in 1 .. Len(calls) : calls[k].op \in HandOps => calls[k].id # i
      BY <1>2, <1>3, <1>4, <1>7 DEF HandOps, WholeOps
    <2>2. Dwindles(i) /\ (i \in Queued' => Unseen(i))
      BY <1>0, <1>1, <1>6, SameDwindle DEF Unseen
    <2> QED BY <1>1, <1>3, <2>1, <2>2, HandOther
  <1>8. ASSUME NEW i \in IDs, i = c.id PROVE Shares(i)' /\ Given(i)'
    <2>1. i \in Queued
      <3>1. c \in CallsOf(t)
        BY <1>1, <1>5, StackSplit
      <3>2. i = Head(sendQueue)
        BY <1>1, <1>8, <3>1 DEF HandInv, IndInv, Locked, LockOps
      <3>3. Head(sendQueue) = sendQueue[1] /\ 1 \in DOMAIN sendQueue
        BY <1>1, <1>5
      <3> QED BY <3>2, <3>3 DEF Queued
    <2>2. NoHolder(i) /\ IsFiniteSet(Copies(i)) /\ Copies(i) = {} /\ Count(i) = 0
      BY <1>0, <2>1, Absent DEF HandInv, IndInv, Separate, Waiting
    <2>3. chunks[i] = 0 /\ Dwindles(i)
      BY <1>0, <1>1, <2>1, SameDwindle DEF HandInv, Shares, Unseen
    <2>4. ASSUME NEW ops PROVE \A p \in Places(ops, i)' :
            \/ p \in Places(ops, i)
            \/ \E k \in 1 .. Len(calls) : /\ calls[k].op \in ops /\ calls[k].id = i
                                         /\ p = <<t, d + ((Len(calls) + 1) - k)>>
      <3>1. Pushes(t, calls) /\ todo \in [Threads -> Seq(Call)] /\ calls \in Seq(S)
        BY <1>3, <1>5
      <3> HIDE DEF d
      <3> QED BY ONLY <3>1, t \in Threads, PlacesPushed DEF d
    <2> HIDE DEF d
    <2>5. \A x, n : Found(x, n, i)' => Found(x, n, i)
      <3>1. \A k \in 1 .. Len(calls) : calls[k].op \notin {"findByID"}
        BY <1>2, <1>3, <1>4
      <3> QED BY <2>4, <3>1 DEF Found
    <2>6. Copies(i)' \subseteq Copies(i)
      BY <2>3, <2>5, CopiesDwindle DEF Dwindles
    <2>7. IsFiniteSet(Copies(i)') /\ Count(i)' = 0
      <3>1. IsFiniteSet(Copies(i)') /\ Count(i)' <= 0
        BY <1>0, <2>2, <2>3, <2>6, CountLess DEF Dwindles
      <3> QED BY <1>0, <3>1, CountTypeNext
    <2>8. \A p \in Places(WholeOps, i)' : p = <<t, d + 1>>
      <3>1. Places(WholeOps, i) = {}
        BY <2>2 DEF NoHolder
      <3>2. (Len(calls) + 1) - 2 = 1
        BY <1>3
      <3> QED BY <1>2, <1>3, <1>4, <2>4, <3>1, <3>2 DEF WholeOps
    <2>9. Writes(i)' = {}
      BY <2>2, <2>3 DEF Dwindles, NoHolder
    <2>10. OneHolder(i)'
      BY <2>8, <2>9 DEF OneHolder
    <2>11. Shares(i)'
      BY <1>1, <1>5, <2>3, <2>7, <2>10 DEF Shares
    <2>12. \A k \in 1 .. Len(calls) : calls[k].op # "invoke"
      BY <1>2, <1>3, <1>4
    <2> QED BY <1>1, <1>3, <2>11, <2>12, HandGiven
  <1> QED BY <1>7, <1>8 DEF HandInv

\* One copy less.
LEMMA CountOneLess ==
  ASSUME TypeOK, TypeOK', NEW i \in IDs, IsFiniteSet(Copies(i)), NEW p \in Copies(i),
         Copies(i)' \subseteq Copies(i) \ {p}, owed'[i].left = owed[i].left
  PROVE  IsFiniteSet(Copies(i)') /\ Count(i)' + 1 <= Count(i)
  <1> DEFINE old == Copies(i)
             new == Copies(i)'
  <1>1. IsFiniteSet(old) /\ p \in old /\ new \in SUBSET (old \ {p})
    OBVIOUS
  <1> HIDE DEF old, new
  <1>2. IsFiniteSet(old \ {p}) /\ Cardinality(old \ {p}) = Cardinality(old) - 1
    BY <1>1, FS_RemoveElement
  <1>3. IsFiniteSet(new) /\ Cardinality(new) <= Cardinality(old \ {p})
    BY <1>1, <1>2, FS_Subset
  <1>4. owed[i].left \in Nat /\ Cardinality(old) \in Nat /\ Cardinality(new) \in Nat
    BY <1>3, CountType, CountTypeNext DEF old, new
  <1>5. (owed[i].left + Cardinality(new)) + 1 <= owed[i].left + Cardinality(old)
    BY <1>2, <1>3, <1>4
  <1> QED BY <1>3, <1>5 DEF Count, old, new

\* processChunk: the chunk is added, and whoever adds the last one completes
\* the item.
LEMMA HandFindByID ==
  ASSUME HandInv, IndInv', NEW t \in Threads, FindByID(t)
  PROVE  HandInv'
  <1> USE DEF itemVars, queueVars, connVars, loopVars, setupVars, netVars, budgetVars, outsideVars
  <1> DEFINE c == Now(t)
             a == Item("removeByID", c.id, "ok")
             d == Depth(t)
             q == <<"found", t, d + 1>>
  <1>0. TypeOK /\ TypeOK'
    BY DEF HandInv, IndInv
  <1>1. /\ todo[t] # <<>> /\ c.op = "findByID"
        /\ UNCHANGED <<nextID, sendQueue, owns, handed, outcome>> /\ UNCHANGED <<owed, wire, rd, wr>>
    BY DEF FindByID, At, Now
  <1>2. a.op = "removeByID" /\ a.id = c.id
    BY DEF Item
  <1>3. \/ Return(t) /\ chunks' = chunks
        \/ /\ chunks[c.id] + 1 < ChunksPerResponse
           /\ chunks' = [chunks EXCEPT ![c.id] = chunks[c.id] + 1] /\ Return(t)
        \/ /\ chunks[c.id] + 1 >= ChunksPerResponse
           /\ chunks' = [chunks EXCEPT ![c.id] = ChunksPerResponse] /\ Then(t, <<a>>)
    BY DEF FindByID, CompletedCalls
  <1>4. \A i \in IDs : Dwindles(i)
    BY <1>0, <1>1, SameDwindle
  <1>5. CASE Return(t) /\ chunks' = chunks
    BY <1>1, <1>4, <1>5, HandReturn
  <1> HIDE DEF a
  <1>6. ASSUME ~(Return(t) /\ chunks' = chunks) PROVE HandInv'
    <2> DEFINE x == c.id
    <2>1. /\ todo \in [Threads -> Seq(Call)] /\ chunks \in [IDs -> 0 .. ChunksPerResponse]
          /\ ChunksPerResponse \in Nat /\ x \in IDs
      <3>1. todo \in [Threads -> Seq(Call)] /\ chunks \in [IDs -> 0 .. ChunksPerResponse]
        BY <1>0 DEF TypeOK
      <3> QED BY <1>1, <3>1, BoundsAssumption, HandledNow DEF HandledOps
    <2>2. PICK S : S = {a}
      OBVIOUS
    <2>3. PICK calls \in Seq(S) :
            /\ Pushes(t, calls)
            /\ \/ /\ Len(calls) = 0 /\ chunks[x] + 1 < ChunksPerResponse
                  /\ chunks' = [chunks EXCEPT ![x] = chunks[x] + 1]
               \/ /\ Len(calls) = 1 /\ calls[1] = a /\ chunks[x] + 1 >= ChunksPerResponse
                  /\ chunks' = [chunks EXCEPT ![x] = ChunksPerResponse]
      <3>1. /\ <<>> \in Seq(S) /\ Len(<<>>) = 0
            /\ <<a>> \in Seq(S) /\ Len(<<a>>) = 1 /\ <<a>>[1] = a
        BY <2>2
      <3> QED BY <1>1, <1>3, <1>6, <3>1 DEF Pushes, Return
    <2>4. \A k \in 1 .. Len(calls) : k = 1 /\ Len(calls) = 1 /\ calls[k] = a
      <3>1. Len(calls) = 0 \/ (Len(calls) = 1 /\ calls[1] = a)
        BY <2>3
      <3>2. ASSUME NEW k \in 1 .. Len(calls) PROVE k = 1 /\ Len(calls) = 1
        <4>1. CASE Len(calls) = 0
          BY <3>2, <4>1
        <4>2. CASE Len(calls) = 1
          BY <3>2, <4>2
        <4> QED BY <3>1, <4>1, <4>2
      <3> QED BY <3>1, <3>2
    <2>5. ASSUME NEW i \in IDs, i # x PROVE Shares(i)' /\ Given(i)'
      <3>1. \A k \in 1 .. Len(calls) : calls[k].op \in HandOps => calls[k].id # i
        BY <1>2, <2>4, <2>5
      <3>2. Dwindles(i) /\ chunks'[i] = chunks[i] /\ (i \in Queued' => Unseen(i))
        BY <1>1, <1>4, <2>1, <2>3, <2>5 DEF Unseen, Queued
      <3>3. Pushes(t, calls) /\ (todo[t] # <<>> => Now(t).op # "invoke")
            /\ UNCHANGED <<nextID, owns, handed, outcome>>
        BY <1>1, <2>3
      <3> HIDE DEF c
      <3> QED BY <3>1, <3>2, <3>3, HandOther
    <2>6. ASSUME NEW i \in IDs, i = x PROVE Shares(i)' /\ Given(i)'
      <3>1. Shares(i) /\ i \in Travelling
        BY <1>1, <2>1, <2>6, HandledNow DEF HandInv, Travelling, HandledOps
      <3>2. i <= nextID /\ i \notin Queued /\ Places({"enqueue"}, i) = {}
        BY <3>1, SeenTravels DEF HandInv
      <3>3. ASSUME NEW ops PROVE \A p \in Places(ops, i)' :
              \/ p \in Places(ops, i) /\ p # <<t, d + 1>>
              \/ \E k \in 1 .. Len(calls) : /\ calls[k].op \in ops /\ calls[k].id = i
                                           /\ p = <<t, d + ((Len(calls) + 1) - k)>>
        <4>1. Pushes(t, calls) /\ todo \in [Threads -> Seq(Call)] /\ calls \in Seq(S)
          BY <2>1, <2>3
        <4> HIDE DEF d
        <4> QED BY ONLY <4>1, t \in Threads, PlacesPushed DEF d
      <3>4. <<t, d + 1>> \in Places({"findByID"}, i)
        <4> DEFINE ops == {"findByID"}
        <4>1. Now(t).op \in ops /\ Now(t).id = i
          BY <1>1, <2>6
        <4> HIDE DEF ops, d
        <4>2. <<t, Depth(t) + 1>> \in Places(ops, Now(t).id)
          BY ONLY <1>1, <2>1, <4>1, t \in Threads, NowPlace
        <4> QED BY <4>1, <4>2 DEF ops, d
      <3>5. q \in Copies(i)
        BY <3>4, CopyIs DEF Found
      <3>6. \A u, n : Found(u, n, i)' => Found(u, n, i) /\ <<u, n>> # <<t, d + 1>>
        <4>1. \A k \in 1 .. Len(calls) : calls[k].op \notin {"findByID"}
          BY <1>2, <2>4
        <4> HIDE DEF d
        <4> QED BY <3>3, <4>1 DEF Found
      <3> HIDE DEF d
      <3>7. Copies(i)' \subseteq Copies(i) \ {q}
        <4>1. Copies(i)' \subseteq Copies(i)
          BY <1>4, <3>6, CopiesDwindle DEF Dwindles
        <4>2. q \notin Copies(i)'
          BY <3>6, CopyIs
        <4> QED BY <4>1, <4>2
      <3>8. /\ IsFiniteSet(Copies(i)') /\ Count(i)' + 1 <= Count(i)
            /\ Count(i) \in Nat /\ Count(i)' \in Nat /\ chunks[i] \in Nat
        <4>1. IsFiniteSet(Copies(i)') /\ Count(i)' + 1 <= Count(i)
          BY <1>0, <1>1, <3>1, <3>5, <3>7, CountOneLess DEF Shares
        <4> QED BY <1>0, <3>1, <4>1, CountType, CountTypeNext DEF Shares
      <3>9. NoHolder(i) /\ Count(i) + chunks[i] <= ChunksPerResponse
        BY <3>1, <3>8 DEF Shares
      <3>10. /\ chunks'[i] = chunks[i] + 1 /\ Count(i)' + chunks'[i] <= ChunksPerResponse
             /\ Len(calls) = 1 => Count(i)' = 0
        <4>1. \/ /\ Len(calls) = 0 /\ chunks[i] + 1 < ChunksPerResponse
                 /\ chunks'[i] = chunks[i] + 1
              \/ /\ Len(calls) = 1 /\ chunks[i] + 1 >= ChunksPerResponse
                 /\ chunks'[i] = ChunksPerResponse
          BY <2>1, <2>3, <2>6
        <4>2. Count(i) >= 1 /\ chunks[i] + 1 <= ChunksPerResponse
          BY <2>1, <3>8, <3>9
        <4>3. chunks'[i] = chunks[i] + 1
          BY <2>1, <3>8, <4>1, <4>2
        <4>4. Count(i)' + (chunks[i] + 1) <= ChunksPerResponse
          BY <2>1, <3>8, <3>9
        <4>5. CASE Len(calls) = 1
          BY <2>1, <3>8, <3>9, <4>1, <4>5
        <4> QED BY <4>3, <4>4, <4>5
      <3>11. \A p \in Places(WholeOps, i)' : Len(calls) = 1 /\ p = <<t, d + 1>>
        <4>1. Places(WholeOps, i) = {}
          BY <3>9 DEF NoHolder
        <4>2. \A k \in 1 .. Len(calls) : (Len(calls) + 1) - k = 1 /\ Len(calls) = 1
          BY <2>4
        <4> QED BY <3>3, <4>1, <4>2
      <3>12. Writes(i)' = {}
        BY <1>4, <3>9 DEF Dwindles, NoHolder
      <3>13. OneHolder(i)' /\ (NoHolder(i)' \/ Count(i)' = 0)
        BY <3>10, <3>11, <3>12 DEF OneHolder, NoHolder
      <3>14. ~Unseen(i)'
        <4>1. ~(i > nextID') /\ i \notin Queued'
          BY <1>0, <1>1, <3>2 DEF Queued, TypeOK, IDs
        <4>2. \A k \in 1 .. Len(calls) : calls[k].op \notin {"enqueue"} /\ calls[k].op \notin {"issueWrite"}
          BY <1>2, <2>4
        <4>3. Places({"enqueue"}, i)' = {}
          BY <3>2, <3>3, <4>2
        <4>4. Places({"issueWrite"}, i) = {}
          BY <3>9 DEF NoHolder, Places, WholeOps
        <4>5. Places({"issueWrite"}, i)' = {}
          BY <3>3, <4>2, <4>4
        <4> QED BY <3>12, <4>1, <4>3, <4>5 DEF Unseen
      <3>15. Shares(i)'
        BY <3>8, <3>10, <3>13, <3>14 DEF Shares
      <3>16. \A k \in 1 .. Len(calls) : calls[k].op # "invoke"
        BY <1>2, <2>4
      <3>17. Given(i)'
        BY <1>1, <2>3, <3>16, HandGiven
      <3> QED BY <3>15, <3>17
    <2> QED BY <2>5, <2>6 DEF HandInv
  <1> QED BY <1>3, <1>5, <1>6

\* An item in the hands of one holder whose holder is replaced: by one call of
\* thread t, or by its write.
LEMMA SharesReplaced ==
  ASSUME TypeOK, TypeOK', NEW i \in IDs, Shares(i), Unseen(i), Count(i) = 0, chunks'[i] = chunks[i],
         owed'[i].left = owed[i].left, Copies(i)' \subseteq Copies(i), OneHolder(i)'
  PROVE  Shares(i)'
  <1>1. chunks[i] = 0 /\ IsFiniteSet(Copies(i))
    BY DEF Shares
  <1>2. owed[i].left \in Nat /\ ChunksPerResponse \in Nat
    BY <1>1, CountType, BoundsAssumption
  <1>3. IsFiniteSet(Copies(i)') /\ Count(i)' <= 0
    BY <1>1, <1>2, CountLess
  <1>4. Count(i)' = 0
    BY <1>3, CountTypeNext
  <1> QED BY <1>1, <1>2, <1>3, <1>4 DEF Shares

\* The rest of sendNextRequest: the item is being written.
LEMMA HandIssueWrite ==
  ASSUME HandInv, IndInv', NEW t \in Threads, IssueWrite(t)
  PROVE  HandInv'
  <1> USE DEF itemVars, queueVars, connVars, loopVars, setupVars, netVars, budgetVars, outsideVars
  <1> DEFINE c == Now(t)
             x == c.id
             l == c.on
             d == Depth(t)
  <1>0. TypeOK /\ TypeOK'
    BY DEF HandInv, IndInv
  <1>1. /\ todo[t] # <<>> /\ c.op = "issueWrite" /\ Return(t)
        /\ wr' = [wr EXCEPT ![l] = Started(wr[l], <<x>>)]
        /\ UNCHANGED <<nextID, sendQueue, chunks, owns, handed, outcome>> /\ UNCHANGED <<owed, wire, rd>>
    BY DEF IssueWrite, At, Now
  <1>2. /\ todo \in [Threads -> Seq(Call)] /\ wr \in [Loops -> WriteRec]
        /\ \A i \in IDs : owed[i].left \in Nat
    <2>1. todo \in [Threads -> Seq(Call)] /\ wr \in [Loops -> WriteRec] /\ owed \in [IDs -> OwedRec]
      BY <1>0 DEF TypeOK
    <2>2. \A i \in IDs : owed[i].left \in Nat
      BY <2>1, BoundsAssumption DEF OwedRec
    <2> QED BY <2>1, <2>2
  <1>3. /\ \A k \in Loops \ {l} : wr'[k] = wr[k]
        /\ l \in Loops => Head(wr'[l].data) = x
    <2>1. Started(wr[l], <<x>>).data = <<x>> /\ Head(<<x>>) = x
      BY DEF Started
    <2> HIDE DEF x
    <2> QED BY <1>1, <1>2, <2>1
  <1> HIDE DEF l, x
  <1>4. PICK S : S = {}
    OBVIOUS
  <1>5. PICK calls \in Seq(S) : Len(calls) = 0 /\ 1 .. Len(calls) = {} /\ Pushes(t, calls)
    <2>1. <<>> \in Seq(S) /\ Len(<<>>) = 0 /\ 1 .. Len(<<>>) = {}
      OBVIOUS
    <2> QED BY <1>1, <2>1 DEF Pushes, Return
  <1>6. ASSUME NEW i \in IDs, i # x PROVE Shares(i)' /\ Given(i)'
    <2>1. Writes(i)' \subseteq Writes(i)
      BY <1>3, <1>6 DEF Writes
    <2>2. Dwindles(i) /\ (i \in Queued' => Unseen(i))
      BY <1>1, <1>2, <2>1 DEF Dwindles, Unseen, Queued
    <2> HIDE DEF c
    <2>3. todo[t] # <<>> => Now(t).op # "invoke"
      BY <1>1 DEF c
    <2> QED BY <1>1, <1>5, <2>2, <2>3, HandOther
  <1>7. ASSUME NEW i \in IDs, i = x PROVE Shares(i)' /\ Given(i)'
    <2>1. Shares(i)
      BY DEF HandInv
    <2>2. ASSUME NEW ops PROVE \A p \in Places(ops, i)' : p \in Places(ops, i) /\ p # <<t, d + 1>>
      <3>1. Pushes(t, calls) /\ todo \in [Threads -> Seq(Call)] /\ calls \in Seq(S)
        BY <1>2, <1>5
      <3> HIDE DEF d
      <3>2. \A p \in Places(ops, i)' :
              \/ p \in Places(ops, i) /\ p # <<t, d + 1>>
              \/ \E k \in 1 .. Len(calls) : /\ calls[k].op \in ops /\ calls[k].id = i
                                           /\ p = <<t, d + ((Len(calls) + 1) - k)>>
        BY ONLY <3>1, t \in Threads, PlacesPushed DEF d
      <3> QED BY <1>5, <3>2
    <2>3. \A ops : c.op \in ops => <<t, d + 1>> \in Places(ops, i)
      <3>1. ASSUME NEW ops, c.op \in ops PROVE <<t, d + 1>> \in Places(ops, i)
        <4>1. Now(t).op \in ops /\ Now(t).id = i
          BY <1>7, <3>1 DEF x
        <4> HIDE DEF d, c
        <4>2. <<t, Depth(t) + 1>> \in Places(ops, Now(t).id)
          BY ONLY <1>1, <1>2, <4>1, t \in Threads, NowPlace
        <4> QED BY <4>1, <4>2 DEF d
      <3> QED BY <3>1
    <2> HIDE DEF d
    <2>4. <<t, d + 1>> \in Places(WholeOps, i) /\ <<t, d + 1>> \in Places({"issueWrite"}, i)
      BY <1>1, <2>3 DEF WholeOps
    <2>5. Unseen(i) /\ Count(i) = 0 /\ Writes(i) = {}
      BY <2>1, <2>4 DEF Unseen, Shares, NoHolder, OneHolder
    <2>6. Places(WholeOps, i)' = {}
      BY <2>1, <2>2, <2>4 DEF Shares, OneHolder
    <2>7. \A k \in Writes(i)' : k = l
      BY <1>3, <2>5 DEF Writes
    <2>8. OneHolder(i)'
      BY <2>6, <2>7 DEF OneHolder
    <2>9. Copies(i)' \subseteq Copies(i)
      BY <1>1, <2>2, CopiesDwindle DEF Found
    <2>10. Shares(i)'
      BY <1>0, <1>1, <2>1, <2>5, <2>8, <2>9, SharesReplaced
    <2> HIDE DEF c
    <2>11. todo[t] # <<>> => Now(t).op # "invoke"
      BY <1>1 DEF c
    <2> QED BY <1>1, <1>5, <2>10, <2>11, HandGiven
  <1> QED BY <1>6, <1>7 DEF HandInv

\* asyncWriteCallback after a failed write: the thread completes the item.
LEMMA HandWriteFailed ==
  ASSUME HandInv, IndInv', NEW t \in Threads, NEW l \in Loops, WriteCallback(t, l), wr[l].op = "err"
  PROVE  HandInv'
  <1> USE DEF itemVars, queueVars, connVars, loopVars, setupVars, netVars, budgetVars, outsideVars
  <1> DEFINE x == Head(wr[l].data)
             a == Item("removeByID", x, "VstWriteError")
             b == Fail("restartWrite", l, "VstWriteError")
             d == Depth(t)
  <1>0. TypeOK /\ TypeOK'
    BY DEF HandInv, IndInv
  <1>1. /\ todo[t] = <<>> /\ todo' = [todo EXCEPT ![t] = <<a, b>>]
        /\ wr' = [wr EXCEPT ![l] = [wr[l] EXCEPT !.op = "idle", !.armed = FALSE, !.data = <<>>]]
        /\ UNCHANGED <<nextID, sendQueue, chunks, owns, handed, outcome>> /\ UNCHANGED <<owed, wire, rd>>
    BY DEF WriteCallback, FailedCalls, Idle
  <1>2. /\ todo \in [Threads -> Seq(Call)] /\ wr \in [Loops -> WriteRec]
        /\ \A i \in IDs : owed[i].left \in Nat
    <2>1. todo \in [Threads -> Seq(Call)] /\ wr \in [Loops -> WriteRec] /\ owed \in [IDs -> OwedRec]
      BY <1>0 DEF TypeOK
    <2>2. \A i \in IDs : owed[i].left \in Nat
      BY <2>1, BoundsAssumption DEF OwedRec
    <2> QED BY <2>1, <2>2
  <1>3. a.op = "removeByID" /\ a.id = x /\ b.op = "restartWrite"
    BY DEF Item, Fail
  <1>4. /\ \A k \in Loops \ {l} : wr'[k] = wr[k]
        /\ wr'[l].op = "idle"
    <2>1. wr[l] \in LoopRec
      BY <1>2 DEF WriteRec
    <2>2. [wr[l] EXCEPT !.op = "idle", !.armed = FALSE, !.data = <<>>].op = "idle"
      BY <2>1 DEF LoopRec
    <2> QED BY <1>1, <1>2, <2>2
  <1> HIDE DEF a, b, x
  <1>5. PICK S : S = {a, b}
    OBVIOUS
  <1>6. PICK calls \in Seq(S) : Len(calls) = 2 /\ calls[1] = a /\ calls[2] = b /\ Pushes(t, calls)
    <2>1. <<a, b>> \in Seq(S) /\ Pushes(t, <<a, b>>)
      BY <1>1, <1>5 DEF Pushes
    <2> QED BY <2>1
  <1>7. \A k \in 1 .. Len(calls) : k = 1 \/ k = 2
    BY <1>6
  <1>8. \A i : Writes(i)' \subseteq Writes(i) \ {l}
    BY <1>4 DEF Writes
  <1>9. \A i \in IDs : Dwindles(i)
    BY <1>1, <1>2, <1>8 DEF Dwindles
  <1>10. ASSUME NEW i \in IDs, i # x PROVE Shares(i)' /\ Given(i)'
    <2>1. \A k \in 1 .. Len(calls) : calls[k].op \in HandOps => calls[k].id # i
      BY <1>3, <1>6, <1>7, <1>10 DEF HandOps, WholeOps
    <2>2. Dwindles(i) /\ (i \in Queued' => Unseen(i))
      BY <1>1, <1>9 DEF Unseen, Queued
    <2> QED BY <1>1, <1>6, <2>1, <2>2, HandOther
  <1>11. ASSUME NEW i \in IDs, i = x PROVE Shares(i)' /\ Given(i)'
    <2>1. Shares(i) /\ l \in Writes(i)
      BY <1>11 DEF HandInv, Writes, x
    <2>2. ASSUME NEW ops PROVE \A p \in Places(ops, i)' :
            \/ p \in Places(ops, i)
            \/ \E k \in 1 .. Len(calls) : /\ calls[k].op \in ops /\ calls[k].id = i
                                         /\ p = <<t, d + ((Len(calls) + 1) - k)>>
      <3>1. Pushes(t, calls) /\ todo \in [Threads -> Seq(Call)] /\ calls \in Seq(S)
        BY <1>2, <1>6
      <3> HIDE DEF d
      <3> QED BY ONLY <3>1, t \in Threads, PlacesPushed DEF d
    <2> HIDE DEF d
    <2>3. Unseen(i) /\ Count(i) = 0 /\ Places(WholeOps, i) = {} /\ Writes(i)' = {}
      BY <1>8, <2>1 DEF Unseen, Shares, NoHolder, OneHolder
    <2>4. \A p \in Places(WholeOps, i)' : p = <<t, d + 2>>
      <3>1. (Len(calls) + 1) - 1 = 2
        BY <1>6
      <3> QED BY <1>3, <1>6, <1>7, <2>2, <2>3, <3>1 DEF WholeOps
    <2>5. OneHolder(i)'
      BY <2>3, <2>4 DEF OneHolder
    <2>6. \A k \in 1 .. Len(calls) : calls[k].op \notin {"findByID"} /\ calls[k].op # "invoke"
      BY <1>3, <1>6, <1>7
    <2>7. Copies(i)' \subseteq Copies(i)
      BY <1>1, <2>2, <2>6, CopiesDwindle DEF Found
    <2>8. Shares(i)'
      BY <1>0, <1>1, <2>1, <2>3, <2>5, <2>7, SharesReplaced
    <2> QED BY <1>1, <1>6, <2>6, <2>8, HandGiven
  <1> QED BY <1>10, <1>11 DEF HandInv

----------------------------------------------------------------------------
(* Completions, the network and the server.                                *)

\* Chunks move on, but get no more.
LEMMA HandLeft ==
  ASSUME HandInv, IndInv', UNCHANGED <<todo, nextID, sendQueue, chunks, owns, handed, outcome>>,
         \A i \in IDs : /\ IsFiniteSet(Copies(i)') /\ Count(i)' <= Count(i)
                        /\ Writes(i)' \subseteq Writes(i)
  PROVE  HandInv'
  <1>1. ASSUME NEW i \in IDs PROVE Shares(i)' /\ Given(i)'
    <2>1. TypeOK /\ TypeOK' /\ Shares(i) /\ Given(i)
      BY DEF HandInv, IndInv
    <2>2. Shares(i)'
      BY <2>1, SharesLeft
    <2>3. Given(i)'
      BY <2>1, GivenLeft
    <2> QED BY <2>2, <2>3
  <1> QED BY <1>1 DEF HandInv

\* Operations fail, deadlines expire, connections are set up and lost.
LEMMA HandQuietEnvironment ==
  ASSUME HandInv, IndInv',
         \/ \E l \in Loops : \/ WriteFails(l) \/ ReadFails(l) \/ ReadExpires(l) \/ WriteExpires(l)
         \/ \E n \in Sockets : SetupCompletes(n) \/ SetupFails(n) \/ ConnectionLost(n)
         \/ \E t \in Threads : Dying(t)
         \/ UNCHANGED vars
  PROVE  HandInv'
  <1> USE DEF itemVars, queueVars, connVars, loopVars, setupVars, netVars, budgetVars, outsideVars
  <1>1. TypeOK /\ TypeOK'
    BY DEF HandInv, IndInv
  <1>2. /\ rd \in [Loops -> LoopRec] /\ wr \in [Loops -> LoopRec]
        /\ \A i \in IDs : owed[i].left \in Nat
    <2>1. owed \in [IDs -> OwedRec]
      BY <1>1 DEF TypeOK
    <2>2. \A i \in IDs : owed[i].left \in Nat
      BY <2>1, BoundsAssumption DEF OwedRec
    <2> QED BY <1>1, <2>2 DEF TypeOK, WriteRec
  <1>3. UNCHANGED <<todo, nextID, sendQueue, chunks, owns, handed, outcome>>
        /\ UNCHANGED <<owed, wire>>
    BY DEF WriteFails, ReadFails, ReadExpires, WriteExpires, SetupCompletes, SetupFails,
           ConnectionLost, Dying, DerefFreedLoop, DerefNullRequest, DerefNullSocket, AssertFails, Abort,
           vars
  <1>4. /\ \A k \in Loops : rd'[k].data = rd[k].data
        /\ \A k \in Loops : /\ wr'[k].data = wr[k].data
                            /\ wr'[k].op \in {"pending", "err"} => wr[k].op \in {"pending", "err"}
    <2>1. ASSUME NEW r \in LoopRec
          PROVE  /\ [r EXCEPT !.op = "err"].data = r.data
                 /\ [r EXCEPT !.armed = FALSE, !.expired = TRUE].data = r.data
                 /\ [r EXCEPT !.armed = FALSE, !.expired = TRUE].op = r.op
      BY DEF LoopRec
    <2>2. CASE UNCHANGED <<rd, wr>>
      BY <2>2
    <2>3. ASSUME NEW l \in Loops, WriteFails(l) \/ ReadFails(l) \/ ReadExpires(l) \/ WriteExpires(l)
          PROVE  /\ \A k \in Loops \ {l} : rd'[k] = rd[k] /\ wr'[k] = wr[k]
                 /\ rd'[l].data = rd[l].data /\ wr'[l].data = wr[l].data
                 /\ wr'[l].op \in {"pending", "err"} => wr[l].op \in {"pending", "err"}
      <3>1. \/ /\ wr' = [wr EXCEPT ![l] = [wr[l] EXCEPT !.op = "err"]]
               /\ wr[l].op = "pending" /\ rd' = rd
            \/ rd' = [rd EXCEPT ![l] = [rd[l] EXCEPT !.op = "err"]] /\ wr' = wr
            \/ rd' = [rd EXCEPT ![l] = [rd[l] EXCEPT !.armed = FALSE, !.expired = TRUE]] /\ wr' = wr
            \/ wr' = [wr EXCEPT ![l] = [wr[l] EXCEPT !.armed = FALSE, !.expired = TRUE]] /\ rd' = rd
        BY <2>3 DEF WriteFails, ReadFails, ReadExpires, WriteExpires
      <3>2. \A k \in Loops \ {l} : rd'[k] = rd[k] /\ wr'[k] = wr[k]
        BY <1>2, <3>1
      <3>3. \/ wr'[l] = [wr[l] EXCEPT !.op = "err"] /\ wr[l].op = "pending" /\ rd'[l] = rd[l]
            \/ rd'[l] = [rd[l] EXCEPT !.op = "err"] /\ wr'[l] = wr[l]
            \/ rd'[l] = [rd[l] EXCEPT !.armed = FALSE, !.expired = TRUE] /\ wr'[l] = wr[l]
            \/ wr'[l] = [wr[l] EXCEPT !.armed = FALSE, !.expired = TRUE] /\ rd'[l] = rd[l]
        BY <1>2, <3>1
      <3>4. rd[l] \in LoopRec /\ wr[l] \in LoopRec
        BY <1>2
      <3>5. /\ rd'[l].data = rd[l].data /\ wr'[l].data = wr[l].data
            /\ wr'[l].op \in {"pending", "err"} => wr[l].op \in {"pending", "err"}
        BY <2>1, <3>3, <3>4
      <3> QED BY <3>2, <3>5
    <2>4. \/ UNCHANGED <<rd, wr>>
          \/ \E l \in Loops : WriteFails(l) \/ ReadFails(l) \/ ReadExpires(l) \/ WriteExpires(l)
      BY DEF SetupCompletes, SetupFails, ConnectionLost, Dying, DerefFreedLoop, DerefNullRequest,
             DerefNullSocket, AssertFails, Abort, vars
    <2> QED BY <2>2, <2>3, <2>4
  <1>5. ASSUME NEW i \in IDs
        PROVE  /\ IsFiniteSet(Copies(i)') /\ Count(i)' <= Count(i)
               /\ Writes(i)' \subseteq Writes(i)
    <2>1. Writes(i)' \subseteq Writes(i)
      BY <1>4, WritesLess
    <2>2. Copies(i)' \subseteq Copies(i)
      BY <1>3, <1>4, PlacesSame, CopiesDwindle DEF Found
    <2>3. IsFiniteSet(Copies(i)) /\ owed'[i].left <= owed[i].left
      BY <1>2, <1>3 DEF HandInv, Shares
    <2> QED BY <1>1, <2>1, <2>2, <2>3, CountLess
  <1> QED BY <1>3, <1>5, HandLeft

\* A write completes: the server answers the item from now on.
LEMMA HandWriteCompletes ==
  ASSUME HandInv, IndInv', NEW l \in Loops, WriteCompletes(l)
  PROVE  HandInv'
  <1> USE DEF itemVars, queueVars, connVars, loopVars, setupVars, netVars, budgetVars, outsideVars
  <1> DEFINE x == Head(wr[l].data)
             o == [sock |-> wr[l].sock, left |-> ChunksPerResponse]
  <1>0. TypeOK /\ TypeOK'
    BY DEF HandInv, IndInv
  <1>1. /\ wr' = [wr EXCEPT ![l] = [wr[l] EXCEPT !.op = "ok"]] /\ wr[l].op = "pending"
        /\ owed' = owed \/ owed' = [owed EXCEPT ![x] = o]
        /\ UNCHANGED <<todo, nextID, sendQueue, chunks, owns, handed, outcome>> /\ UNCHANGED <<wire, rd>>
    BY DEF WriteCompletes
  <1>2. /\ wr \in [Loops -> LoopRec] /\ owed \in [IDs -> OwedRec]
        /\ \A i \in IDs : owed[i].left \in Nat
        /\ ChunksPerResponse \in Nat
    <2>1. owed \in [IDs -> OwedRec]
      BY <1>0 DEF TypeOK
    <2>2. \A i \in IDs : owed[i].left \in Nat
      BY <2>1, BoundsAssumption DEF OwedRec
    <2> QED BY <1>0, <2>1, <2>2, BoundsAssumption DEF TypeOK, WriteRec
  <1>3. \A i : Writes(i)' \subseteq Writes(i) \ {l}
    <2>1. wr[l] \in LoopRec
      BY <1>2
    <2>2. [wr[l] EXCEPT !.op = "ok"].op = "ok"
      BY <2>1 DEF LoopRec
    <2>3. wr'[l].op = "ok" /\ \A k \in Loops \ {l} : wr'[k] = wr[k]
      BY <1>1, <1>2, <2>2
    <2> QED BY <2>3 DEF Writes
  <1>4. \A i : Copies(i)' \subseteq Copies(i)
    BY <1>1, PlacesSame, CopiesDwindle DEF Found
  <1>5. \A i : i = x => l \in Writes(i)
    BY <1>1 DEF Writes
  <1>6. o.left = ChunksPerResponse
    OBVIOUS
  <1>7. \A i \in IDs : owed'[i] = owed[i] \/ (i = x /\ owed'[i].left = ChunksPerResponse)
    <2> HIDE DEF x, o
    <2> QED BY <1>1, <1>2, <1>6
  <1> HIDE DEF x, o
  <1>8. ASSUME NEW i \in IDs PROVE Shares(i)' /\ Given(i)'
    <2>1. Shares(i) /\ Given(i)
      BY DEF HandInv
    <2>2. Given(i)'
      BY <1>1, <2>1, GivenLeft
    <2>3. IsFiniteSet(Copies(i))
      BY <2>1 DEF Shares
    <2>4. CASE owed'[i] = owed[i]
      <3>1. owed'[i].left <= owed[i].left
        BY <1>2, <2>4
      <3>2. IsFiniteSet(Copies(i)') /\ Count(i)' <= Count(i)
        BY <1>0, <1>4, <2>3, <3>1, CountLess
      <3>3. Shares(i)'
        BY <1>0, <1>1, <1>3, <2>1, <3>2, SharesLeft
      <3> QED BY <2>2, <3>3
    <2>5. CASE i = x /\ owed'[i].left = ChunksPerResponse
      <3>1. l \in Writes(i)
        BY <1>5, <2>5
      <3>2. chunks[i] = 0 /\ Count(i) = 0 /\ Places(WholeOps, i) = {} /\ Writes(i)' = {}
        BY <1>3, <2>1, <3>1 DEF Shares, Unseen, NoHolder, OneHolder
      <3>3. IsFiniteSet(Copies(i)') /\ Cardinality(Copies(i)') = 0
        <4>1. /\ IsFiniteSet(Copies(i)') /\ Cardinality(Copies(i)') <= Cardinality(Copies(i))
          BY <1>0, <1>4, <2>3, CountLess
        <4>2. Cardinality(Copies(i)) \in Nat /\ Cardinality(Copies(i)') \in Nat
          BY <2>3, <4>1, FS_CardinalityType
        <4>3. owed[i].left + Cardinality(Copies(i)) = 0 /\ owed[i].left \in Nat
          BY <1>2, <3>2 DEF Count
        <4> HIDE DEF Copies
        <4>4. Cardinality(Copies(i)) = 0
          BY <4>2, <4>3
        <4> QED BY <4>1, <4>2, <4>4
      <3>4. Count(i)' = ChunksPerResponse
        BY <1>2, <2>5, <3>3 DEF Count
      <3>5. Places(WholeOps, i)' = {}
        BY <1>1, <3>2, PlacesSame
      <3>6. Shares(i)'
        BY <1>1, <1>2, <3>2, <3>3, <3>4, <3>5 DEF Shares, OneHolder, NoHolder
      <3> QED BY <2>2, <3>6
    <2> QED BY <1>7, <2>4, <2>5
  <1> QED BY <1>8 DEF HandInv

\* The server sends a chunk it owes.
LEMMA HandRespond ==
  ASSUME HandInv, IndInv', NEW j \in IDs, Respond(j)
  PROVE  HandInv'
  <1> USE DEF itemVars, queueVars, connVars, loopVars, setupVars, netVars, budgetVars, outsideVars
  <1> DEFINE s == owed[j].sock
  <1>0. TypeOK /\ TypeOK'
    BY DEF HandInv, IndInv
  <1>1. /\ wire' = [wire EXCEPT ![s] = Append(wire[s], j)]
        /\ owed' = [owed EXCEPT ![j].left = @ - 1] /\ owed[j].left > 0
        /\ UNCHANGED <<todo, nextID, sendQueue, chunks, owns, handed, outcome>> /\ UNCHANGED <<wr, rd>>
    BY DEF Respond
  <1>2. /\ wire \in [Sockets -> Seq(IDs)] /\ owed \in [IDs -> OwedRec]
        /\ \A i \in IDs : owed[i].left \in Nat
    <2>1. owed \in [IDs -> OwedRec]
      BY <1>0 DEF TypeOK
    <2>2. \A i \in IDs : owed[i].left \in Nat
      BY <2>1, BoundsAssumption DEF OwedRec
    <2> QED BY <1>0, <2>1, <2>2 DEF TypeOK
  <1>3. /\ owed'[j].left = owed[j].left - 1 /\ \A i \in IDs \ {j} : owed'[i] = owed[i]
        /\ \A k \in Sockets \ {s} : wire'[k] = wire[k]
        /\ s \in Sockets => wire'[s] = Append(wire[s], j)
    <2>1. owed[j] \in OwedRec
      BY <1>2
    <2>2. [owed[j] EXCEPT !.left = @ - 1].left = owed[j].left - 1
      BY <2>1 DEF OwedRec
    <2>3. owed'[j] = [owed[j] EXCEPT !.left = @ - 1]
      BY <1>1, <1>2
    <2>4. \A i \in IDs \ {j} : owed'[i] = owed[i]
      BY <1>1, <1>2
    <2> HIDE DEF s
    <2> QED BY <1>1, <1>2, <2>2, <2>3, <2>4
  <1> HIDE DEF s
  <1>4. ASSUME NEW i \in IDs, NEW x, NEW n, OnWire(x, n, i)'
        PROVE  OnWire(x, n, i) \/ (i = j /\ x = s /\ n = Len(wire[s]) + 1)
    <2>1. x \in Sockets /\ n \in Nat /\ n \in 1 .. Len(wire'[x]) /\ wire'[x][n] = i
      BY <1>4 DEF OnWire
    <2>2. CASE x # s
      BY <1>3, <2>1, <2>2 DEF OnWire
    <2>3. CASE x = s
      <3> DEFINE w == wire[s]
      <3>1. w \in Seq(IDs) /\ wire'[s] = Append(w, j)
        BY <1>2, <1>3, <2>1, <2>3
      <3> HIDE DEF w
      <3>2. /\ Len(w) \in Nat /\ Len(Append(w, j)) = Len(w) + 1 /\ Append(w, j)[Len(w) + 1] = j
            /\ \A m \in 1 .. Len(w) : Append(w, j)[m] = w[m]
        BY <3>1
      <3>3. n = Len(w) + 1 \/ n \in 1 .. Len(w)
        BY <2>1, <2>3, <3>1, <3>2
      <3>4. CASE n = Len(w) + 1
        BY <2>1, <2>3, <3>1, <3>2, <3>4 DEF w
      <3>5. CASE n \in 1 .. Len(w)
        BY <2>1, <2>3, <3>1, <3>2, <3>5 DEF OnWire, w
      <3> QED BY <3>3, <3>4, <3>5
    <2> QED BY <2>2, <2>3
  <1>5. ASSUME NEW i \in IDs
        PROVE  /\ IsFiniteSet(Copies(i)') /\ Count(i)' <= Count(i)
               /\ Writes(i)' \subseteq Writes(i)
    <2> DEFINE q == <<"wire", s, Len(wire[s]) + 1>>
    <2>1. Writes(i)' \subseteq Writes(i)
      BY <1>1, WritesLess
    <2>2. IsFiniteSet(Copies(i))
      BY DEF HandInv, Shares
    <2>3. \A x, n : (InRead(x, n, i)' => InRead(x, n, i)) /\ (Found(x, n, i)' => Found(x, n, i))
      BY <1>1, PlacesSame DEF InRead, Found
    <2>4. \A p \in Copies(i)' : p \in Copies(i) \/ (i = j /\ p = q)
      <3>1. ASSUME NEW p \in Copies(i)' PROVE p \in Copies(i) \/ (i = j /\ p = q)
        <4>1. PICK x, n : \/ p = <<"wire", x, n>> /\ OnWire(x, n, i)'
                          \/ p = <<"read", x, n>> /\ InRead(x, n, i)'
                          \/ p = <<"found", x, n>> /\ Found(x, n, i)'
          BY <3>1, CopyForms
        <4>2. CASE p = <<"wire", x, n>> /\ OnWire(x, n, i)'
          <5>1. OnWire(x, n, i) \/ (i = j /\ x = s /\ n = Len(wire[s]) + 1)
            BY <1>4, <4>2
          <5>2. OnWire(x, n, i) => <<"wire", x, n>> \in Copies(i)
            BY CopyIs
          <5> QED BY <4>2, <5>1, <5>2
        <4>3. CASE p = <<"read", x, n>> /\ InRead(x, n, i)'
          BY <2>3, <4>3, CopyIs
        <4>4. CASE p = <<"found", x, n>> /\ Found(x, n, i)'
          BY <2>3, <4>4, CopyIs
        <4> QED BY <4>1, <4>2, <4>3, <4>4
      <3> QED BY <3>1
    <2>5. CASE i # j
      <3>1. Copies(i)' \subseteq Copies(i) /\ owed'[i].left <= owed[i].left
        BY <1>2, <1>3, <2>4, <2>5
      <3> QED BY <1>0, <2>1, <2>2, <3>1, CountLess
    <2>6. CASE i = j
      <3> DEFINE old == Copies(i)
                 new == Copies(i)'
      <3>1. new \in SUBSET (old \cup {q}) /\ IsFiniteSet(old)
        BY <2>2, <2>4
      <3> HIDE DEF old, new, q
      <3>2. IsFiniteSet(old \cup {q}) /\ Cardinality(old \cup {q}) <= Cardinality(old) + 1
        <4>1. Cardinality(old) \in Nat
          BY <3>1, FS_CardinalityType
        <4> QED BY <3>1, <4>1, FS_AddElement
      <3>3. IsFiniteSet(new) /\ Cardinality(new) <= Cardinality(old \cup {q})
        BY <3>1, <3>2, FS_Subset
      <3>4. /\ Cardinality(old) \in Nat /\ Cardinality(new) \in Nat
            /\ Cardinality(old \cup {q}) \in Nat
        BY <3>1, <3>2, <3>3, FS_CardinalityType
      <3>5. owed'[i].left + Cardinality(new) <= owed[i].left + Cardinality(old)
        BY <1>2, <1>3, <2>6, <3>2, <3>3, <3>4
      <3> QED BY <2>1, <3>3, <3>5 DEF Count, old, new
    <2> QED BY <2>5, <2>6
  <1> QED BY <1>1, <1>5, HandLeft

\* A read completes: it takes the first chunks off the wire.
LEMMA HandReadCompletes ==
  ASSUME HandInv, IndInv', NEW l \in Loops, ReadCompletes(l)
  PROVE  HandInv'
  <1> USE DEF itemVars, queueVars, connVars, loopVars, setupVars, netVars, budgetVars, outsideVars
  <1>0. TypeOK /\ TypeOK'
    BY DEF HandInv, IndInv
  <1>1. /\ UNCHANGED <<todo, nextID, sendQueue, chunks, owns, handed, outcome>>
        /\ UNCHANGED <<wr, owed>> /\ rd[l].op # "idle"
    BY DEF ReadCompletes
  <1>2. /\ rd \in [Loops -> LoopRec] /\ wire \in [Sockets -> Seq(IDs)]
        /\ \A i \in IDs : owed[i].left \in Nat
    <2>1. owed \in [IDs -> OwedRec]
      BY <1>0 DEF TypeOK
    <2>2. \A i \in IDs : owed[i].left \in Nat
      BY <2>1, BoundsAssumption DEF OwedRec
    <2> QED BY <1>0, <2>2 DEF TypeOK
  <1>3. PICK s \in Sockets : s = rd[l].sock
    <2>1. rd[l] \in LoopRec
      BY <1>2
    <2> QED BY <1>1, <2>1 DEF LoopRec
  <1>4. PICK w \in Seq(IDs) : w = wire[s]
    BY <1>2
  <1>5. PICK k \in 1 .. Len(w) :
          /\ rd' = [rd EXCEPT ![l] = [@ EXCEPT !.op = "ok", !.data = SubSeq(w, 1, k)]]
          /\ wire' = [wire EXCEPT ![s] = SubSeq(@, k + 1, Len(@))]
    BY <1>3, <1>4 DEF ReadCompletes
  <1>6. /\ \A j \in Loops \ {l} : rd'[j] = rd[j]
        /\ \A j \in Sockets \ {s} : wire'[j] = wire[j]
        /\ wire'[s] = SubSeq(w, k + 1, Len(w)) /\ rd'[l].data = SubSeq(w, 1, k)
    <2> DEFINE r == rd[l]
               d == SubSeq(w, 1, k)
    <2>1. rd[l] \in LoopRec
      BY <1>2
    <2>2. [r EXCEPT !.op = "ok", !.data = d].data = d
      BY <2>1 DEF LoopRec
    <2>3. rd'[l].data = d
      BY <1>2, <1>5, <2>2
    <2> QED BY <1>2, <1>4, <1>5, <2>3
  <1>7. /\ Len(w) \in Nat /\ k \in Nat /\ k <= Len(w)
        /\ Len(SubSeq(w, 1, k)) = k /\ \A n \in 1 .. k : SubSeq(w, 1, k)[n] = w[n]
        /\ Len(SubSeq(w, k + 1, Len(w))) = Len(w) - k
        /\ \A n \in 1 .. Len(w) - k : SubSeq(w, k + 1, Len(w))[n] = w[n + k]
    OBVIOUS
  <1>8. ASSUME NEW i, NEW n, InRead(l, n, i)' PROVE n \in 1 .. k /\ OnWire(s, n, i)
    <2>1. n \in Nat /\ n \in 1 .. k /\ SubSeq(w, 1, k)[n] = i
      BY <1>6, <1>7, <1>8 DEF InRead
    <2> QED BY <1>4, <1>7, <2>1 DEF OnWire
  <1>9. ASSUME NEW i, NEW n, OnWire(s, n, i)' PROVE n \in Nat \ {0} /\ OnWire(s, n + k, i)
    <2>1. n \in Nat /\ n \in 1 .. Len(w) - k /\ SubSeq(w, k + 1, Len(w))[n] = i
      <3>1. n \in Nat /\ n \in 1 .. Len(wire'[s]) /\ wire'[s][n] = i
        BY <1>9 DEF OnWire
      <3> QED BY <1>6, <1>7, <3>1
    <2>2. n + k \in Nat /\ n + k \in 1 .. Len(w) /\ w[n + k] = i /\ n # 0
      BY <1>7, <2>1
    <2> QED BY <1>4, <2>1, <2>2 DEF OnWire
  <1>10. \A i, x, n : /\ x # l /\ InRead(x, n, i)' => InRead(x, n, i)
                      /\ x # s /\ OnWire(x, n, i)' => OnWire(x, n, i)
                      /\ Found(x, n, i)' => Found(x, n, i)
    BY <1>1, <1>6, PlacesSame DEF InRead, OnWire, Found
  <1>11. ASSUME NEW i \in IDs
         PROVE  /\ IsFiniteSet(Copies(i)') /\ Count(i)' <= Count(i)
                /\ Writes(i)' \subseteq Writes(i)
    <2> DEFINE g(p) == IF p[1] = "read" /\ p[2] = l THEN <<"wire", s, p[3]>>
                       ELSE IF p[1] = "wire" /\ p[2] = s THEN <<"wire", s, p[3] + k>> ELSE p
    <2>1. Writes(i)' \subseteq Writes(i)
      BY <1>1, WritesLess
    <2>2. IsFiniteSet(Copies(i)) /\ owed'[i].left <= owed[i].left
      BY <1>1, <1>2 DEF HandInv, Shares
    <2>3. ASSUME NEW p \in Copies(i)'
          PROVE  /\ g(p) \in Copies(i)
                 /\ \/ \E n \in 1 .. k : p = <<"read", l, n>> /\ g(p) = <<"wire", s, n>>
                    \/ \E n \in Nat \ {0} : p = <<"wire", s, n>> /\ g(p) = <<"wire", s, n + k>>
                    \/ g(p) = p /\ \A n : p # <<"wire", s, n>>
      <3>1. PICK x, n : \/ p = <<"wire", x, n>> /\ OnWire(x, n, i)'
                        \/ p = <<"read", x, n>> /\ InRead(x, n, i)'
                        \/ p = <<"found", x, n>> /\ Found(x, n, i)'
        BY <2>3, CopyForms
      <3>2. CASE p = <<"read", l, n>> /\ InRead(l, n, i)'
        <4>1. n \in 1 .. k /\ OnWire(s, n, i) /\ g(p) = <<"wire", s, n>>
          BY <1>8, <3>2
        <4> HIDE DEF g
        <4> QED BY <3>2, <4>1, CopyIs
      <3>3. CASE p = <<"wire", s, n>> /\ OnWire(s, n, i)'
        <4>1. n \in Nat \ {0} /\ OnWire(s, n + k, i) /\ g(p) = <<"wire", s, n + k>>
          BY <1>9, <3>3
        <4> HIDE DEF g
        <4> QED BY <3>3, <4>1, CopyIs
      <3>4. CASE x # s /\ p = <<"wire", x, n>> /\ OnWire(x, n, i)'
        <4>1. OnWire(x, n, i) /\ g(p) = p /\ \A m : p # <<"wire", s, m>>
          BY <1>10, <3>4
        <4> HIDE DEF g
        <4> QED BY <3>4, <4>1, CopyIs
      <3>5. CASE x # l /\ p = <<"read", x, n>> /\ InRead(x, n, i)'
        <4>1. InRead(x, n, i) /\ g(p) = p /\ \A m : p # <<"wire", s, m>>
          BY <1>10, <3>5
        <4> HIDE DEF g
        <4> QED BY <3>5, <4>1, CopyIs
      <3>6. CASE p = <<"found", x, n>> /\ Found(x, n, i)'
        <4>1. Found(x, n, i) /\ g(p) = p /\ \A m : p # <<"wire", s, m>>
          BY <1>10, <3>6
        <4> HIDE DEF g
        <4> QED BY <3>6, <4>1, CopyIs
      <3> HIDE DEF g
      <3>7. CASE p = <<"wire", x, n>> /\ OnWire(x, n, i)'
        <4>1. CASE x = s
          BY <3>3, <3>7, <4>1
        <4>2. CASE x # s
          BY <3>4, <3>7, <4>2
        <4> QED BY <4>1, <4>2
      <3>8. CASE p = <<"read", x, n>> /\ InRead(x, n, i)'
        <4>1. CASE x = l
          BY <3>2, <3>8, <4>1
        <4>2. CASE x # l
          BY <3>5, <3>8, <4>2
        <4> QED BY <4>1, <4>2
      <3> QED BY <3>1, <3>6, <3>7, <3>8
    <2> HIDE DEF g
    <2>4. ASSUME NEW p \in Copies(i)', NEW q \in Copies(i)', g(p) = g(q) PROVE p = q
      <3>1. \/ \E n \in 1 .. k : p = <<"read", l, n>> /\ g(p) = <<"wire", s, n>>
            \/ \E n \in Nat \ {0} : p = <<"wire", s, n>> /\ g(p) = <<"wire", s, n + k>>
            \/ g(p) = p /\ \A n : p # <<"wire", s, n>>
        BY <2>3
      <3>2. \/ \E n \in 1 .. k : q = <<"read", l, n>> /\ g(q) = <<"wire", s, n>>
            \/ \E n \in Nat \ {0} : q = <<"wire", s, n>> /\ g(q) = <<"wire", s, n + k>>
            \/ g(q) = q /\ \A n : q # <<"wire", s, n>>
        BY <2>3
      <3>3. CASE g(p) = p /\ \A n : p # <<"wire", s, n>>
        BY <2>4, <3>2, <3>3
      <3>4. ASSUME NEW n \in 1 .. k, p = <<"read", l, n>>, g(p) = <<"wire", s, n>> PROVE p = q
        <4>1. \A m \in Nat \ {0} : n # m + k
          BY <1>7
        <4> QED BY <2>4, <3>2, <3>4, <4>1
      <3>5. ASSUME NEW n \in Nat \ {0}, p = <<"wire", s, n>>, g(p) = <<"wire", s, n + k>> PROVE p = q
        <4>1. \A m \in 1 .. k : m # n + k
          BY <1>7
        <4>2. \A m \in Nat \ {0} : m + k = n + k => m = n
          BY <1>7
        <4> QED BY <2>4, <3>2, <3>5, <4>1, <4>2
      <3> QED BY <3>1, <3>3, <3>4, <3>5
    <2> DEFINE f == [p \in Copies(i)' |-> g(p)]
    <2>5. f \in [Copies(i)' -> Copies(i)] /\ \A p \in Copies(i)' : f[p] = g(p)
      BY <2>3
    <2> HIDE DEF f
    <2>6. \A p, q \in Copies(i)' : f[p] = f[q] => p = q
      BY <2>4, <2>5
    <2> QED BY <1>0, <2>1, <2>2, <2>5, <2>6, CountInjected
  <1> QED BY <1>1, <1>11, HandLeft

\* asyncReadCallback: the thread processes the chunks that were read.
LEMMA HandReadCallback ==
  ASSUME HandInv, IndInv', NEW t \in Threads, NEW l \in Loops, ReadCallback(t, l), rd[l].op = "ok"
  PROVE  HandInv'
  <1> USE DEF itemVars, queueVars, connVars, loopVars, setupVars, netVars, budgetVars, outsideVars
  <1> DEFINE b == On("readNextBytes", l, TRUE)
  <1>0. TypeOK /\ TypeOK'
    BY DEF HandInv, IndInv
  <1>1. /\ todo[t] = <<>>
        /\ rd' = [rd EXCEPT ![l] = [rd[l] EXCEPT !.op = "idle", !.armed = FALSE, !.data = <<>>]]
        /\ UNCHANGED <<nextID, sendQueue, chunks, owns, handed, outcome>> /\ UNCHANGED <<owed, wire, wr>>
    BY DEF ReadCallback, Idle
  <1>2. /\ todo \in [Threads -> Seq(Call)] /\ rd \in [Loops -> LoopRec]
        /\ \A i \in IDs : owed[i].left \in Nat
    <2>1. owed \in [IDs -> OwedRec] /\ todo \in [Threads -> Seq(Call)]
      BY <1>0 DEF TypeOK
    <2>2. \A i \in IDs : owed[i].left \in Nat
      BY <2>1, BoundsAssumption DEF OwedRec
    <2> QED BY <1>0, <2>1, <2>2 DEF TypeOK
  <1>3. PICK data \in Seq(IDs) : data = rd[l].data
    <2>1. rd[l] \in LoopRec
      BY <1>2
    <2> QED BY <2>1 DEF LoopRec
  <1>4. PICK n \in Nat : n = Len(data)
    BY <1>3
  <1>5. PICK S : S = {Item("findByID", i, "ok") : i \in IDs} \cup {b}
    OBVIOUS
  <1>6. PICK calls \in Seq(S) :
          /\ Pushes(t, calls) /\ Len(calls) = n + 1
          /\ \A k \in 1 .. n : calls[k] = Item("findByID", data[k], "ok")
          /\ calls[n + 1] = b
    <2> DEFINE found == [k \in 1 .. n |-> Item("findByID", data[k], "ok")]
               cs == found \o <<b>>
    <2>1. todo' = [todo EXCEPT ![t] = cs]
      BY <1>3, <1>4 DEF ReadCallback
    <2>2. \A k \in 1 .. n : data[k] \in IDs
      BY <1>3, <1>4
    <2>3. found \in [1 .. n -> S] /\ <<b>> \in Seq(S) /\ Len(<<b>>) = 1 /\ <<b>>[1] = b
      <3> HIDE DEF b
      <3>1. \A k \in 1 .. n : Item("findByID", data[k], "ok") \in S
        BY <1>5, <2>2
      <3> QED BY <1>5, <3>1
    <2>4. \A k \in 1 .. n : found[k] = Item("findByID", data[k], "ok")
      OBVIOUS
    <2> HIDE DEF found, b
    <2>5. found \in Seq(S) /\ Len(found) = n
      BY <2>3, SeqDef
    <2>6. /\ cs \in Seq(S) /\ Len(cs) = n + 1
          /\ \A k \in 1 .. n + 1 : cs[k] = IF k <= n THEN found[k] ELSE <<b>>[k - n]
      BY <2>3, <2>5, ConcatProperties
    <2>7. \A k \in 1 .. n : k \in 1 .. n + 1 /\ k <= n
      OBVIOUS
    <2>8. n + 1 \in 1 .. n + 1 /\ ~(n + 1 <= n) /\ (n + 1) - n = 1
      OBVIOUS
    <2> HIDE DEF cs
    <2>9. /\ \A k \in 1 .. n : cs[k] = Item("findByID", data[k], "ok")
          /\ cs[n + 1] = b
      BY <2>3, <2>4, <2>6, <2>7, <2>8
    <2> QED BY <1>1, <2>1, <2>6, <2>9 DEF Pushes
  <1>7. \A k \in 1 .. Len(calls) : \/ k \in 1 .. n /\ calls[k].op = "findByID" /\ calls[k].id = data[k]
                                   \/ k = n + 1 /\ calls[k].op = "readNextBytes"
    <2>1. b.op = "readNextBytes" /\ \A i : Item("findByID", i, "ok").op = "findByID"
                                           /\ Item("findByID", i, "ok").id = i
      BY DEF On, Item
    <2> HIDE DEF b
    <2>2. ASSUME NEW k \in 1 .. Len(calls) PROVE k \in 1 .. n \/ k = n + 1
      BY <1>6, <2>2
    <2> QED BY <1>6, <2>1, <2>2
  <1> HIDE DEF b
  <1>8. /\ \A j \in Loops \ {l} : rd'[j] = rd[j]
        /\ rd'[l].data = <<>>
    <2>1. rd[l] \in LoopRec
      BY <1>2
    <2>2. [rd[l] EXCEPT !.op = "idle", !.armed = FALSE, !.data = <<>>].data = <<>>
      BY <2>1 DEF LoopRec
    <2> QED BY <1>1, <1>2, <2>2
  <1>9. Depth(t) = 0
    BY <1>1 DEF Depth
  <1>10. ASSUME NEW ops, NEW i
         PROVE  \A p \in Places(ops, i)' :
                  \/ p \in Places(ops, i) /\ p[1] # t
                  \/ \E k \in 1 .. Len(calls) : /\ calls[k].op \in ops /\ calls[k].id = i
                                               /\ p = <<t, (Len(calls) + 1) - k>>
    <2>1. Pushes(t, calls) /\ todo \in [Threads -> Seq(Call)] /\ calls \in Seq(S)
      BY <1>2, <1>6
    <2>2. \A p \in Places(ops, i)' :
            \/ p \in Places(ops, i)
            \/ \E k \in 1 .. Len(calls) : /\ calls[k].op \in ops /\ calls[k].id = i
                                         /\ p = <<t, Depth(t) + ((Len(calls) + 1) - k)>>
      BY ONLY <2>1, t \in Threads, PlacesPushed
    <2>3. \A p \in Places(ops, i) : p[1] # t
      <3>1. Len(todo[t]) = 0
        BY <1>1
      <3> QED BY <3>1 DEF Places
    <2>4. \A k \in 1 .. Len(calls) : 0 + ((Len(calls) + 1) - k) = (Len(calls) + 1) - k
      BY <1>6
    <2> QED BY <1>9, <2>2, <2>3, <2>4
  <1>11. ASSUME NEW i, NEW u, NEW m, Found(u, m, i)'
         PROVE  \/ u # t /\ Found(u, m, i)
                \/ u = t /\ m \in Nat /\ InRead(l, (n + 2) - m, i)
    <2>1. <<u, m>> \in Places({"findByID"}, i)'
      BY <1>11 DEF Found
    <2>2. CASE <<u, m>> \in Places({"findByID"}, i) /\ <<u, m>>[1] # t
      BY <2>2 DEF Found
    <2>3. ASSUME NEW k \in 1 .. Len(calls), calls[k].op \in {"findByID"}, calls[k].id = i,
                 <<u, m>> = <<t, (Len(calls) + 1) - k>>
          PROVE  u = t /\ m \in Nat /\ InRead(l, (n + 2) - m, i)
      <3>1. k \in 1 .. n /\ data[k] = i
        BY <1>7, <2>3
      <3>2. u = t /\ m = (Len(calls) + 1) - k
        BY <2>3
      <3>3. m \in Nat /\ (n + 2) - m = k /\ k \in Nat
        BY <1>6, <3>1, <3>2
      <3>4. InRead(l, k, i)
        BY <1>3, <1>4, <3>1, <3>3 DEF InRead
      <3> QED BY <3>2, <3>3, <3>4
    <2> QED BY <1>10, <2>1, <2>2, <2>3
  <1>12. \A i, x, m : /\ InRead(x, m, i)' => x # l /\ InRead(x, m, i)
                      /\ OnWire(x, m, i)' => OnWire(x, m, i)
    <2>1. Len(<<>>) = 0
      OBVIOUS
    <2> QED BY <1>1, <1>8, <2>1 DEF InRead, OnWire
  <1>13. ASSUME NEW i \in IDs
         PROVE  IsFiniteSet(Copies(i)') /\ Count(i)' <= Count(i)
    <2> DEFINE g(p) == IF p[1] = "found" /\ p[2] = t THEN <<"read", l, (n + 2) - p[3]>> ELSE p
    <2>1. IsFiniteSet(Copies(i)) /\ owed'[i].left <= owed[i].left
      BY <1>1, <1>2 DEF HandInv, Shares
    <2>2. ASSUME NEW p \in Copies(i)'
          PROVE  /\ g(p) \in Copies(i)
                 /\ \/ \E m \in Nat : p = <<"found", t, m>> /\ g(p) = <<"read", l, (n + 2) - m>>
                    \/ g(p) = p /\ \A m : p # <<"read", l, m>>
      <3>1. PICK x, m : \/ p = <<"wire", x, m>> /\ OnWire(x, m, i)'
                        \/ p = <<"read", x, m>> /\ InRead(x, m, i)'
                        \/ p = <<"found", x, m>> /\ Found(x, m, i)'
        BY <2>2, CopyForms
      <3>2. CASE p = <<"wire", x, m>> /\ OnWire(x, m, i)'
        <4>1. OnWire(x, m, i) /\ g(p) = p /\ \A j : p # <<"read", l, j>>
          BY <1>12, <3>2
        <4> HIDE DEF g
        <4> QED BY <3>2, <4>1, CopyIs
      <3>3. CASE p = <<"read", x, m>> /\ InRead(x, m, i)'
        <4>1. InRead(x, m, i) /\ g(p) = p /\ \A j : p # <<"read", l, j>>
          BY <1>12, <3>3
        <4> HIDE DEF g
        <4> QED BY <3>3, <4>1, CopyIs
      <3>4. CASE p = <<"found", x, m>> /\ Found(x, m, i)'
        <4>1. \/ x # t /\ Found(x, m, i)
              \/ x = t /\ m \in Nat /\ InRead(l, (n + 2) - m, i)
          BY <1>11, <3>4
        <4>2. CASE x # t /\ Found(x, m, i)
          <5>1. g(p) = p /\ \A j : p # <<"read", l, j>>
            BY <3>4, <4>2
          <5> HIDE DEF g
          <5> QED BY <3>4, <4>2, <5>1, CopyIs
        <4>3. CASE x = t /\ m \in Nat /\ InRead(l, (n + 2) - m, i)
          <5>1. p = <<"found", t, m>> /\ g(p) = <<"read", l, (n + 2) - m>>
            BY <3>4, <4>3
          <5> HIDE DEF g
          <5> QED BY <4>3, <5>1, CopyIs
        <4> QED BY <4>1, <4>2, <4>3
      <3> HIDE DEF g
      <3> QED BY <3>1, <3>2, <3>3, <3>4
    <2> HIDE DEF g
    <2>3. ASSUME NEW p \in Copies(i)', NEW q \in Copies(i)', g(p) = g(q) PROVE p = q
      <3>1. \/ \E m \in Nat : p = <<"found", t, m>> /\ g(p) = <<"read", l, (n + 2) - m>>
            \/ g(p) = p /\ \A m : p # <<"read", l, m>>
        BY <2>2
      <3>2. \/ \E m \in Nat : q = <<"found", t, m>> /\ g(q) = <<"read", l, (n + 2) - m>>
            \/ g(q) = q /\ \A m : q # <<"read", l, m>>
        BY <2>2
      <3>3. CASE g(p) = p /\ \A m : p # <<"read", l, m>>
        BY <2>3, <3>2, <3>3
      <3>4. ASSUME NEW m \in Nat, p = <<"found", t, m>>, g(p) = <<"read", l, (n + 2) - m>>
            PROVE  p = q
        <4>1. \A j \in Nat : (n + 2) - j = (n + 2) - m => j = m
          OBVIOUS
        <4> QED BY <2>3, <3>2, <3>4, <4>1
      <3> QED BY <3>1, <3>3, <3>4
    <2> DEFINE f == [p \in Copies(i)' |-> g(p)]
    <2>4. f \in [Copies(i)' -> Copies(i)] /\ \A p \in Copies(i)' : f[p] = g(p)
      BY <2>2
    <2> HIDE DEF f
    <2>5. \A p, q \in Copies(i)' : f[p] = f[q] => p = q
      BY <2>3, <2>4
    <2> QED BY <1>0, <2>1, <2>4, <2>5, CountInjected
  <1>14. ASSUME NEW i \in IDs PROVE Shares(i)' /\ Given(i)'
    <2>1. Shares(i)
      BY DEF HandInv
    <2>2. \A k \in 1 .. Len(calls) : /\ calls[k].op \notin WholeOps
                                     /\ calls[k].op \notin {"enqueue"} /\ calls[k].op \notin {"issueWrite"}
                                     /\ calls[k].op # "invoke"
      BY <1>7 DEF WholeOps
    <2>3. /\ Places(WholeOps, i)' \subseteq Places(WholeOps, i)
          /\ Places({"enqueue"}, i)' \subseteq Places({"enqueue"}, i)
          /\ Places({"issueWrite"}, i)' \subseteq Places({"issueWrite"}, i)
      BY <1>10, <2>2
    <2>4. Writes(i)' \subseteq Writes(i)
      BY <1>1, WritesLess
    <2>5. Unseen(i)' => Unseen(i)
      BY <1>1, <2>3, <2>4 DEF Unseen, Queued
    <2>6. Shares(i)'
      BY <1>0, <1>1, <1>13, <2>1, <2>3, <2>4, <2>5, SharesKept
    <2>7. Given(i)'
      BY <1>1, <1>6, <2>2, HandGiven
    <2> QED BY <2>6, <2>7
  <1> QED BY <1>14 DEF HandInv

----------------------------------------------------------------------------
(* The theorem.                                                            *)

LEMMA HandInit == Init => HandInv
  <1> SUFFICES ASSUME Init PROVE HandInv
    OBVIOUS
  <1>1. IndInv
    BY IndInit
  <1>2. /\ \A t \in Threads : Len(todo[t]) = 0
        /\ nextID = 0 /\ owns = {} /\ handed = {}
        /\ \A i \in IDs : chunks[i] = 0 /\ outcome[i] = "none"
    BY DEF Init
  <1>3. \A ops, i : Places(ops, i) = {}
    BY <1>2 DEF Places
  <1>4. ASSUME NEW i \in IDs PROVE Shares(i) /\ Given(i)
    <2>1. i \notin Travelling
      <3>1. Travelling \subseteq 1 .. nextID
        BY <1>1 DEF IndInv, Numbered
      <3>2. 1 .. nextID = {}
        BY <1>2
      <3> QED BY <3>1, <3>2
    <2>2. NoHolder(i) /\ IsFiniteSet(Copies(i)) /\ Copies(i) = {} /\ Count(i) = 0
      BY <1>1, <2>1, Absent DEF IndInv
    <2>3. Shares(i)
      BY <1>2, <2>2, BoundsAssumption DEF Shares, OneHolder, NoHolder
    <2>4. Given(i)
      BY <1>2, <1>3 DEF Given, IDs
    <2> QED BY <2>3, <2>4
  <1> QED BY <1>1, <1>4 DEF HandInv

\* One step, given that the invariant of the message store is kept.
LEMMA HandStep == HandInv /\ IndInv' /\ [Next]_vars => HandInv'
  <1> SUFFICES ASSUME HandInv, IndInv', [Next]_vars PROVE HandInv'
    OBVIOUS
  <1>1. ASSUME NEW t \in Threads, Run(t) PROVE HandInv'
    <2>1. CASE Writing(t)
      BY <2>1, HandQuietRun, HandLoopStarts, HandEnqueue, HandRemoveFirst, HandIssueWrite DEF Writing
    <2>2. CASE Reading(t)
      BY <2>2, HandQuietRun, HandLoopStarts, HandFindByID, HandRemoveByID, HandMoveRequest,
         HandInvoke DEF Reading
    <2>3. CASE Restarting(t)
      BY <2>3, HandQuietRun, HandRestart, HandShutdownSocket, HandCancelAll DEF Restarting
    <2>4. CASE Connecting(t)
      BY <2>4, HandQuietRun, HandInsertAuth DEF Connecting
    <2>5. CASE Dying(t)
      BY <2>5, HandQuietEnvironment
    <2> QED BY <1>1, <2>1, <2>2, <2>3, <2>4, <2>5 DEF Run
  <1>2. ASSUME NEW t \in Threads, Dispatch(t) PROVE HandInv'
    <2>1. ASSUME NEW l \in Loops, \/ ReadCallback(t, l) \/ ReadDeadline(t, l)
                                  \/ WriteCallback(t, l) \/ WriteDeadline(t, l)
          PROVE  HandInv'
      <3>1. ReadCallback(t, l) => rd[l].op = "ok" \/ rd[l].op = "err"
        BY DEF ReadCallback
      <3>2. WriteCallback(t, l) => wr[l].op = "ok" \/ wr[l].op = "err"
        BY DEF WriteCallback
      <3> QED BY <2>1, <3>1, <3>2, HandQuietHandler, HandReadCallback, HandWriteFailed
    <2>2. ASSUME NEW n \in Sockets, \/ ResolveCallback(t, n) \/ AsyncConnectCallback(t, n)
                                    \/ HandshakeCallback(t, n) \/ HeaderCallback(t, n)
          PROVE  HandInv'
      BY <2>2, HandSetupHandler
    <2> QED BY <1>2, <2>1, <2>2 DEF Dispatch
  <1>3. CASE Completion \/ Expiry \/ Server \/ Fault
    BY <1>3, HandQuietEnvironment, HandWriteCompletes, HandReadCompletes, HandRespond
       DEF Completion, Expiry, Server, Fault
  <1>4. CASE UNCHANGED vars
    BY <1>4, HandQuietEnvironment
  <1>5. ASSUME NEW t \in Users, SendRequest(t) PROVE HandInv'
    BY <1>5, HandSendRequest DEF Threads
  <1> QED BY <1>1, <1>2, <1>3, <1>4, <1>5 DEF Next, Threads

\* HandedBack, without authentication: whoever calls the callback of an item
\* first was the one to move its request, as at most one thread completes an
\* item from its response, a failed write or the store, and cancelAll takes
\* only items that nobody else has begun to complete.
THEOREM RequestHandedBack ==
  ASSUME ~Auth
  PROVE  Spec => []HandedBack
  <1>1. HandInv => IndInv
    BY DEF HandInv
  <1>2. HandInv /\ [Next]_vars => HandInv'
    BY <1>1, IndStep, HandStep
  <1>3. HandInv => HandedBack
    BY DEF HandInv, Given, HandedBack, Answered
  <1> QED BY <1>2, <1>3, HandInit, PTL DEF Spec
=============================================================================
