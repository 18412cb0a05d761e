-------------------------- MODULE VstSystemProofs --------------------------
(***************************************************************************)
(* Proofs about VstSystem for any number of threads, requests, loops,      *)
(* connection attempts, faults and timeouts: type correctness, and, on a   *)
(* connection without authentication, that every item of the message store *)
(* has its request.                                                        *)
(***************************************************************************)
EXTENDS VstSystem, TLAPS, SequenceTheorems, Functions

----------------------------------------------------------------------------
(* Calls.                                                                  *)

PlainOps == Ops \ (ReadCalls \cup WriteCalls \cup SetupCalls \cup ItemCalls)

\* The constructors of calls build calls, when the loop, attempt or item is
\* what the operation needs.
LEMMA PlainIsCall == \A op \in PlainOps : Plain(op) \in Call
  BY DEF PlainOps, Plain, Call, Ops, ReadCalls, WriteCalls, SetupCalls, ItemCalls, NoID, Outcomes

\* A call about an error is a call.
LEMMA FailIsCall == \A op \in PlainOps, n \in Nat, e \in Outcomes : Fail(op, n, e) \in Call
  BY DEF PlainOps, Fail, Call, Ops, ReadCalls, WriteCalls, SetupCalls, ItemCalls, NoID, Outcomes

\* A call on a loop object is a call.
LEMMA OnLoopIsCall ==
  ASSUME NEW op \in (ReadCalls \cup WriteCalls) \ ItemCalls, NEW l \in Loops
  PROVE  /\ \A h \in BOOLEAN : On(op, l, h) \in Call
         /\ \A e \in Outcomes : Fail(op, l, e) \in Call
  BY BoundsAssumption
     DEF On, Fail, Call, Ops, ReadCalls, WriteCalls, SetupCalls, ItemCalls, NoID, Outcomes, Loops

\* A call of a connection attempt is a call.
LEMMA OnSetupIsCall ==
  \A op \in SetupCalls, n \in Sockets, h \in BOOLEAN : On(op, n, h) \in Call
  BY BoundsAssumption
     DEF On, Call, Ops, ReadCalls, WriteCalls, SetupCalls, ItemCalls, NoID, Outcomes, Sockets

\* A call about an item is a call.
LEMMA ItemIsCall ==
  \A op \in ItemCalls \ WriteCalls, i \in IDs, e \in Outcomes : Item(op, i, e) \in Call
  BY DEF Item, Call, Ops, ReadCalls, WriteCalls, SetupCalls, ItemCalls, NoID, Outcomes

\* A write loop's call about the item it sends is a call.
LEMMA SendIsCall ==
  \A op \in ItemCalls \cap WriteCalls, l \in Loops, i \in IDs, h \in BOOLEAN :
    Send(op, l, i, h) \in Call
  BY BoundsAssumption
     DEF Send, Call, Ops, ReadCalls, WriteCalls, SetupCalls, ItemCalls, NoID, Outcomes, Loops

\* The call a thread makes next is a call.
LEMMA NowIsCall ==
  ASSUME todo \in [Threads -> Seq(Call)], NEW t \in Threads, todo[t] # <<>>
  PROVE  Now(t) \in Call
  BY HeadTailProperties DEF Now

\* Returning, after making further calls, leaves a stack of calls.
LEMMA ThenType ==
  ASSUME todo \in [Threads -> Seq(Call)], NEW t \in Threads, todo[t] # <<>>,
         NEW calls \in Seq(Call), Then(t, calls)
  PROVE  todo' \in [Threads -> Seq(Call)]
  <1>1. Tail(todo[t]) \in Seq(Call)
    BY HeadTailProperties
  <1>2. calls \o Tail(todo[t]) \in Seq(Call)
    BY <1>1, ConcatProperties
  <1> QED BY <1>2 DEF Then

\* The usual cases of Then: no, one or two further calls.
LEMMA ReturnType ==
  ASSUME todo \in [Threads -> Seq(Call)], NEW t \in Threads, todo[t] # <<>>
  PROVE  /\ Return(t) => todo' \in [Threads -> Seq(Call)]
         /\ \A a \in Call : Then(t, <<a>>) => todo' \in [Threads -> Seq(Call)]
         /\ \A a, b \in Call : Then(t, <<a, b>>) => todo' \in [Threads -> Seq(Call)]
  <1>1. <<>> \in Seq(Call)
    OBVIOUS
  <1>2. \A a \in Call : <<a>> \in Seq(Call)
    OBVIOUS
  <1>3. \A a, b \in Call : <<a, b>> \in Seq(Call)
    OBVIOUS
  <1>4. Return(t) => todo' \in [Threads -> Seq(Call)]
    BY <1>1, ThenType DEF Return
  <1>5. ASSUME NEW a \in Call, Then(t, <<a>>)
        PROVE  todo' \in [Threads -> Seq(Call)]
    BY <1>2, <1>5, ThenType
  <1>6. ASSUME NEW a \in Call, NEW b \in Call, Then(t, <<a, b>>)
        PROVE  todo' \in [Threads -> Seq(Call)]
    BY <1>3, <1>6, ThenType
  <1> QED BY <1>4, <1>5, <1>6

----------------------------------------------------------------------------
(* Type correctness.                                                       *)

\* A loop on a socket is still a loop once its operation was started.
LEMMA StartedType ==
  ASSUME NEW r \in LoopRec, r.sock # NoSocket, NEW d \in Seq(IDs)
  PROVE  Started(r, d) \in LoopRec
  <1>1. r.sock \in Sockets /\ r.expired \in BOOLEAN
    BY DEF LoopRec
  <1>2. (IF sock[r.sock] = "closed" THEN "err" ELSE "pending") \in {"pending", "err"}
    OBVIOUS
  <1> QED BY <1>1, <1>2 DEF Started, LoopRec

\* sendRequest, startWriting and the write loop keep the types.
LEMMA TypeWriting ==
  ASSUME TypeOK, NEW t \in Threads, Writing(t)
  PROVE  TypeOK'
  <1> USE DEF itemVars, queueVars, connVars, loopVars, setupVars, netVars, budgetVars, outsideVars
  <1> DEFINE c == Now(t)
  <1>0. todo \in [Threads -> Seq(Call)]
    BY DEF TypeOK
  <1>1. CASE Enqueue(t)
    <2>1. c \in Call /\ c.op = "enqueue" /\ todo[t] # <<>>
      BY <1>0, <1>1, NowIsCall DEF Enqueue, At, Now
    <2>2. c.id \in IDs
      BY <2>1 DEF Call, ItemCalls
    <2>3. todo' \in [Threads -> Seq(Call)]
      BY <1>0, <1>1, <2>1, ReturnType DEF Enqueue
    <2> QED BY <1>1, <2>2, <2>3 DEF Enqueue, TypeOK
  <1>2. CASE CheckConnected(t)
    <2>1. Plain("startWriting") \in Call
      BY PlainIsCall DEF PlainOps, Ops, ReadCalls, WriteCalls, SetupCalls, ItemCalls
    <2>2. todo' \in [Threads -> Seq(Call)]
      BY <1>0, <1>2, <2>1, ReturnType DEF CheckConnected, At, Return
    <2> QED BY <1>2, <2>2 DEF CheckConnected, TypeOK
  <1>3. CASE StartWriting(t)
    <2>1. todo' \in [Threads -> Seq(Call)]
      BY <1>0, <1>3, ReturnType, OnLoopIsCall
         DEF StartWriting, At, ReadCalls, WriteCalls, ItemCalls
    <2>2. NewLoop(socket) \in WriteRec
      BY DEF TypeOK, NewLoop, WriteRec, LoopRec
    <2> QED BY <1>3, <2>1, <2>2 DEF StartWriting, TypeOK
  <1>4. CASE Front(t)
    <2>1. c \in Call /\ c.op = "front" /\ todo[t] # <<>>
      BY <1>0, <1>4, NowIsCall DEF Front, At, Now
    <2>2. c.on \in Loops /\ c.held \in BOOLEAN
      BY <2>1 DEF Call, WriteCalls
    <2>3. sendQueue # <<>> => Head(sendQueue) \in IDs
      BY HeadTailProperties DEF TypeOK
    <2>4. sendQueue # <<>> => Send("addToStore", c.on, Head(sendQueue), c.held) \in Call
      BY <2>2, <2>3, SendIsCall DEF ItemCalls, WriteCalls
    <2>5. todo' \in [Threads -> Seq(Call)]
      BY <1>0, <1>4, <2>1, <2>4, ReturnType DEF Front
    <2> QED BY <1>4, <2>5 DEF Front, TypeOK
  <1>5. CASE AddToStore(t)
    <2>1. c \in Call /\ c.op = "addToStore" /\ todo[t] # <<>>
      BY <1>0, <1>5, NowIsCall DEF AddToStore, At, Now
    <2>2. c.on \in Loops /\ c.held \in BOOLEAN /\ c.id \in IDs
      BY <2>1 DEF Call, WriteCalls, ItemCalls
    <2>3. Send("removeFirst", c.on, c.id, c.held) \in Call
      BY <2>2, SendIsCall DEF ItemCalls, WriteCalls
    <2>4. todo' \in [Threads -> Seq(Call)]
      BY <1>0, <1>5, <2>1, <2>3, ReturnType DEF AddToStore
    <2> QED BY <1>5, <2>2, <2>4 DEF AddToStore, TypeOK
  <1>6. CASE RemoveFirst(t)
    <2>1. c \in Call /\ c.op = "removeFirst" /\ todo[t] # <<>>
      BY <1>0, <1>6, NowIsCall DEF RemoveFirst, At, Now
    <2>2. c.on \in Loops /\ c.held \in BOOLEAN /\ c.id \in IDs
      BY <2>1 DEF Call, WriteCalls, ItemCalls
    <2>3. Send("issueWrite", c.on, c.id, c.held) \in Call
      BY <2>2, SendIsCall DEF ItemCalls, WriteCalls
    <2>4. Plain("startReading") \in Call
      BY PlainIsCall DEF PlainOps, Ops, ReadCalls, WriteCalls, SetupCalls, ItemCalls
    <2>5. todo' \in [Threads -> Seq(Call)]
      BY <1>0, <1>6, <2>1, <2>3, <2>4, ReturnType DEF RemoveFirst, WriteCallsFor
    <2>6. Tail(sendQueue) \in Seq(IDs)
      BY <1>6, HeadTailProperties DEF RemoveFirst, TypeOK
    <2> QED BY <1>6, <2>5, <2>6 DEF RemoveFirst, TypeOK
  <1>7. CASE IssueWrite(t)
    <2>1. c \in Call /\ c.op = "issueWrite" /\ todo[t] # <<>>
      BY <1>0, <1>7, NowIsCall DEF IssueWrite, At, Now
    <2>2. c.on \in Loops /\ c.id \in IDs
      BY <2>1 DEF Call, WriteCalls, ItemCalls
    <2>3. todo' \in [Threads -> Seq(Call)]
      BY <1>0, <1>7, <2>1, ReturnType DEF IssueWrite
    <2>4. wr[c.on] \in WriteRec /\ wr[c.on].sock # NoSocket
      BY <1>7, <2>2 DEF IssueWrite, TypeOK
    <2>5. Started(wr[c.on], <<c.id>>) \in LoopRec
      <3>1. wr[c.on] \in LoopRec
        BY <2>4 DEF WriteRec
      <3>2. <<c.id>> \in Seq(IDs)
        BY <2>2
      <3> QED BY <2>4, <3>1, <3>2, StartedType
    <2>6. Started(wr[c.on], <<c.id>>).data # <<>>
      BY DEF Started
    <2>7. Started(wr[c.on], <<c.id>>) \in WriteRec
      BY <2>5, <2>6 DEF WriteRec
    <2> QED BY <1>7, <2>2, <2>3, <2>7 DEF IssueWrite, TypeOK
  <1> QED BY <1>1, <1>2, <1>3, <1>4, <1>5, <1>6, <1>7 DEF Writing

\* startReading, the read loop, processChunk and invoke keep the types.
LEMMA TypeReading ==
  ASSUME TypeOK, NEW t \in Threads, Reading(t)
  PROVE  TypeOK'
  <1> USE DEF itemVars, queueVars, connVars, loopVars, setupVars, netVars, budgetVars, outsideVars
  <1> DEFINE c == Now(t)
  <1>0. todo \in [Threads -> Seq(Call)]
    BY DEF TypeOK
  <1>1. CASE StartReading(t)
    <2>1. todo' \in [Threads -> Seq(Call)]
      BY <1>0, <1>1, ReturnType, OnLoopIsCall
         DEF StartReading, At, ReadCalls, WriteCalls, ItemCalls
    <2>2. NewLoop(socket) \in LoopRec
      BY DEF TypeOK, NewLoop, LoopRec
    <2> QED BY <1>1, <2>1, <2>2 DEF StartReading, TypeOK
  <1>2. CASE ReadNextBytes(t)
    <2>1. c \in Call /\ c.op = "readNextBytes" /\ todo[t] # <<>>
      BY <1>0, <1>2, NowIsCall DEF ReadNextBytes, At, Now
    <2>2. c.on \in Loops /\ c.held \in BOOLEAN
      BY <2>1 DEF Call, ReadCalls
    <2>3. On("issueRead", c.on, c.held) \in Call
      BY <2>2, OnLoopIsCall DEF ReadCalls, WriteCalls, ItemCalls
    <2>4. todo' \in [Threads -> Seq(Call)]
      BY <1>0, <1>2, <2>1, <2>3, ReturnType DEF ReadNextBytes
    <2> QED BY <1>2, <2>4 DEF ReadNextBytes, TypeOK
  <1>3. CASE IssueRead(t)
    <2>1. c \in Call /\ c.op = "issueRead" /\ todo[t] # <<>>
      BY <1>0, <1>3, NowIsCall DEF IssueRead, At, Now
    <2>2. c.on \in Loops
      BY <2>1 DEF Call, ReadCalls
    <2>3. todo' \in [Threads -> Seq(Call)]
      BY <1>0, <1>3, <2>1, ReturnType DEF IssueRead
    <2>4. Started(rd[c.on], <<>>) \in LoopRec
      <3>1. rd[c.on] \in LoopRec /\ rd[c.on].sock # NoSocket
        BY <1>3, <2>2 DEF IssueRead, TypeOK
      <3>2. <<>> \in Seq(IDs)
        OBVIOUS
      <3> QED BY <3>1, <3>2, StartedType
    <2> QED BY <1>3, <2>2, <2>3, <2>4 DEF IssueRead, TypeOK
  <1>4. CASE FindByID(t)
    <2>1. c \in Call /\ c.op = "findByID" /\ todo[t] # <<>>
      BY <1>0, <1>4, NowIsCall DEF FindByID, At, Now
    <2>2. c.id \in IDs
      BY <2>1 DEF Call, ItemCalls
    <2>3. Item("removeByID", c.id, "ok") \in Call
      BY <2>2, ItemIsCall DEF ItemCalls, WriteCalls, Outcomes
    <2>4. todo' \in [Threads -> Seq(Call)]
      BY <1>0, <1>4, <2>1, <2>3, ReturnType DEF FindByID, CompletedCalls
    <2>5. chunks' \in [IDs -> 0 .. ChunksPerResponse]
      <3>1. chunks \in [IDs -> 0 .. ChunksPerResponse]
        BY DEF TypeOK
      <3>2. CASE chunks' = chunks
        BY <3>1, <3>2
      <3>3. CASE /\ chunks' = [chunks EXCEPT ![c.id] = @ + 1]
                 /\ chunks[c.id] + 1 < ChunksPerResponse
        BY <2>2, <3>1, <3>3, BoundsAssumption
      <3>4. CASE chunks' = [chunks EXCEPT ![c.id] = ChunksPerResponse]
        BY <2>2, <3>1, <3>4, BoundsAssumption
      <3> QED BY <1>4, <3>2, <3>3, <3>4 DEF FindByID
    <2> QED BY <1>4, <2>4, <2>5 DEF FindByID, TypeOK
  <1>5. CASE RemoveByID(t)
    <2>1. c \in Call /\ c.op = "removeByID" /\ todo[t] # <<>>
      BY <1>0, <1>5, NowIsCall DEF RemoveByID, At, Now
    <2>2. c.id \in IDs /\ c.err \in Outcomes
      BY <2>1 DEF Call, ItemCalls
    <2>3. Item("moveRequest", c.id, c.err) \in Call
      BY <2>2, ItemIsCall DEF ItemCalls, WriteCalls
    <2>4. todo' \in [Threads -> Seq(Call)]
      BY <1>0, <1>5, <2>1, <2>3, ReturnType DEF RemoveByID
    <2> QED BY <1>5, <2>4 DEF RemoveByID, Without, TypeOK
  <1>6. CASE MoveRequest(t)
    <2>1. c \in Call /\ c.op = "moveRequest" /\ todo[t] # <<>>
      BY <1>0, <1>6, NowIsCall DEF MoveRequest, At, Now
    <2>2. c.id \in IDs /\ c.err \in Outcomes
      BY <2>1 DEF Call, ItemCalls
    <2>3. [op |-> "invoke", on |-> 0, id |-> c.id, err |-> c.err, held |-> c.id \in owns] \in Call
      BY <2>2 DEF Call, Ops, ItemCalls, ReadCalls, WriteCalls, SetupCalls
    <2>4. todo' \in [Threads -> Seq(Call)]
      BY <1>0, <1>6, <2>1, <2>3, ReturnType DEF MoveRequest
    <2> QED BY <1>6, <2>4 DEF MoveRequest, TypeOK
  <1>7. CASE Invoke(t)
    <2>1. c \in Call /\ c.op = "invoke" /\ todo[t] # <<>>
      BY <1>0, <1>7, NowIsCall DEF Invoke, At, Now
    <2>2. c.id \in IDs /\ c.err \in Outcomes
      BY <2>1 DEF Call, ItemCalls
    <2>3. Plain("onFailure") \in Call
      BY PlainIsCall DEF PlainOps, Ops, ReadCalls, WriteCalls, SetupCalls, ItemCalls
    <2>4. todo' \in [Threads -> Seq(Call)]
      BY <1>0, <1>7, <2>1, <2>3, ReturnType DEF Invoke, Return
    <2>5. /\ outcome' \in [IDs -> Outcomes] /\ handed' \subseteq IDs
      BY <1>7, <2>2 DEF Invoke, TypeOK
    <2>6. permanentFailure' \in BOOLEAN
      BY <1>7 DEF Invoke
    <2> QED BY <1>7, <2>4, <2>5, <2>6 DEF Invoke, TypeOK
  <1> QED BY <1>1, <1>2, <1>3, <1>4, <1>5, <1>6, <1>7 DEF Reading

\* shutdownConnection is a list of calls.
LEMMA ShutdownType ==
  ASSUME NEW e \in Outcomes
  PROVE  /\ ShutdownCalls(e) \in Seq(Call)
         /\ \A op \in {"resolveAgain", "onFailure"} :
              ShutdownCalls(e) \o <<Plain(op)>> \in Seq(Call)
  <1>1. \A op \in {"stopWriting", "stopReading", "shutdownSocket", "resolveAgain", "onFailure"} :
          Plain(op) \in Call
    BY PlainIsCall DEF PlainOps, Ops, ReadCalls, WriteCalls, SetupCalls, ItemCalls
  <1>2. Fail("cancelAll", 0, e) \in Call
    BY FailIsCall DEF PlainOps, Ops, ReadCalls, WriteCalls, SetupCalls, ItemCalls
  <1>3. ShutdownCalls(e) \in Seq(Call)
    BY <1>1, <1>2 DEF ShutdownCalls
  <1>4. ASSUME NEW op \in {"resolveAgain", "onFailure"}
        PROVE  ShutdownCalls(e) \o <<Plain(op)>> \in Seq(Call)
    <2>1. <<Plain(op)>> \in Seq(Call)
      BY <1>1
    <2> QED BY <1>3, <2>1, ConcatProperties
  <1> QED BY <1>3, <1>4

\* restartConnection and shutdownConnection keep the types.
LEMMA TypeRestarting ==
  ASSUME TypeOK, NEW t \in Threads, Restarting(t)
  PROVE  TypeOK'
  <1> USE DEF itemVars, queueVars, connVars, loopVars, setupVars, netVars, budgetVars, outsideVars
  <1> DEFINE c == Now(t)
  <1>0. todo \in [Threads -> Seq(Call)]
    BY DEF TypeOK
  <1>1. CASE RestartRead(t) \/ RestartWrite(t)
    <2>1. c \in Call /\ todo[t] # <<>>
      BY <1>0, <1>1, NowIsCall DEF RestartRead, RestartWrite, At, Now
    <2>2. Fail("restart", 0, c.err) \in Call
      <3>1. c.err \in Outcomes
        BY <2>1 DEF Call
      <3> QED BY <3>1, FailIsCall DEF PlainOps, Ops, ReadCalls, WriteCalls, SetupCalls, ItemCalls
    <2>3. todo' \in [Threads -> Seq(Call)]
      BY <1>0, <1>1, <2>1, <2>2, ReturnType DEF RestartRead, RestartWrite, RestartOf
    <2> QED BY <1>1, <2>3 DEF RestartRead, RestartWrite, RestartOf, TypeOK
  <1>2. CASE Restart(t)
    <2>1. c \in Call /\ todo[t] # <<>>
      BY <1>0, <1>2, NowIsCall DEF Restart, At, Now
    <2>2. c.err \in Outcomes
      BY <2>1 DEF Call
    <2>3. ShutdownCalls(c.err) \o <<Plain("resolveAgain")>> \in Seq(Call)
      BY <2>2, ShutdownType
    <2>4. Then(t, ShutdownCalls(c.err) \o <<Plain("resolveAgain")>>)
      BY <1>2 DEF Restart
    <2>5. todo' \in [Threads -> Seq(Call)]
      BY <1>0, <2>1, <2>3, <2>4, ThenType
    <2> QED BY <1>2, <2>5 DEF Restart, TypeOK
  <1>3. CASE StopWriting(t)
    <2>1. todo' \in [Threads -> Seq(Call)]
      BY <1>0, <1>3, ReturnType DEF StopWriting, At
    <2> QED BY <1>3, <2>1 DEF StopWriting, TypeOK
  <1>4. CASE StopReading(t)
    <2>1. todo' \in [Threads -> Seq(Call)]
      BY <1>0, <1>4, ReturnType DEF StopReading, At
    <2> QED BY <1>4, <2>1 DEF StopReading, TypeOK
  <1>5. CASE ShutdownSocket(t)
    <2>1. todo' \in [Threads -> Seq(Call)]
      BY <1>0, <1>5, ReturnType DEF ShutdownSocket, At
    <2>2. Aborted(rd, socket) \in [Loops -> LoopRec]
      BY DEF TypeOK, Aborted, LoopRec
    <2>3. Aborted(wr, socket) \in [Loops -> WriteRec]
      BY DEF TypeOK, Aborted, WriteRec, LoopRec
    <2>4. setup' \in [Sockets -> SetupRec]
      <3>1. setup \in [Sockets -> SetupRec]
        BY DEF TypeOK
      <3>2. \A n \in Sockets : [setup[n] EXCEPT !.res = "err"] \in SetupRec
        BY <3>1 DEF SetupRec
      <3> QED BY <1>5, <3>1, <3>2 DEF ShutdownSocket
    <2>5. sock' \in [Sockets -> {"none", "open", "connected", "lost", "closed"}]
      BY <1>5 DEF ShutdownSocket, TypeOK
    <2>6. wire' \in [Sockets -> Seq(IDs)]
      <3>1. <<>> \in Seq(IDs)
        OBVIOUS
      <3>2. wire \in [Sockets -> Seq(IDs)]
        BY DEF TypeOK
      <3> QED BY <1>5, <3>1, <3>2 DEF ShutdownSocket
    <2> QED BY <1>5, <2>1, <2>2, <2>3, <2>4, <2>5, <2>6 DEF ShutdownSocket, TypeOK
  <1>6. CASE CancelAll(t)
    <2>1. c \in Call /\ todo[t] # <<>>
      BY <1>0, <1>6, NowIsCall DEF CancelAll, At, Now
    <2>2. c.err \in Outcomes
      BY <2>1 DEF Call
    <2>3. Plain("onFailure") \in Call
      BY PlainIsCall DEF PlainOps, Ops, ReadCalls, WriteCalls, SetupCalls, ItemCalls
    <2>4. todo' \in [Threads -> Seq(Call)]
      BY <1>0, <1>6, <2>1, <2>3, ReturnType DEF CancelAll, Return
    <2>5. outcome' \in [IDs -> Outcomes]
      BY <1>6, <2>2 DEF CancelAll, TypeOK
    <2>6. permanentFailure' \in BOOLEAN
      BY <1>6 DEF CancelAll
    <2> QED BY <1>6, <2>4, <2>5, <2>6 DEF CancelAll, TypeOK
  <1>7. CASE ResolveAgain(t)
    <2>1. todo' \in [Threads -> Seq(Call)]
      BY <1>0, <1>7, ReturnType DEF ResolveAgain, At
    <2>2. attempts' \in Sockets
      BY <1>7, BoundsAssumption DEF ResolveAgain, TypeOK, Sockets
    <2>3. [NoSetup EXCEPT !.kind = "resolve"] \in SetupRec
      BY DEF NoSetup, SetupRec
    <2>4. setup' \in [Sockets -> SetupRec]
      BY <1>7, <2>3 DEF ResolveAgain, TypeOK
    <2> QED BY <1>7, <2>1, <2>2, <2>4 DEF ResolveAgain, TypeOK
  <1> QED BY <1>1, <1>2, <1>3, <1>4, <1>5, <1>6, <1>7 DEF Restarting

\* initSocket, startSSLHandshake and finishInitialization keep the types.
LEMMA TypeConnecting ==
  ASSUME TypeOK, NEW t \in Threads, Connecting(t)
  PROVE  TypeOK'
  <1> USE DEF itemVars, queueVars, connVars, loopVars, setupVars, netVars, budgetVars, outsideVars
  <1> DEFINE c == Now(t)
  <1>0. todo \in [Threads -> Seq(Call)]
    BY DEF TypeOK
  <1>1. ASSUME NEW n \in Sockets, NEW kind \in {"connect", "handshake", "header"},
               NEW s \in Sockets, Begin(n, kind, s)
        PROVE  setup' \in [Sockets -> SetupRec]
    <2>1. (IF sock'[s] = "closed" THEN "err" ELSE "pending") \in {"pending", "err"}
      OBVIOUS
    <2>2. [kind |-> kind, sock |-> s, res |-> IF sock'[s] = "closed" THEN "err" ELSE "pending"]
            \in SetupRec
      BY <2>1 DEF SetupRec
    <2> QED BY <1>1, <2>2 DEF Begin, TypeOK
  <1>2. CASE InitSocket(t)
    <2>1. c \in Call /\ c.op = "initSocket" /\ todo[t] # <<>>
      BY <1>0, <1>2, NowIsCall DEF InitSocket, At, Now
    <2>2. c.on \in Sockets
      BY <2>1 DEF Call, SetupCalls
    <2>3. todo' \in [Threads -> Seq(Call)]
      BY <1>0, <1>2, <2>1, ReturnType DEF InitSocket
    <2>4. setup' \in [Sockets -> SetupRec]
      BY <1>1, <1>2, <2>2 DEF InitSocket
    <2> QED BY <1>2, <2>2, <2>3, <2>4 DEF InitSocket, TypeOK
  <1>3. CASE StartSSLHandshake(t)
    <2>1. c \in Call /\ c.op = "handshake" /\ todo[t] # <<>>
      BY <1>0, <1>3, NowIsCall DEF StartSSLHandshake, At, Now
    <2>2. c.on \in Sockets /\ socket \in Sockets
      BY <1>3, <2>1 DEF Call, SetupCalls, StartSSLHandshake, TypeOK
    <2>3. todo' \in [Threads -> Seq(Call)]
      BY <1>0, <1>3, <2>1, ReturnType DEF StartSSLHandshake
    <2>4. setup' \in [Sockets -> SetupRec]
      BY <1>1, <1>3, <2>2 DEF StartSSLHandshake
    <2> QED BY <1>3, <2>3, <2>4 DEF StartSSLHandshake, TypeOK
  <1>4. CASE FinishInitialization(t)
    <2>1. c \in Call /\ c.op = "finishInit" /\ todo[t] # <<>>
      BY <1>0, <1>4, NowIsCall DEF FinishInitialization, At, Now
    <2>2. c.on \in Sockets /\ socket \in Sockets
      BY <1>4, <2>1 DEF Call, SetupCalls, FinishInitialization, TypeOK
    <2>3. todo' \in [Threads -> Seq(Call)]
      BY <1>0, <1>4, <2>1, ReturnType DEF FinishInitialization
    <2>4. setup' \in [Sockets -> SetupRec]
      BY <1>1, <1>4, <2>2 DEF FinishInitialization
    <2> QED BY <1>4, <2>3, <2>4 DEF FinishInitialization, TypeOK
  <1>5. CASE InsertAuthenticationRequests(t)
    <2>1. todo' \in [Threads -> Seq(Call)]
      BY <1>0, <1>5, ReturnType DEF InsertAuthenticationRequests, At
    <2>2. CASE Auth
      <3>1. nextID \in Nat /\ nextID + 1 \in IDs
        BY <1>5, <2>2, BoundsAssumption
           DEF InsertAuthenticationRequests, NewItem, TypeOK, IDs, MaxID
      <3>2. <<nextID + 1>> \in Seq(IDs) /\ sendQueue \in Seq(IDs)
        BY <3>1 DEF TypeOK
      <3>3. <<nextID + 1>> \o sendQueue \in Seq(IDs)
        BY <3>2, ConcatProperties
      <3>4. nextID' \in 0 .. MaxID
        BY <1>5, <2>2, <3>1, BoundsAssumption
           DEF InsertAuthenticationRequests, NewItem, IDs, MaxID
      <3> QED BY <1>5, <2>1, <2>2, <3>1, <3>3, <3>4
              DEF InsertAuthenticationRequests, NewItem, TypeOK
    <2>3. CASE ~Auth
      BY <1>5, <2>1, <2>3 DEF InsertAuthenticationRequests, TypeOK
    <2> QED BY <2>2, <2>3, ConfigurationAssumption
  <1>6. CASE SetConnected(t)
    <2>1. todo' \in [Threads -> Seq(Call)]
      BY <1>0, <1>6, ReturnType DEF SetConnected, At
    <2> QED BY <1>6, <2>1 DEF SetConnected, TypeOK
  <1>7. CASE OnFailure(t)
    <2>1. todo' \in [Threads -> Seq(Call)]
      BY <1>0, <1>7, ReturnType DEF OnFailure, At
    <2> QED BY <1>7, <2>1 DEF OnFailure, TypeOK
  <1> QED BY <1>2, <1>3, <1>4, <1>5, <1>6, <1>7 DEF Connecting

\* A failed assert or a bad dereference keeps the types.
LEMMA TypeDying ==
  ASSUME TypeOK, NEW t \in Threads, Dying(t)
  PROVE  TypeOK'
  <1> USE DEF itemVars, queueVars, connVars, loopVars, setupVars, netVars, budgetVars
  <1>1. \E why \in Crashes : Abort(why)
    BY DEF Dying, DerefFreedLoop, DerefNullRequest, DerefNullSocket, AssertFails, Crashes
  <1> QED BY <1>1 DEF Abort, TypeOK

\* createRequestItem keeps the types.
LEMMA TypeSendRequest ==
  ASSUME TypeOK, NEW t \in Threads, SendRequest(t)
  PROVE  TypeOK'
  <1> USE DEF itemVars, queueVars, connVars, loopVars, setupVars, netVars, budgetVars, outsideVars
  <1>1. nextID \in Nat /\ nextID + 1 \in IDs /\ nextID' \in 0 .. MaxID
    BY BoundsAssumption DEF SendRequest, NewItem, TypeOK, IDs, MaxID
  <1>2. Item("enqueue", nextID + 1, "none") \in Call
    BY <1>1, ItemIsCall DEF ItemCalls, WriteCalls, Outcomes
  <1>3. Plain("checkConnected") \in Call
    BY PlainIsCall DEF PlainOps, Ops, ReadCalls, WriteCalls, SetupCalls, ItemCalls
  <1>4. SendCalls(nextID + 1) \in Seq(Call)
    BY <1>2, <1>3 DEF SendCalls
  <1> QED BY <1>1, <1>4 DEF SendRequest, NewItem, TypeOK

\* Every handler of the io_service keeps the types.
LEMMA TypeDispatch ==
  ASSUME TypeOK, NEW t \in Threads, Dispatch(t)
  PROVE  TypeOK'
  <1> USE DEF itemVars, queueVars, connVars, loopVars, setupVars, netVars, budgetVars, outsideVars
  <1>0. \A e \in {"VstReadError", "VstWriteError", "Timeout", "CanceledDuringReset", "ok", "none"} :
          e \in Outcomes
    BY DEF Outcomes, Errors
  <1>e. <<>> \in Seq(IDs) /\ \A x \in Call : <<x>> \in Seq(Call)
    OBVIOUS
  <1>1. ASSUME NEW l \in Loops, ReadCallback(t, l)
        PROVE  TypeOK'
    <2>1. rd[l] \in LoopRec
      BY DEF TypeOK
    <2>2. [rd[l] EXCEPT !.op = "idle", !.armed = FALSE, !.data = <<>>] \in LoopRec
      BY <1>e, <2>1 DEF LoopRec
    <2>3. Fail("restartRead", l, "VstReadError") \in Call /\ On("readNextBytes", l, TRUE) \in Call
      BY <1>0, OnLoopIsCall DEF ReadCalls, WriteCalls, ItemCalls
    <2> DEFINE found == [k \in 1 .. Len(rd[l].data) |-> Item("findByID", rd[l].data[k], "ok")]
    <2>4. rd[l].data \in Seq(IDs) /\ Len(rd[l].data) \in Nat
      BY <2>1 DEF LoopRec
    <2>5. \A k \in 1 .. Len(rd[l].data) : Item("findByID", rd[l].data[k], "ok") \in Call
      BY <1>0, <2>4, ItemIsCall DEF ItemCalls, WriteCalls
    <2>6. found \in Seq(Call)
      BY <2>4, <2>5, SeqDef
    <2>7. found \o <<On("readNextBytes", l, TRUE)>> \in Seq(Call)
      BY <1>e, <2>3, <2>6, ConcatProperties
    <2>8. todo' \in [Threads -> Seq(Call)]
      <3>1. todo \in [Threads -> Seq(Call)]
        BY DEF TypeOK
      <3>2. CASE rd[l].op = "err"
        <4>1. todo' = [todo EXCEPT ![t] = <<Fail("restartRead", l, "VstReadError")>>]
          BY <1>1, <3>2 DEF ReadCallback
        <4> QED BY <1>e, <2>3, <3>1, <4>1
      <3>3. CASE rd[l].op = "ok"
        <4>1. todo' = [todo EXCEPT ![t] = found \o <<On("readNextBytes", l, TRUE)>>]
          BY <1>1, <3>3 DEF ReadCallback
        <4> HIDE DEF found
        <4> QED BY <2>7, <3>1, <4>1
      <3> QED BY <1>1, <3>2, <3>3 DEF ReadCallback
    <2> QED BY <1>1, <2>2, <2>8 DEF ReadCallback, TypeOK
  <1>2. ASSUME NEW l \in Loops, ReadDeadline(t, l)
        PROVE  TypeOK'
    <2>1. [rd[l] EXCEPT !.expired = FALSE] \in LoopRec
      <3>1. rd[l] \in LoopRec
        BY DEF TypeOK
      <3> QED BY <3>1 DEF LoopRec
    <2>2. Fail("restartRead", l, "Timeout") \in Call
      BY <1>0, OnLoopIsCall DEF ReadCalls, WriteCalls, ItemCalls
    <2> QED BY <1>2, <2>1, <2>2 DEF ReadDeadline, TypeOK
  <1>3. ASSUME NEW l \in Loops, WriteCallback(t, l)
        PROVE  TypeOK'
    <2>1. wr[l] \in LoopRec /\ wr[l].data # <<>>
      BY <1>3 DEF TypeOK, WriteRec, WriteCallback
    <2>2. [wr[l] EXCEPT !.op = "idle", !.armed = FALSE, !.data = <<>>] \in WriteRec
      BY <1>e, <2>1 DEF WriteRec, LoopRec
    <2>3. Head(wr[l].data) \in IDs
      BY <2>1, HeadTailProperties DEF LoopRec
    <2>4. /\ Fail("restartWrite", l, "VstWriteError") \in Call
          /\ On("front", l, TRUE) \in Call
      BY <1>0, OnLoopIsCall DEF ReadCalls, WriteCalls, ItemCalls
    <2>5. Item("removeByID", Head(wr[l].data), "VstWriteError") \in Call
      BY <1>0, <2>3, ItemIsCall DEF ItemCalls, WriteCalls
    <2>6. FailedCalls(l, Head(wr[l].data)) \in Seq(Call) /\ WrittenCalls(l) \in Seq(Call)
      <3>1. \A x, y \in Call : <<x, y>> \in Seq(Call)
        OBVIOUS
      <3> QED BY <1>e, <2>4, <2>5, <3>1 DEF FailedCalls, WrittenCalls
    <2>7. todo' \in [Threads -> Seq(Call)]
      BY <1>3, <2>6 DEF WriteCallback, TypeOK
    <2> QED BY <1>3, <2>2, <2>3, <2>7 DEF WriteCallback, TypeOK
  <1>4. ASSUME NEW l \in Loops, WriteDeadline(t, l)
        PROVE  TypeOK'
    <2>1. [wr[l] EXCEPT !.expired = FALSE] \in WriteRec
      BY DEF TypeOK, LoopRec, WriteRec
    <2>2. Fail("restartWrite", l, "Timeout") \in Call
      BY <1>0, OnLoopIsCall DEF ReadCalls, WriteCalls, ItemCalls
    <2> QED BY <1>4, <2>1, <2>2 DEF WriteDeadline, TypeOK
  <1>5. ASSUME NEW n \in Sockets, NEW kind, NEW good \in Seq(Call), NEW bad \in Seq(Call),
               Handles(t, n, kind, good, bad), connected' \in BOOLEAN
        PROVE  TypeOK'
    <2>1. NoSetup \in SetupRec
      BY DEF NoSetup, SetupRec
    <2>2. todo' \in [Threads -> Seq(Call)]
      BY <1>5 DEF Handles, TypeOK
    <2> QED BY <1>5, <2>1, <2>2 DEF Handles, TypeOK
  <1>6. \A op \in {"onFailure", "shutdownSocket", "insertAuth", "setConnected", "startWriting",
                   "startReading"} : Plain(op) \in Call
    BY PlainIsCall DEF PlainOps, Ops, ReadCalls, WriteCalls, SetupCalls, ItemCalls
  <1>7. \A n \in Sockets, op \in {"initSocket", "handshake", "finishInit"} :
          <<On(op, n, FALSE)>> \in Seq(Call)
    <2>1. \A n \in Sockets, op \in {"initSocket", "handshake", "finishInit"} :
            On(op, n, FALSE) \in Call
      BY OnSetupIsCall DEF SetupCalls
    <2> QED BY <1>e, <2>1
  <1>8. ShutdownCalls("CanceledDuringReset") \o <<Plain("onFailure")>> \in Seq(Call)
    BY <1>0, ShutdownType
  <1>9. connected \in BOOLEAN
    BY DEF TypeOK
  <1>10. ASSUME NEW n \in Sockets, ResolveCallback(t, n)
         PROVE  TypeOK'
    <2>1. <<Plain("onFailure")>> \in Seq(Call)
      BY <1>6
    <2>2. connected' \in BOOLEAN
      BY <1>9, <1>10 DEF ResolveCallback
    <2> QED BY <1>5, <1>7, <1>10, <2>1, <2>2 DEF ResolveCallback
  <1>11. ASSUME NEW n \in Sockets, AsyncConnectCallback(t, n)
         PROVE  TypeOK'
    <2>1. <<On(IF Ssl THEN "handshake" ELSE "finishInit", n, FALSE)>> \in Seq(Call)
      BY <1>7, ConfigurationAssumption
    <2>2. connected' \in BOOLEAN
      BY <1>9, <1>11 DEF AsyncConnectCallback
    <2> QED BY <1>5, <1>8, <1>11, <2>1, <2>2 DEF AsyncConnectCallback
  <1>12. ASSUME NEW n \in Sockets, HandshakeCallback(t, n)
         PROVE  TypeOK'
    <2>1. <<Plain("shutdownSocket"), Plain("onFailure")>> \in Seq(Call)
      BY <1>6
    <2>2. connected' \in BOOLEAN
      BY <1>9, <1>12 DEF HandshakeCallback
    <2> QED BY <1>5, <1>7, <1>12, <2>1, <2>2 DEF HandshakeCallback
  <1>13. ASSUME NEW n \in Sockets, HeaderCallback(t, n)
         PROVE  TypeOK'
    <2>1. <<Plain("insertAuth"), Plain("setConnected"), Plain("startWriting"),
            Plain("startReading")>> \in Seq(Call)
      BY <1>6
    <2>2. connected' \in BOOLEAN
      BY <1>13 DEF HeaderCallback
    <2> QED BY <1>5, <1>8, <1>13, <2>1, <2>2 DEF HeaderCallback
  <1> QED BY <1>1, <1>2, <1>3, <1>4, <1>10, <1>11, <1>12, <1>13 DEF Dispatch

\* The kernel, the timers, the network and the server keep the types.
LEMMA TypeEnvironment ==
  ASSUME TypeOK, Completion \/ Expiry \/ Server \/ Fault
  PROVE  TypeOK'
  <1> USE DEF itemVars, queueVars, connVars, loopVars, setupVars, netVars, budgetVars, outsideVars
  <1>0. /\ rd \in [Loops -> LoopRec] /\ wr \in [Loops -> WriteRec]
        /\ setup \in [Sockets -> SetupRec] /\ wire \in [Sockets -> Seq(IDs)]
        /\ owed \in [IDs -> OwedRec]
    BY DEF TypeOK
  <1>1. ASSUME NEW l \in Loops, WriteCompletes(l)
        PROVE  TypeOK'
    <2>1. wr[l] \in WriteRec /\ wr[l].op = "pending"
      BY <1>0, <1>1 DEF WriteCompletes
    <2>2. wr[l].sock \in Sockets /\ [wr[l] EXCEPT !.op = "ok"] \in WriteRec
      BY <2>1 DEF WriteRec, LoopRec
    <2>3. [sock |-> wr[l].sock, left |-> ChunksPerResponse] \in OwedRec
      BY <2>2, BoundsAssumption DEF OwedRec
    <2> QED BY <1>0, <1>1, <2>2, <2>3 DEF WriteCompletes, TypeOK
  <1>2. ASSUME NEW l \in Loops, WriteFails(l)
        PROVE  TypeOK'
    <2>1. wr[l] \in WriteRec /\ wr[l].op = "pending"
      BY <1>0, <1>2 DEF WriteFails
    <2>2. [wr[l] EXCEPT !.op = "err"] \in WriteRec
      BY <2>1 DEF WriteRec, LoopRec
    <2> QED BY <1>0, <1>2, <2>2 DEF WriteFails, TypeOK
  <1>3. ASSUME NEW l \in Loops, ReadCompletes(l)
        PROVE  TypeOK'
    <2> DEFINE s == rd[l].sock
    <2>1. rd[l] \in LoopRec /\ rd[l].op = "pending"
      BY <1>0, <1>3 DEF ReadCompletes
    <2>2. s \in Sockets
      BY <2>1 DEF LoopRec
    <2>3. PICK k \in 1 .. Len(wire[s]) :
            /\ rd' = [rd EXCEPT ![l] = [@ EXCEPT !.op = "ok", !.data = SubSeq(wire[s], 1, k)]]
            /\ wire' = [wire EXCEPT ![s] = SubSeq(@, k + 1, Len(@))]
      BY <1>3 DEF ReadCompletes
    <2>4. wire[s] \in Seq(IDs) /\ Len(wire[s]) \in Nat
      BY <1>0, <2>2
    <2>5. SubSeq(wire[s], 1, k) \in Seq(IDs) /\ SubSeq(wire[s], k + 1, Len(wire[s])) \in Seq(IDs)
      BY <2>4, SubSeqProperties
    <2>6. [rd[l] EXCEPT !.op = "ok", !.data = SubSeq(wire[s], 1, k)] \in LoopRec
      BY <2>1, <2>5 DEF LoopRec
    <2>7. rd' \in [Loops -> LoopRec] /\ wire' \in [Sockets -> Seq(IDs)]
      BY <1>0, <2>3, <2>5, <2>6
    <2> QED BY <1>3, <2>7 DEF ReadCompletes, TypeOK
  <1>4. ASSUME NEW l \in Loops, ReadFails(l)
        PROVE  TypeOK'
    <2>1. rd[l] \in LoopRec /\ rd[l].op = "pending"
      BY <1>0, <1>4 DEF ReadFails
    <2>2. [rd[l] EXCEPT !.op = "err"] \in LoopRec
      BY <2>1 DEF LoopRec
    <2> QED BY <1>0, <1>4, <2>2 DEF ReadFails, TypeOK
  <1>5. ASSUME NEW n \in Sockets, SetupCompletes(n)
        PROVE  TypeOK'
    <2>1. setup[n] \in SetupRec
      BY <1>0
    <2>2. [setup[n] EXCEPT !.res = "ok"] \in SetupRec
      BY <2>1 DEF SetupRec
    <2>3. setup[n].kind = "header" => setup[n].sock \in Sockets
      BY <2>1 DEF SetupRec
    <2> QED BY <1>0, <1>5, <2>2, <2>3 DEF SetupCompletes, TypeOK
  <1>6. ASSUME NEW l \in Loops, ReadExpires(l)
        PROVE  TypeOK'
    <2>1. rd[l] \in LoopRec
      BY <1>0
    <2>2. [rd[l] EXCEPT !.armed = FALSE, !.expired = TRUE] \in LoopRec
      BY <2>1 DEF LoopRec
    <2>3. timeouts' \in 0 .. MaxTimeouts
      BY <1>6, BoundsAssumption DEF ReadExpires, MayExpire, TypeOK
    <2> QED BY <1>0, <1>6, <2>2, <2>3 DEF ReadExpires, TypeOK
  <1>7. ASSUME NEW l \in Loops, WriteExpires(l)
        PROVE  TypeOK'
    <2>1. wr[l] \in WriteRec
      BY <1>0
    <2>2. [wr[l] EXCEPT !.armed = FALSE, !.expired = TRUE] \in WriteRec
      BY <2>1 DEF WriteRec, LoopRec
    <2>3. timeouts' \in 0 .. MaxTimeouts
      BY <1>7, BoundsAssumption DEF WriteExpires, MayExpire, TypeOK
    <2> QED BY <1>0, <1>7, <2>2, <2>3 DEF WriteExpires, TypeOK
  <1>8. ASSUME NEW i \in IDs, Respond(i)
        PROVE  TypeOK'
    <2>1. owed[i] \in OwedRec /\ owed[i].left > 0
      BY <1>0, <1>8 DEF Respond
    <2>2. [owed[i] EXCEPT !.left = @ - 1] \in OwedRec
      BY <2>1, BoundsAssumption DEF OwedRec
    <2>3. owed' \in [IDs -> OwedRec]
      BY <1>0, <1>8, <2>2 DEF Respond
    <2>4. \A s \in Sockets : Append(wire[s], i) \in Seq(IDs)
      BY <1>0
    <2>5. wire' \in [Sockets -> Seq(IDs)]
      BY <1>0, <1>8, <2>4 DEF Respond
    <2> QED BY <1>8, <2>3, <2>5 DEF Respond, TypeOK
  <1>9. ASSUME NEW n \in Sockets, SetupFails(n)
        PROVE  TypeOK'
    <2>1. setup[n] \in SetupRec
      BY <1>0
    <2>2. [setup[n] EXCEPT !.res = "err"] \in SetupRec
      BY <2>1 DEF SetupRec
    <2>3. faults' \in 0 .. MaxFaults
      BY <1>9, BoundsAssumption DEF SetupFails, TypeOK
    <2> QED BY <1>0, <1>9, <2>2, <2>3 DEF SetupFails, TypeOK
  <1>10. ASSUME NEW s \in Sockets, ConnectionLost(s)
         PROVE  TypeOK'
    <2>1. faults' \in 0 .. MaxFaults
      BY <1>10, BoundsAssumption DEF ConnectionLost, TypeOK
    <2> QED BY <1>10, <2>1 DEF ConnectionLost, TypeOK
  <1> QED BY <1>1, <1>2, <1>3, <1>4, <1>5, <1>6, <1>7, <1>8, <1>9, <1>10
          DEF Completion, Expiry, Server, Fault

\* The constructor sets the types up.
LEMMA TypeInit == Init => TypeOK
  <1> SUFFICES ASSUME Init PROVE TypeOK
    OBVIOUS
  <1>1. NewLoop(NoSocket) \in LoopRec /\ NewLoop(NoSocket) \in WriteRec
    BY DEF NewLoop, LoopRec, WriteRec
  <1>2. NoSetup \in SetupRec /\ [NoSetup EXCEPT !.kind = "resolve"] \in SetupRec
    BY DEF NoSetup, SetupRec
  <1>3. [sock |-> NoSocket, left |-> 0] \in OwedRec
    BY BoundsAssumption DEF OwedRec
  <1>4. 1 \in Sockets /\ 0 \in 0 .. MaxID /\ 0 \in 0 .. MaxFaults /\ 0 \in 0 .. MaxTimeouts
        /\ 0 \in 0 .. ChunksPerResponse
    BY BoundsAssumption DEF Sockets, MaxID
  <1>5. <<>> \in Seq(Call) /\ <<>> \in Seq(IDs)
    OBVIOUS
  <1>6. "none" \in Outcomes /\ "no" \in Crashes
    BY DEF Outcomes, Crashes
  <1> QED BY <1>1, <1>2, <1>3, <1>4, <1>5, <1>6 DEF Init, TypeOK

\* Every step keeps the types.
LEMMA TypeStep == TypeOK /\ [Next]_vars => TypeOK'
  <1> SUFFICES ASSUME TypeOK, [Next]_vars PROVE TypeOK'
    OBVIOUS
  <1>1. CASE UNCHANGED vars
    BY <1>1 DEF vars, itemVars, queueVars, connVars, loopVars, setupVars, netVars, budgetVars,
                outsideVars, TypeOK
  <1>2. CASE Next
    <2>1. ASSUME NEW t \in Users, SendRequest(t) PROVE TypeOK'
      BY <2>1, TypeSendRequest DEF Threads
    <2>2. ASSUME NEW t \in Threads, Run(t) PROVE TypeOK'
      BY <2>2, TypeWriting, TypeReading, TypeRestarting, TypeConnecting, TypeDying DEF Run
    <2>3. ASSUME NEW t \in IoThreads, Dispatch(t) PROVE TypeOK'
      BY <2>3, TypeDispatch DEF Threads
    <2> QED BY <1>2, <2>1, <2>2, <2>3, TypeEnvironment DEF Next
  <1> QED BY <1>1, <1>2

\* Every variable of the connection, its loops, the threads and the network
\* keeps its type: a loop or socket a call refers to exists, and a write in
\* progress has its item.
THEOREM TypeCorrect == Spec => []TypeOK
  BY TypeInit, TypeStep, PTL DEF Spec

----------------------------------------------------------------------------
(* The message store: the inductive invariant.                             *)

\* The calls of thread t below the one it makes next.
Below(t) == {todo[t][k] : k \in 2 .. Len(todo[t])}

\* Calls a thread makes at once: nothing is ever pushed on top of them.
HeadOps == {"enqueue", "addToStore", "removeFirst"}
LockOps == {"addToStore", "removeFirst"}

\* Calls about an item that has left the store for good.
MoveOps == {"moveRequest", "invoke"}

\* Items not yet taken from the send queue.
Waiting == Queued \cup InCall({"enqueue"})

\* Items seen by a write loop, the network or a read loop: the only ones
\* whose request is ever moved out one by one.
HandledOps == {"issueWrite", "findByID", "removeByID", "moveRequest", "invoke"}
Handled == InCall(HandledOps)
OnTheWay == {i \in IDs : \/ owed[i].left > 0
                         \/ \E s \in Sockets : i \in Range(wire[s])
                         \/ \E l \in Loops : i \in Range(wr[l].data) \/ i \in Range(rd[l].data)}
Travelling == Handled \cup OnTheWay

\* Message IDs are handed out in order.
Numbered == Waiting \cup Travelling \cup store \cup owns \cup InCall(LockOps) \subseteq 1 .. nextID

\* The write loop's mutex has one holder, and its item is the first of the queue.
Locked ==
  /\ \A t \in Threads : \A c \in Below(t) : c.op \notin HeadOps
  /\ \A t, u \in Threads : \A c \in CallsOf(t), d \in CallsOf(u) :
       c.op \in LockOps /\ d.op \in LockOps => t = u
  /\ \A t \in Threads : \A c \in CallsOf(t) :
       c.op \in LockOps => sendQueue # <<>> /\ c.id = Head(sendQueue)

\* An item is queued once.
QueuedOnce ==
  /\ \A j, k \in DOMAIN sendQueue : sendQueue[j] = sendQueue[k] => j = k
  /\ \A t, u \in Threads : \A c \in CallsOf(t), d \in CallsOf(u) :
       c.op = "enqueue" /\ d.op = "enqueue" /\ c.id = d.id => t = u
  /\ Queued \cap InCall({"enqueue"}) = {}

\* An item that waits does not travel, and is stored only while
\* getNextRequestToSend moves it from the queue to the store.
Separate ==
  /\ Waiting \cap Travelling = {}
  /\ Waiting \cap store \subseteq InCall({"removeFirst"})

\* Who has a request, and who has given it away.
Ownership ==
  /\ store \subseteq owns
  /\ Waiting \subseteq owns \cup InCall({"removeFirst"})
  /\ InCall(MoveOps) \cap store = {}

IndInv == /\ TypeOK
          /\ Numbered /\ Locked /\ QueuedOnce /\ Separate /\ Ownership

----------------------------------------------------------------------------
(* Stacks of calls.                                                        *)

\* A stack is its next call and the calls below.
LEMMA StackSplit ==
  ASSUME todo \in [Threads -> Seq(Call)], NEW t \in Threads, todo[t] # <<>>
  PROVE  CallsOf(t) = {Now(t)} \cup Below(t) /\ Below(t) = Range(Tail(todo[t]))
  <1>1. todo[t] \in Seq(Call) /\ Len(todo[t]) \in Nat \ {0} /\ DOMAIN todo[t] = 1 .. Len(todo[t])
    OBVIOUS
  <1>2. Now(t) = todo[t][1]
    BY <1>1 DEF Now
  <1>3. /\ DOMAIN Tail(todo[t]) = 1 .. Len(todo[t]) - 1
        /\ \A k \in 1 .. Len(todo[t]) - 1 : Tail(todo[t])[k] = todo[t][k + 1]
    BY <1>1, HeadTailProperties
  <1>4. CallsOf(t) = {Now(t)} \cup Below(t)
    BY <1>1, <1>2 DEF CallsOf, Below
  <1>5. Below(t) = Range(Tail(todo[t]))
    <2>1. ASSUME NEW x \in Below(t) PROVE x \in Range(Tail(todo[t]))
      <3>1. PICK k \in 2 .. Len(todo[t]) : x = todo[t][k]
        BY <2>1 DEF Below
      <3>2. k - 1 \in 1 .. Len(todo[t]) - 1 /\ (k - 1) + 1 = k
        BY <1>1, <3>1
      <3>3. x = Tail(todo[t])[k - 1]
        BY <1>3, <3>1, <3>2
      <3> QED BY <1>3, <3>2, <3>3 DEF Range
    <2>2. ASSUME NEW x \in Range(Tail(todo[t])) PROVE x \in Below(t)
      <3>1. PICK k \in 1 .. Len(todo[t]) - 1 : x = Tail(todo[t])[k]
        BY <1>3, <2>2 DEF Range
      <3>2. k + 1 \in 2 .. Len(todo[t]) /\ x = todo[t][k + 1]
        BY <1>1, <1>3, <3>1
      <3> QED BY <3>2 DEF Below
    <2> QED BY <2>1, <2>2
  <1> QED BY <1>4, <1>5

\* Elements of a concatenation.
LEMMA RangeConcat ==
  ASSUME NEW S, NEW a \in Seq(S), NEW b \in Seq(S)
  PROVE  Range(a \o b) = Range(a) \cup Range(b)
  <1>1. /\ Len(a) \in Nat /\ Len(b) \in Nat
        /\ DOMAIN a = 1 .. Len(a) /\ DOMAIN b = 1 .. Len(b)
        /\ DOMAIN (a \o b) = 1 .. Len(a) + Len(b)
        /\ \A k \in 1 .. Len(a) + Len(b) :
             (a \o b)[k] = IF k <= Len(a) THEN a[k] ELSE b[k - Len(a)]
    BY ConcatProperties
  <1>2. ASSUME NEW x \in Range(a \o b) PROVE x \in Range(a) \cup Range(b)
    <2>1. PICK k \in 1 .. Len(a) + Len(b) : x = (a \o b)[k]
      BY <1>1, <1>2 DEF Range
    <2>2. CASE k <= Len(a)
      BY <1>1, <2>1, <2>2 DEF Range
    <2>3. CASE k > Len(a)
      <3>1. k - Len(a) \in 1 .. Len(b) /\ x = b[k - Len(a)]
        BY <1>1, <2>1, <2>3
      <3> QED BY <1>1, <3>1 DEF Range
    <2> QED BY <1>1, <2>1, <2>2, <2>3
  <1>3. ASSUME NEW x \in Range(a) PROVE x \in Range(a \o b)
    <2>1. PICK k \in 1 .. Len(a) : x = a[k]
      BY <1>1, <1>3 DEF Range
    <2>2. k \in 1 .. Len(a) + Len(b) /\ x = (a \o b)[k]
      BY <1>1, <2>1
    <2> QED BY <1>1, <2>2 DEF Range
  <1>4. ASSUME NEW x \in Range(b) PROVE x \in Range(a \o b)
    <2>1. PICK k \in 1 .. Len(b) : x = b[k]
      BY <1>1, <1>4 DEF Range
    <2>2. Len(a) + k \in 1 .. Len(a) + Len(b) /\ x = (a \o b)[Len(a) + k]
      BY <1>1, <2>1
    <2> QED BY <1>1, <2>2 DEF Range
  <1> QED BY <1>2, <1>3, <1>4

----------------------------------------------------------------------------
(* What keeps the invariant.                                               *)

\* No call that takes an item from a user or from the queue comes or goes.
SameHeadCalls ==
  \A u \in Threads : /\ \A c \in CallsOf(u)' : c.op \in HeadOps => c \in CallsOf(u)
                     /\ \A c \in CallsOf(u) : c.op \in HeadOps => c \in CallsOf(u)'
                     /\ \A c \in Below(u)' : c.op \notin HeadOps

\* Steps that neither queue nor take an item, keep requests with their
\* items, and answer only what left the store.
LEMMA CarryOver ==
  ASSUME IndInv, TypeOK', UNCHANGED <<authIDs, sendQueue, nextID>>, SameHeadCalls,
         Travelling' \subseteq Travelling, store' \subseteq store, owns' \subseteq owns,
         store' \subseteq owns', Waiting \subseteq owns' \cup InCall({"removeFirst"}),
         InCall(MoveOps)' \cap store' = {}
  PROVE  IndInv'
  <1>1. ASSUME NEW ops \in SUBSET HeadOps PROVE InCall(ops)' = InCall(ops)
    <2>1. ASSUME NEW i \in InCall(ops)' PROVE i \in InCall(ops)
      BY <1>1, <2>1 DEF InCall, SameHeadCalls
    <2>2. ASSUME NEW i \in InCall(ops) PROVE i \in InCall(ops)'
      BY <1>1, <2>2 DEF InCall, SameHeadCalls
    <2> QED BY <2>1, <2>2
  <1>2. InCall({"enqueue"})' = InCall({"enqueue"}) /\ InCall(LockOps)' = InCall(LockOps)
    BY <1>1 DEF HeadOps, LockOps
  <1>3. InCall({"removeFirst"})' = InCall({"removeFirst"})
    BY <1>1 DEF HeadOps
  <1>4. Queued' = Queued
    BY DEF Queued
  <1>5. Waiting' = Waiting
    BY <1>2, <1>4 DEF Waiting
  <1>6. Numbered'
    BY <1>2, <1>5 DEF IndInv, Numbered
  <1>7. Locked'
    <2>1. \A u \in Threads : \A c \in Below(u)' : c.op \notin HeadOps
      BY DEF SameHeadCalls
    <2>2. ASSUME NEW u \in Threads, NEW c \in CallsOf(u)', c.op \in LockOps
          PROVE  c \in CallsOf(u) /\ sendQueue' # <<>> /\ c.id = Head(sendQueue')
      <3>1. c \in CallsOf(u)
        BY <2>2 DEF SameHeadCalls, LockOps, HeadOps
      <3> QED BY <2>2, <3>1 DEF IndInv, Locked
    <2>3. ASSUME NEW u \in Threads, NEW v \in Threads, NEW c \in CallsOf(u)',
                 NEW d \in CallsOf(v)', c.op \in LockOps, d.op \in LockOps
          PROVE  u = v
      BY <2>2, <2>3 DEF IndInv, Locked
    <2> QED BY <2>1, <2>2, <2>3 DEF Locked
  <1>8. QueuedOnce'
    <2>1. ASSUME NEW u \in Threads, NEW v \in Threads, NEW c \in CallsOf(u)',
                 NEW d \in CallsOf(v)', c.op = "enqueue", d.op = "enqueue", c.id = d.id
          PROVE  u = v
      BY <2>1 DEF IndInv, QueuedOnce, SameHeadCalls, HeadOps
    <2> QED BY <1>2, <1>4, <2>1 DEF IndInv, QueuedOnce
  <1>9. Separate'
    BY <1>3, <1>5 DEF IndInv, Separate
  <1>10. Ownership'
    BY <1>3, <1>5 DEF Ownership
  <1> QED BY <1>6, <1>7, <1>8, <1>9, <1>10 DEF IndInv

\* Steps that only make calls that are about no item.
LEMMA Neutral ==
  ASSUME IndInv, TypeOK', UNCHANGED <<authIDs, sendQueue, nextID, store, owns>>,
         OnTheWay' \subseteq Travelling,
         \A u \in Threads : /\ \A c \in CallsOf(u)' : c.op \in ItemCalls => c \in CallsOf(u)
                            /\ \A c \in CallsOf(u) : c.op \in HeadOps => c \in CallsOf(u)'
                            /\ \A c \in Below(u)' : c.op \notin HeadOps
  PROVE  IndInv'
  <1>1. SameHeadCalls
    BY DEF SameHeadCalls, HeadOps, ItemCalls
  <1>2. ASSUME NEW ops \in SUBSET ItemCalls PROVE InCall(ops)' \subseteq InCall(ops)
    BY <1>2 DEF InCall
  <1>3. Handled' \subseteq Handled
    BY <1>2 DEF Handled, HandledOps, ItemCalls
  <1>4. InCall(MoveOps)' \subseteq InCall(MoveOps)
    BY <1>2 DEF ItemCalls, MoveOps
  <1>5. Travelling' \subseteq Travelling
    BY <1>3 DEF Travelling
  <1> QED BY <1>1, <1>4, <1>5, CarryOver DEF IndInv, Ownership

----------------------------------------------------------------------------
(* Steps of a thread, of a handler and of the environment.                 *)

\* The stack of a thread whose call returns after making further calls.
LEMMA StackThen ==
  ASSUME todo \in [Threads -> Seq(Call)], NEW t \in Threads, todo[t] # <<>>,
         NEW S, NEW calls \in Seq(S), Then(t, calls)
  PROVE  /\ CallsOf(t)' = Range(calls) \cup Below(t)
         /\ Below(t)' \subseteq Range(calls) \cup Below(t)
         /\ \A u \in Threads \ {t} : CallsOf(u)' = CallsOf(u) /\ Below(u)' = Below(u)
  <1>1. Tail(todo[t]) \in Seq(Call)
    BY HeadTailProperties
  <1> DEFINE U == S \cup Call
  <1>2. Tail(todo[t]) \in Seq(U) /\ calls \in Seq(U)
    BY <1>1
  <1> HIDE DEF U
  <1>3. Range(calls \o Tail(todo[t])) = Range(calls) \cup Range(Tail(todo[t]))
    <2> DEFINE d == Tail(todo[t])
    <2>1. d \in Seq(U) /\ calls \in Seq(U)
      BY <1>2
    <2> HIDE DEF d
    <2>2. Range(calls \o d) = Range(calls) \cup Range(d)
      BY ONLY <2>1, RangeConcat
    <2> QED BY <2>2 DEF d
  <1>4. todo'[t] = calls \o Tail(todo[t]) /\ \A u \in Threads \ {t} : todo'[u] = todo[u]
    BY DEF Then
  <1>5. Below(t) = Range(Tail(todo[t]))
    BY StackSplit
  <1>6. CallsOf(t)' = Range(calls \o Tail(todo[t]))
    BY <1>4 DEF CallsOf, Range
  <1>7. Below(t)' \subseteq CallsOf(t)'
    <2>1. todo'[t] \in Seq(U)
      BY <1>2, <1>4, ConcatProperties
    <2> QED BY <2>1 DEF Below, CallsOf
  <1>8. \A u \in Threads \ {t} : CallsOf(u)' = CallsOf(u) /\ Below(u)' = Below(u)
    BY <1>4 DEF CallsOf, Below
  <1> QED BY <1>3, <1>5, <1>6, <1>7, <1>8

\* The stack of a thread that takes a handler.
LEMMA StackHandler ==
  ASSUME NEW t \in Threads, todo \in [Threads -> Seq(Call)], todo[t] = <<>>,
         NEW S, NEW calls \in Seq(S), todo' = [todo EXCEPT ![t] = calls]
  PROVE  /\ CallsOf(t) = {}
         /\ CallsOf(t)' = Range(calls)
         /\ Below(t)' = {calls[k] : k \in 2 .. Len(calls)}
         /\ Below(t)' \subseteq Range(calls)
         /\ \A u \in Threads \ {t} : CallsOf(u)' = CallsOf(u) /\ Below(u)' = Below(u)
  <1>1. todo'[t] = calls /\ \A u \in Threads \ {t} : todo'[u] = todo[u]
    OBVIOUS
  <1>2. Below(t)' = {calls[k] : k \in 2 .. Len(calls)} /\ Below(t)' \subseteq Range(calls)
    BY <1>1 DEF Below, Range
  <1>3. CallsOf(t)' = Range(calls) /\ CallsOf(t) = {}
    BY <1>1 DEF CallsOf, Range
  <1>4. \A u \in Threads \ {t} : CallsOf(u)' = CallsOf(u) /\ Below(u)' = Below(u)
    BY <1>1 DEF CallsOf, Below
  <1> QED BY <1>2, <1>3, <1>4

\* A call that is about no item, and makes calls that are about no item.
LEMMA NeutralCall ==
  ASSUME IndInv, TypeOK', NEW t \in Threads, todo[t] # <<>>, Now(t).op \notin HeadOps,
         NEW S, NEW calls \in Seq(S), Then(t, calls), \A c \in Range(calls) : c.op \notin ItemCalls,
         UNCHANGED <<authIDs, sendQueue, nextID, store, owns>>, OnTheWay' \subseteq Travelling
  PROVE  IndInv'
  <1>1. todo \in [Threads -> Seq(Call)]
    BY DEF IndInv, TypeOK
  <1>2. /\ CallsOf(t)' = Range(calls) \cup Below(t)
        /\ Below(t)' \subseteq Range(calls) \cup Below(t)
        /\ \A u \in Threads \ {t} : CallsOf(u)' = CallsOf(u) /\ Below(u)' = Below(u)
    BY <1>1, StackThen
  <1>3. CallsOf(t) = {Now(t)} \cup Below(t)
    BY <1>1, StackSplit
  <1>4. \A u \in Threads : \A c \in Below(u) : c.op \notin HeadOps
    BY DEF IndInv, Locked
  <1>5. ASSUME NEW u \in Threads
        PROVE  /\ \A c \in CallsOf(u)' : c.op \in ItemCalls => c \in CallsOf(u)
               /\ \A c \in CallsOf(u) : c.op \in HeadOps => c \in CallsOf(u)'
               /\ \A c \in Below(u)' : c.op \notin HeadOps
    <2>1. CASE u = t
      BY <1>2, <1>3, <1>4, <2>1 DEF HeadOps, ItemCalls
    <2>2. CASE u # t
      BY <1>2, <1>4, <2>2
    <2> QED BY <2>1, <2>2
  <1> QED BY <1>5, Neutral

\* The usual cases: the call returns, or makes one call.
LEMMA NeutralReturn ==
  ASSUME IndInv, TypeOK', NEW t \in Threads, todo[t] # <<>>, Now(t).op \notin HeadOps,
         UNCHANGED <<authIDs, sendQueue, nextID, store, owns>>, OnTheWay' \subseteq Travelling,
         Return(t) \/ \E a : a.op \notin ItemCalls /\ Then(t, <<a>>)
  PROVE  IndInv'
  <1>1. CASE Return(t)
    <2>1. <<>> \in Seq({}) /\ Range(<<>>) = {}
      BY DEF Range
    <2> QED BY <1>1, <2>1, NeutralCall DEF Return
  <1>2. CASE \E a : a.op \notin ItemCalls /\ Then(t, <<a>>)
    <2>1. PICK a : a.op \notin ItemCalls /\ Then(t, <<a>>)
      BY <1>2
    <2>2. <<a>> \in Seq({a}) /\ Range(<<a>>) = {a}
      BY DEF Range
    <2> QED BY <2>1, <2>2, NeutralCall
  <1> QED BY <1>1, <1>2

\* A step of the environment: no thread moves.
LEMMA NeutralEnvironment ==
  ASSUME IndInv, TypeOK', UNCHANGED todo,
         UNCHANGED <<authIDs, sendQueue, nextID, store, owns>>, OnTheWay' \subseteq Travelling
  PROVE  IndInv'
  <1>1. \A u \in Threads : CallsOf(u)' = CallsOf(u) /\ Below(u)' = Below(u)
    BY DEF CallsOf, Below
  <1>2. \A u \in Threads : \A c \in Below(u) : c.op \notin HeadOps
    BY DEF IndInv, Locked
  <1> QED BY <1>1, <1>2, Neutral

\* Nothing new is on the way when loops and sockets only drop data.
LEMMA LessTraffic ==
  ASSUME UNCHANGED owed,
         \A l \in Loops : Range(rd'[l].data) \subseteq Range(rd[l].data),
         \A l \in Loops : Range(wr'[l].data) \subseteq Range(wr[l].data),
         \A s \in Sockets : Range(wire'[s]) \subseteq Range(wire[s])
  PROVE  OnTheWay' \subseteq OnTheWay /\ OnTheWay' \subseteq Travelling
  <1>1. OnTheWay' \subseteq OnTheWay
    BY DEF OnTheWay
  <1> QED BY <1>1 DEF Travelling

\* The usual case: loops and sockets are left alone.
LEMMA SameTraffic ==
  ASSUME UNCHANGED <<rd, wr, wire, owed>>
  PROVE  OnTheWay' \subseteq OnTheWay /\ OnTheWay' \subseteq Travelling
  BY LessTraffic

----------------------------------------------------------------------------
(* What is on the way: items spread only from the hands they are in.       *)

\* An item whose call is being made, or is still to be made, travels.
LEMMA HandledNow ==
  ASSUME todo \in [Threads -> Seq(Call)], NEW t \in Threads, todo[t] # <<>>,
         Now(t).op \in HandledOps
  PROVE  Now(t).id \in IDs /\ Now(t).id \in Handled
  <1>1. Now(t) \in CallsOf(t) /\ Now(t) \in Call
    BY StackSplit, NowIsCall
  <1>2. Now(t).id \in IDs
    BY <1>1 DEF Call, ItemCalls, HandledOps
  <1> QED BY <1>1, <1>2 DEF Handled, HandledOps, InCall

\* The calls of a thread: a write loop takes the item of its call.
LEMMA RunTraffic ==
  ASSUME TypeOK, NEW t \in Threads, Run(t)
  PROVE  /\ OnTheWay' \subseteq Travelling
         /\ \/ OnTheWay' \subseteq OnTheWay
            \/ IssueWrite(t) /\ OnTheWay' \subseteq OnTheWay \cup {Now(t).id}
  <1> USE DEF itemVars, queueVars, connVars, loopVars, setupVars, netVars, budgetVars, outsideVars
  <1>0. /\ rd \in [Loops -> LoopRec] /\ wr \in [Loops -> LoopRec]
        /\ wire \in [Sockets -> Seq(IDs)] /\ todo \in [Threads -> Seq(Call)]
    BY DEF TypeOK, WriteRec
  <1>1. ASSUME NEW f \in [Loops -> LoopRec], NEW k, NEW r, r.data = <<>>, NEW l \in Loops
        PROVE  Range([f EXCEPT ![k] = r][l].data) \subseteq Range(f[l].data)
    <2>1. CASE l = k
      BY <1>1, <2>1 DEF Range
    <2>2. CASE l # k
      BY <1>1, <2>2
    <2> QED BY <2>1, <2>2
  <1>2. CASE StartWriting(t) \/ StartReading(t)
    <2>1. NewLoop(socket).data = <<>>
      BY DEF NewLoop
    <2>2. UNCHANGED <<wire, owed>>
      BY <1>2 DEF StartWriting, StartReading
    <2> HIDE DEF NewLoop
    <2>3. \A l \in Loops : Range(wr'[l].data) \subseteq Range(wr[l].data)
      BY <1>0, <1>1, <1>2, <2>1 DEF StartWriting, StartReading
    <2>4. \A l \in Loops : Range(rd'[l].data) \subseteq Range(rd[l].data)
      BY <1>0, <1>1, <1>2, <2>1 DEF StartWriting, StartReading
    <2> QED BY <2>2, <2>3, <2>4, LessTraffic
  <1>3. CASE IssueRead(t)
    <2>1. Started(rd[Now(t).on], <<>>).data = <<>>
      BY DEF Started
    <2>2. UNCHANGED <<wr, wire, owed>>
      BY <1>3 DEF IssueRead
    <2>3. \A l \in Loops : Range(rd'[l].data) \subseteq Range(rd[l].data)
      BY <1>0, <1>1, <1>3, <2>1 DEF IssueRead
    <2> QED BY <2>2, <2>3, LessTraffic
  <1>4. CASE IssueWrite(t)
    <2>1. todo[t] # <<>> /\ Now(t).op = "issueWrite"
      BY <1>4 DEF IssueWrite, At, Now
    <2>2. Now(t).id \in IDs /\ Now(t).id \in Handled
      BY <1>0, <2>1, HandledNow DEF HandledOps
    <2>3. Range(<<Now(t).id>>) = {Now(t).id}
      BY DEF Range
    <2>4. \A l \in Loops : Range(wr'[l].data) \subseteq Range(wr[l].data) \cup {Now(t).id}
      BY <1>0, <1>4, <2>3 DEF IssueWrite, Started
    <2>5. UNCHANGED <<rd, wire, owed>>
      BY <1>4 DEF IssueWrite
    <2>6. OnTheWay' \subseteq OnTheWay \cup {Now(t).id}
      BY <2>4, <2>5 DEF OnTheWay
    <2> QED BY <1>4, <2>2, <2>6 DEF Travelling
  <1>5. CASE ShutdownSocket(t)
    <2>1. ASSUME NEW f \in [Loops -> LoopRec], NEW s, NEW l \in Loops
          PROVE  Aborted(f, s)[l].data = f[l].data
      <3>1. f[l] \in LoopRec
        OBVIOUS
      <3> DEFINE r == f[l]
      <3>2. [r EXCEPT !.op = "err"].data = r.data
        BY <3>1 DEF LoopRec
      <3> QED BY <3>2 DEF Aborted
    <2>2. \/ UNCHANGED <<rd, wr, wire>>
          \/ /\ rd' = Aborted(rd, socket) /\ wr' = Aborted(wr, socket)
             /\ wire' = [wire EXCEPT ![socket] = <<>>]
      BY <1>5 DEF ShutdownSocket
    <2>3. /\ \A l \in Loops : Range(rd'[l].data) \subseteq Range(rd[l].data)
          /\ \A l \in Loops : Range(wr'[l].data) \subseteq Range(wr[l].data)
          /\ \A s \in Sockets : Range(wire'[s]) \subseteq Range(wire[s])
      <3>1. CASE UNCHANGED <<rd, wr, wire>>
        BY <3>1
      <3>2. CASE /\ rd' = Aborted(rd, socket) /\ wr' = Aborted(wr, socket)
                 /\ wire' = [wire EXCEPT ![socket] = <<>>]
        <4>1. \A l \in Loops : rd'[l].data = rd[l].data /\ wr'[l].data = wr[l].data
          BY <1>0, <2>1, <3>2, Zenon
        <4>2. Range(<<>>) = {}
          BY DEF Range
        <4>3. \A s \in Sockets : wire'[s] = <<>> \/ wire'[s] = wire[s]
          BY <1>0, <3>2
        <4> QED BY <4>1, <4>2, <4>3
      <3> QED BY <2>2, <3>1, <3>2
    <2>4. UNCHANGED owed
      BY <1>5 DEF ShutdownSocket
    <2> QED BY <2>3, <2>4, LessTraffic
  <1>6. CASE \/ Enqueue(t) \/ CheckConnected(t) \/ Front(t) \/ AddToStore(t) \/ RemoveFirst(t)
             \/ ReadNextBytes(t) \/ FindByID(t) \/ RemoveByID(t) \/ MoveRequest(t) \/ Invoke(t)
    BY <1>6, SameTraffic DEF Enqueue, CheckConnected, Front, AddToStore, RemoveFirst,
       ReadNextBytes, FindByID, RemoveByID, MoveRequest, Invoke
  <1>7. CASE \/ RestartRead(t) \/ RestartWrite(t) \/ Restart(t) \/ StopWriting(t)
             \/ StopReading(t) \/ CancelAll(t) \/ ResolveAgain(t)
    BY <1>7, SameTraffic DEF RestartRead, RestartWrite, RestartOf, Restart, StopWriting,
       StopReading, CancelAll, ResolveAgain
  <1>8. CASE Connecting(t)
    BY <1>8, SameTraffic DEF Connecting, InitSocket, StartSSLHandshake, FinishInitialization,
       InsertAuthenticationRequests, SetConnected, OnFailure
  <1>9. CASE Dying(t)
    BY <1>9, SameTraffic
       DEF Dying, DerefFreedLoop, DerefNullRequest, DerefNullSocket, AssertFails, Abort
  <1> QED BY <1>2, <1>3, <1>4, <1>5, <1>6, <1>7, <1>8, <1>9
          DEF Run, Writing, Reading, Restarting

\* The handlers of reads and writes: a loop gives away what it read or wrote.
LEMMA HandlerTraffic ==
  ASSUME TypeOK, NEW t, NEW l \in Loops,
         \/ ReadCallback(t, l) \/ ReadDeadline(t, l)
         \/ WriteCallback(t, l) \/ WriteDeadline(t, l)
  PROVE  OnTheWay' \subseteq OnTheWay
  <1> USE DEF itemVars, queueVars, connVars, loopVars, setupVars, netVars, budgetVars, outsideVars
  <1>1. rd \in [Loops -> LoopRec] /\ wr \in [Loops -> LoopRec] /\ rd[l] \in LoopRec
        /\ wr[l] \in LoopRec
    BY DEF TypeOK, WriteRec
  <1>2. UNCHANGED <<wire, owed>>
    BY DEF ReadCallback, ReadDeadline, WriteCallback, WriteDeadline
  <1>3. Range(<<>>) = {}
    BY DEF Range
  <1>4. CASE ReadCallback(t, l) \/ ReadDeadline(t, l)
    <2>1. \A k \in Loops \ {l} : rd'[k] = rd[k]
      BY <1>1, <1>4 DEF ReadCallback, ReadDeadline
    <2>2. rd'[l].data = <<>> \/ rd'[l].data = rd[l].data
      <3> DEFINE r == rd[l]
      <3>1. /\ [r EXCEPT !.op = "idle", !.armed = FALSE, !.data = <<>>].data = <<>>
            /\ [r EXCEPT !.expired = FALSE].data = r.data
        BY <1>1 DEF LoopRec
      <3>2. \/ rd'[l] = [r EXCEPT !.op = "idle", !.armed = FALSE, !.data = <<>>]
            \/ rd'[l] = [r EXCEPT !.expired = FALSE]
        BY <1>1, <1>4 DEF ReadCallback, ReadDeadline
      <3> QED BY <3>1, <3>2
    <2>3. \A k \in Loops : Range(rd'[k].data) \subseteq Range(rd[k].data)
      BY <1>3, <2>1, <2>2
    <2>4. UNCHANGED wr
      BY <1>4 DEF ReadCallback, ReadDeadline
    <2> QED BY <1>2, <2>3, <2>4 DEF OnTheWay
  <1>5. CASE WriteCallback(t, l) \/ WriteDeadline(t, l)
    <2>1. \A k \in Loops \ {l} : wr'[k] = wr[k]
      BY <1>1, <1>5 DEF WriteCallback, WriteDeadline
    <2>2. wr'[l].data = <<>> \/ wr'[l].data = wr[l].data
      <3> DEFINE r == wr[l]
      <3>1. /\ [r EXCEPT !.op = "idle", !.armed = FALSE, !.data = <<>>].data = <<>>
            /\ [r EXCEPT !.expired = FALSE].data = r.data
        BY <1>1 DEF LoopRec
      <3>2. \/ wr'[l] = [r EXCEPT !.op = "idle", !.armed = FALSE, !.data = <<>>]
            \/ wr'[l] = [r EXCEPT !.expired = FALSE]
        BY <1>1, <1>5 DEF WriteCallback, WriteDeadline
      <3> QED BY <3>1, <3>2
    <2>3. \A k \in Loops : Range(wr'[k].data) \subseteq Range(wr[k].data)
      BY <1>3, <2>1, <2>2
    <2>4. UNCHANGED rd
      BY <1>5 DEF WriteCallback, WriteDeadline
    <2> QED BY <1>2, <2>3, <2>4 DEF OnTheWay
  <1> QED BY <1>4, <1>5

\* Completions, the network and the server: chunks move on to the reader.
LEMMA EnvironmentTraffic ==
  ASSUME TypeOK, Completion \/ Expiry \/ Server \/ Fault
  PROVE  /\ OnTheWay' \subseteq OnTheWay
         /\ UNCHANGED todo /\ UNCHANGED <<authIDs, sendQueue, nextID, store, owns>>
  <1> USE DEF itemVars, queueVars, connVars, loopVars, setupVars, netVars, budgetVars, outsideVars
  <1>0. ASSUME NEW f \in [Loops -> LoopRec], NEW l \in Loops
        PROVE  /\ [f[l] EXCEPT !.op = "ok"].data = f[l].data
                /\ [f[l] EXCEPT !.op = "err"].data = f[l].data
                /\ [f[l] EXCEPT !.armed = FALSE, !.expired = TRUE].data = f[l].data
    <2>1. f[l] \in LoopRec
      OBVIOUS
    <2> QED BY <2>1 DEF LoopRec
  <1>1. UNCHANGED todo /\ UNCHANGED <<authIDs, sendQueue, nextID, store, owns>>
    BY DEF Completion, Expiry, Server, Fault, WriteCompletes, WriteFails, ReadCompletes, ReadFails,
           SetupCompletes, ReadExpires, WriteExpires, Respond, SetupFails, ConnectionLost
  <1>2. /\ rd \in [Loops -> LoopRec] /\ wr \in [Loops -> LoopRec] /\ wr \in [Loops -> WriteRec]
        /\ wire \in [Sockets -> Seq(IDs)] /\ owed \in [IDs -> OwedRec]
    BY DEF TypeOK, WriteRec
  <1>3. ASSUME NEW f \in [Loops -> LoopRec], NEW l \in Loops, NEW r, r.data = f[l].data,
               NEW k \in Loops
        PROVE  [f EXCEPT ![l] = r][k].data = f[k].data
    BY <1>3
  <1>4. ASSUME NEW l \in Loops, WriteCompletes(l) PROVE OnTheWay' \subseteq OnTheWay
    <2> DEFINE i == Head(wr[l].data)
    <2>1. \A k \in Loops : wr'[k].data = wr[k].data
      <3>1. wr' = [wr EXCEPT ![l] = [wr[l] EXCEPT !.op = "ok"]]
        BY <1>4 DEF WriteCompletes
      <3> DEFINE r == [wr[l] EXCEPT !.op = "ok"]
      <3>2. r.data = wr[l].data
        BY <1>2, <1>0
      <3> HIDE DEF r
      <3> QED BY <1>2, <1>3, <3>1, <3>2 DEF r
    <2>2. UNCHANGED <<rd, wire>>
      BY <1>4 DEF WriteCompletes
    <2>3. i \in IDs /\ i \in Range(wr[l].data)
      <3>1. wr[l] \in WriteRec /\ wr[l].op # "idle"
        BY <1>2, <1>4 DEF WriteCompletes
      <3>2. wr[l].data \in Seq(IDs) /\ wr[l].data # <<>>
        BY <3>1 DEF WriteRec, LoopRec
      <3> QED BY <3>2 DEF Range
    <2>4. \A j \in IDs : j # i => owed'[j] = owed[j]
      BY <1>2, <1>4 DEF WriteCompletes
    <2> HIDE DEF i
    <2> QED BY <2>1, <2>2, <2>3, <2>4 DEF OnTheWay
  <1>5. ASSUME NEW l \in Loops, ReadCompletes(l) PROVE OnTheWay' \subseteq OnTheWay
    <2> DEFINE s == rd[l].sock
    <2>1. PICK k \in 1 .. Len(wire[s]) :
            /\ rd' = [rd EXCEPT ![l] = [@ EXCEPT !.op = "ok", !.data = SubSeq(wire[s], 1, k)]]
            /\ wire' = [wire EXCEPT ![s] = SubSeq(@, k + 1, Len(@))]
      BY <1>5 DEF ReadCompletes
    <2>2. UNCHANGED <<wr, owed>>
      BY <1>5 DEF ReadCompletes
    <2>3. s \in Sockets /\ wire[s] \in Seq(IDs)
      <3>1. rd[l] \in LoopRec /\ rd[l].op # "idle"
        BY <1>2, <1>5 DEF ReadCompletes
      <3> QED BY <1>2, <3>1 DEF LoopRec
    <2>4. \A j \in Loops \ {l} : rd'[j] = rd[j]
      BY <1>2, <2>1
    <2>5. rd'[l].data = SubSeq(wire[s], 1, k)
      <3>1. rd[l] \in LoopRec
        BY <1>2
      <3> DEFINE r == rd[l]
                 d == SubSeq(wire[s], 1, k)
      <3>2. [r EXCEPT !.op = "ok", !.data = d].data = d
        BY <3>1 DEF LoopRec
      <3> QED BY <1>2, <2>1, <3>2
    <2>6. \A j \in Sockets \ {s} : wire'[j] = wire[j]
      BY <1>2, <2>1
    <2>7. wire'[s] = SubSeq(wire[s], k + 1, Len(wire[s]))
      BY <1>2, <2>1, <2>3
    <2> HIDE DEF s
    <2>8. Range(SubSeq(wire[s], 1, k)) \subseteq Range(wire[s])
      BY <2>1, <2>3 DEF Range
    <2>9. Range(SubSeq(wire[s], k + 1, Len(wire[s]))) \subseteq Range(wire[s])
      BY <2>1, <2>3 DEF Range
    <2>10. \A j \in Sockets : Range(wire'[j]) \subseteq Range(wire[j])
      BY <2>6, <2>7, <2>9
    <2>11. \A j \in Loops : Range(rd'[j].data) \subseteq Range(rd[j].data) \cup Range(wire[s])
      BY <2>4, <2>5, <2>8
    <2> QED BY <2>2, <2>3, <2>10, <2>11 DEF OnTheWay
  <1>6. ASSUME NEW i \in IDs, Respond(i) PROVE OnTheWay' \subseteq OnTheWay
    <2> DEFINE s == owed[i].sock
    <2>1. i \in OnTheWay
      BY <1>6 DEF Respond, OnTheWay
    <2>2. UNCHANGED <<rd, wr>>
      BY <1>6 DEF Respond
    <2>3. \A j \in IDs \ {i} : owed'[j] = owed[j]
      BY <1>2, <1>6 DEF Respond
    <2>4. ASSUME NEW j \in Sockets PROVE Range(wire'[j]) \subseteq Range(wire[j]) \cup {i}
      <3>1. wire[j] \in Seq(IDs)
        BY <1>2
      <3>2. wire'[j] = wire[j] \/ wire'[j] = Append(wire[j], i)
        BY <1>2, <1>6 DEF Respond
      <3>3. Range(Append(wire[j], i)) \subseteq Range(wire[j]) \cup {i}
        BY <3>1 DEF Range
      <3> QED BY <3>2, <3>3
    <2> QED BY <2>1, <2>2, <2>3, <2>4 DEF OnTheWay
  <1>7. ASSUME UNCHANGED <<wire, owed>>,
               \A l \in Loops : rd'[l].data = rd[l].data /\ wr'[l].data = wr[l].data
        PROVE  OnTheWay' \subseteq OnTheWay
    BY <1>7 DEF OnTheWay
  <1>8. ASSUME NEW l \in Loops, WriteFails(l) \/ ReadFails(l) \/ ReadExpires(l) \/ WriteExpires(l)
        PROVE  OnTheWay' \subseteq OnTheWay
    <2>1. CASE WriteFails(l)
      <3> DEFINE r == [wr[l] EXCEPT !.op = "err"]
      <3>1. wr' = [wr EXCEPT ![l] = r] /\ UNCHANGED <<rd, wire, owed>>
        BY <2>1 DEF WriteFails
      <3>2. r.data = wr[l].data
        BY <1>2, <1>0
      <3> HIDE DEF r
      <3> QED BY <1>2, <1>3, <1>7, <3>1, <3>2
    <2>2. CASE ReadFails(l)
      <3> DEFINE r == [rd[l] EXCEPT !.op = "err"]
      <3>1. rd' = [rd EXCEPT ![l] = r] /\ UNCHANGED <<wr, wire, owed>>
        BY <2>2 DEF ReadFails
      <3>2. r.data = rd[l].data
        BY <1>2, <1>0
      <3> HIDE DEF r
      <3> QED BY <1>2, <1>3, <1>7, <3>1, <3>2
    <2>3. CASE ReadExpires(l)
      <3> DEFINE r == [rd[l] EXCEPT !.armed = FALSE, !.expired = TRUE]
      <3>1. rd' = [rd EXCEPT ![l] = r] /\ UNCHANGED <<wr, wire, owed>>
        BY <2>3 DEF ReadExpires
      <3>2. r.data = rd[l].data
        BY <1>2, <1>0
      <3> HIDE DEF r
      <3> QED BY <1>2, <1>3, <1>7, <3>1, <3>2
    <2>4. CASE WriteExpires(l)
      <3> DEFINE r == [wr[l] EXCEPT !.armed = FALSE, !.expired = TRUE]
      <3>1. wr' = [wr EXCEPT ![l] = r] /\ UNCHANGED <<rd, wire, owed>>
        BY <2>4 DEF WriteExpires
      <3>2. r.data = wr[l].data
        BY <1>2, <1>0
      <3> HIDE DEF r
      <3> QED BY <1>2, <1>3, <1>7, <3>1, <3>2
    <2> QED BY <1>8, <2>1, <2>2, <2>3, <2>4
  <1>9. ASSUME NEW n \in Sockets, SetupCompletes(n) \/ SetupFails(n) \/ ConnectionLost(n)
        PROVE  OnTheWay' \subseteq OnTheWay
    BY <1>7, <1>9 DEF SetupCompletes, SetupFails, ConnectionLost
  <1>10. OnTheWay' \subseteq OnTheWay
    BY <1>4, <1>5, <1>6, <1>8, <1>9 DEF Completion, Expiry, Server, Fault
  <1> QED BY <1>1, <1>10

----------------------------------------------------------------------------
(* Every step keeps the invariant: the calls that are about no item.       *)

\* sendRequest's look at _connected, and startWriting.
LEMMA KeptByStartWriting ==
  ASSUME IndInv, TypeOK', NEW t \in Threads, CheckConnected(t) \/ StartWriting(t)
  PROVE  IndInv'
  <1> USE DEF itemVars, queueVars, connVars, loopVars, setupVars, netVars, budgetVars, outsideVars
  <1>1. todo[t] # <<>> /\ Now(t).op \notin HeadOps
    BY DEF CheckConnected, StartWriting, At, Now, HeadOps
  <1>2. Return(t) \/ \E a : a.op \notin ItemCalls /\ Then(t, <<a>>)
    BY DEF CheckConnected, StartWriting, Return, Plain, On, ItemCalls
  <1>3. OnTheWay' \subseteq Travelling
    BY RunTraffic DEF IndInv, Run, Writing
  <1>4. UNCHANGED <<authIDs, sendQueue, nextID, store, owns>>
    BY DEF CheckConnected, StartWriting
  <1> QED BY <1>1, <1>2, <1>3, <1>4, NeutralReturn

\* async_write.
LEMMA KeptByIssueWrite ==
  ASSUME IndInv, TypeOK', NEW t \in Threads, IssueWrite(t)
  PROVE  IndInv'
  <1> USE DEF itemVars, queueVars, connVars, loopVars, setupVars, netVars, budgetVars, outsideVars
  <1>1. todo[t] # <<>> /\ Now(t).op = "issueWrite" /\ Return(t)
    BY DEF IssueWrite, At, Now
  <1>2. OnTheWay' \subseteq Travelling
    BY RunTraffic DEF IndInv, Run, Writing
  <1>3. UNCHANGED <<authIDs, sendQueue, nextID, store, owns>>
    BY DEF IssueWrite
  <1> QED BY <1>1, <1>2, <1>3, NeutralReturn DEF HeadOps

\* startReading and readNextBytes.
LEMMA KeptByReadLoop ==
  ASSUME IndInv, TypeOK', NEW t \in Threads, StartReading(t) \/ ReadNextBytes(t) \/ IssueRead(t)
  PROVE  IndInv'
  <1> USE DEF itemVars, queueVars, connVars, loopVars, setupVars, netVars, budgetVars, outsideVars
  <1>1. todo[t] # <<>> /\ Now(t).op \notin HeadOps
    BY DEF StartReading, ReadNextBytes, IssueRead, At, Now, HeadOps
  <1>2. Return(t) \/ \E a : a.op \notin ItemCalls /\ Then(t, <<a>>)
    BY DEF StartReading, ReadNextBytes, IssueRead, On, ItemCalls
  <1>3. OnTheWay' \subseteq Travelling
    BY RunTraffic DEF IndInv, Run, Reading
  <1>4. UNCHANGED <<authIDs, sendQueue, nextID, store, owns>>
    BY DEF StartReading, ReadNextBytes, IssueRead
  <1> QED BY <1>1, <1>2, <1>3, <1>4, NeutralReturn

\* CallOnceRequestCallback::invoke.
LEMMA KeptByInvoke ==
  ASSUME IndInv, TypeOK', NEW t \in Threads, Invoke(t)
  PROVE  IndInv'
  <1> USE DEF itemVars, queueVars, connVars, loopVars, setupVars, netVars, budgetVars, outsideVars
  <1>1. todo[t] # <<>> /\ Now(t).op \notin HeadOps
    BY DEF Invoke, At, Now, HeadOps
  <1>2. Return(t) \/ \E a : a.op \notin ItemCalls /\ Then(t, <<a>>)
    BY DEF Invoke, Return, Plain, ItemCalls
  <1>3. UNCHANGED <<rd, wr, wire, owed>> /\ UNCHANGED <<authIDs, sendQueue, nextID, store, owns>>
    BY DEF Invoke
  <1> QED BY <1>1, <1>2, <1>3, SameTraffic, NeutralReturn

\* restartConnection, stopWriting, stopReading and startResolveHost.
LEMMA KeptByRestart ==
  ASSUME IndInv, TypeOK', NEW t \in Threads,
         RestartRead(t) \/ RestartWrite(t) \/ StopWriting(t) \/ StopReading(t) \/ ResolveAgain(t)
  PROVE  IndInv'
  <1> USE DEF itemVars, queueVars, connVars, loopVars, setupVars, netVars, budgetVars, outsideVars
  <1>1. todo[t] # <<>> /\ Now(t).op \notin HeadOps
    BY DEF RestartRead, RestartWrite, StopWriting, StopReading, ResolveAgain, At, Now, HeadOps
  <1>2. Return(t) \/ \E a : a.op \notin ItemCalls /\ Then(t, <<a>>)
    BY DEF RestartRead, RestartWrite, RestartOf, StopWriting, StopReading, ResolveAgain, Fail,
           ItemCalls
  <1>3. UNCHANGED <<rd, wr, wire, owed>> /\ UNCHANGED <<authIDs, sendQueue, nextID, store, owns>>
    BY DEF RestartRead, RestartWrite, RestartOf, StopWriting, StopReading, ResolveAgain
  <1> QED BY <1>1, <1>2, <1>3, SameTraffic, NeutralReturn

\* The calls of shutdownConnection are about no item.
LEMMA ShutdownNeutral ==
  ASSUME NEW e, NEW a, a.op \notin ItemCalls
  PROVE  \E S : /\ ShutdownCalls(e) \o <<a>> \in Seq(S)
                /\ \A c \in Range(ShutdownCalls(e) \o <<a>>) : c.op \notin ItemCalls
  <1> DEFINE T == {Plain("stopWriting"), Plain("stopReading"), Plain("shutdownSocket"),
                   Fail("cancelAll", 0, e), a}
  <1>1. ShutdownCalls(e) \in Seq(T) /\ <<a>> \in Seq(T)
    BY DEF ShutdownCalls
  <1>2. \A c \in T : c.op \notin ItemCalls
    BY DEF Plain, Fail, ItemCalls
  <1> HIDE DEF T
  <1>3. ShutdownCalls(e) \o <<a>> \in Seq(T)
    BY <1>1, ConcatProperties
  <1>4. Range(ShutdownCalls(e) \o <<a>>) \subseteq T
    BY <1>3 DEF Range
  <1> QED BY <1>2, <1>3, <1>4

\* restartConnection(error) and shutdownSocket.
LEMMA KeptByShutdown ==
  ASSUME IndInv, TypeOK', NEW t \in Threads, Restart(t) \/ ShutdownSocket(t)
  PROVE  IndInv'
  <1> USE DEF itemVars, queueVars, connVars, loopVars, setupVars, netVars, budgetVars, outsideVars
  <1>1. todo[t] # <<>> /\ Now(t).op \notin HeadOps
    BY DEF Restart, ShutdownSocket, At, Now, HeadOps
  <1>2. UNCHANGED <<authIDs, sendQueue, nextID, store, owns>>
    BY DEF Restart, ShutdownSocket
  <1>3. CASE Restart(t)
    <2>1. UNCHANGED <<rd, wr, wire, owed>>
      BY <1>3 DEF Restart
    <2>2. Plain("resolveAgain").op \notin ItemCalls
      BY DEF Plain, ItemCalls
    <2>3. Then(t, ShutdownCalls(Now(t).err) \o <<Plain("resolveAgain")>>)
      BY <1>3 DEF Restart
    <2>4. PICK S : /\ ShutdownCalls(Now(t).err) \o <<Plain("resolveAgain")>> \in Seq(S)
                   /\ \A c \in Range(ShutdownCalls(Now(t).err) \o <<Plain("resolveAgain")>>) :
                        c.op \notin ItemCalls
      BY <2>2, ShutdownNeutral
    <2> QED BY <1>1, <1>2, <2>1, <2>3, <2>4, SameTraffic, NeutralCall
  <1>4. CASE ShutdownSocket(t)
    <2>1. Return(t)
      BY <1>4 DEF ShutdownSocket
    <2>2. OnTheWay' \subseteq Travelling
      BY <1>4, RunTraffic DEF IndInv, Run, Restarting
    <2> QED BY <1>1, <1>2, <2>1, <2>2, NeutralReturn
  <1> QED BY <1>3, <1>4

\* The setup of a connection, apart from authentication.
LEMMA KeptByConnecting ==
  ASSUME IndInv, TypeOK', NEW t \in Threads, Connecting(t),
         ~Auth \/ ~InsertAuthenticationRequests(t)
  PROVE  IndInv'
  <1> USE DEF itemVars, queueVars, connVars, loopVars, setupVars, netVars, budgetVars, outsideVars
  <1>1. todo[t] # <<>> /\ Now(t).op \notin HeadOps /\ Return(t)
    BY DEF Connecting, InitSocket, StartSSLHandshake, FinishInitialization,
           InsertAuthenticationRequests, SetConnected, OnFailure, At, Now, HeadOps
  <1>2. UNCHANGED <<rd, wr, wire, owed>> /\ UNCHANGED <<authIDs, sendQueue, nextID, store, owns>>
    BY DEF Connecting, InitSocket, StartSSLHandshake, FinishInitialization,
           InsertAuthenticationRequests, SetConnected, OnFailure
  <1> QED BY <1>1, <1>2, SameTraffic, NeutralReturn

----------------------------------------------------------------------------
(* Calls and handlers that pass an item on.                                *)

\* A call about an item that travels makes further calls about that item.
LEMMA PassedOn ==
  ASSUME IndInv, NEW t \in Threads, todo[t] # <<>>, Now(t).op \notin HeadOps,
         NEW S, NEW calls \in Seq(S), Then(t, calls),
         \A c \in Range(calls) :
           c.op \in ItemCalls => /\ c.op \notin HeadOps /\ c.id = Now(t).id
                                 /\ Now(t).op \in HandledOps,
         UNCHANGED <<rd, wr, wire, owed>>
  PROVE  /\ SameHeadCalls
         /\ Travelling' \subseteq Travelling
         /\ \A i \in InCall(MoveOps)' :
              i \in InCall(MoveOps) \/ \E c \in Range(calls) : c.op \in MoveOps /\ c.id = i
  <1>1. todo \in [Threads -> Seq(Call)]
    BY DEF IndInv, TypeOK
  <1>2. /\ CallsOf(t)' = Range(calls) \cup Below(t)
        /\ Below(t)' \subseteq Range(calls) \cup Below(t)
        /\ \A u \in Threads \ {t} : CallsOf(u)' = CallsOf(u) /\ Below(u)' = Below(u)
    BY <1>1, StackThen
  <1>3. CallsOf(t) = {Now(t)} \cup Below(t)
    BY <1>1, StackSplit
  <1>4. \A u \in Threads : \A c \in Below(u) : c.op \notin HeadOps
    BY DEF IndInv, Locked
  <1>5. ASSUME NEW c \in Range(calls) PROVE c.op \notin HeadOps
    BY <1>5 DEF HeadOps, ItemCalls
  <1>6. SameHeadCalls
    <2>1. ASSUME NEW u \in Threads
          PROVE  /\ \A c \in CallsOf(u)' : c.op \in HeadOps => c \in CallsOf(u)
                 /\ \A c \in CallsOf(u) : c.op \in HeadOps => c \in CallsOf(u)'
                 /\ \A c \in Below(u)' : c.op \notin HeadOps
      <3>1. CASE u = t
        BY <1>2, <1>3, <1>4, <1>5, <3>1
      <3>2. CASE u # t
        BY <1>2, <1>4, <3>2
      <3> QED BY <3>1, <3>2
    <2> QED BY <2>1 DEF SameHeadCalls
  <1>7. ASSUME NEW ops, NEW i \in InCall(ops)'
        PROVE  i \in InCall(ops) \/ \E c \in Range(calls) : c.op \in ops /\ c.id = i
    <2>0. PICK u \in Threads : \E c \in CallsOf(u)' : c.id = i /\ c.op \in ops
      BY <1>7 DEF InCall
    <2>1. PICK c \in CallsOf(u)' : c.id = i /\ c.op \in ops
      BY <2>0
    <2>2. i \in IDs
      BY <1>7 DEF InCall
    <2>3. CASE u = t /\ c \in Range(calls)
      BY <2>1, <2>3
    <2>4. CASE c \in CallsOf(u)
      BY <2>1, <2>2, <2>4 DEF InCall
    <2> QED BY <1>2, <1>3, <2>1, <2>3, <2>4
  <1>8. Handled' \subseteq Handled
    <2>1. ASSUME NEW i \in Handled', i \notin Handled PROVE FALSE
      <3>1. i \in InCall(HandledOps)' /\ i \notin InCall(HandledOps)
        BY <2>1 DEF Handled
      <3>2. PICK c \in Range(calls) : c.op \in HandledOps /\ c.id = i
        BY <1>7, <3>1
      <3>3. i = Now(t).id /\ Now(t).op \in HandledOps
        BY <3>2 DEF HandledOps, ItemCalls
      <3> QED BY <1>1, <2>1, <3>3, HandledNow
    <2> QED BY <2>1
  <1>9. Travelling' \subseteq Travelling
    BY <1>8, SameTraffic DEF Travelling
  <1> QED BY <1>6, <1>7, <1>9

\* findByID, in processChunk.
LEMMA KeptByFindByID ==
  ASSUME IndInv, TypeOK', NEW t \in Threads, FindByID(t)
  PROVE  IndInv'
  <1> USE DEF itemVars, queueVars, connVars, loopVars, setupVars, netVars, budgetVars, outsideVars
  <1>1. todo[t] # <<>> /\ Now(t).op = "findByID"
    BY DEF FindByID, At, Now
  <1>2. UNCHANGED <<rd, wr, wire, owed>> /\ UNCHANGED <<authIDs, sendQueue, nextID, store, owns>>
    BY DEF FindByID
  <1>3. CASE Return(t)
    BY <1>1, <1>2, <1>3, SameTraffic, NeutralReturn DEF HeadOps
  <1>4. CASE Then(t, CompletedCalls(Now(t).id))
    <2> DEFINE a == Item("removeByID", Now(t).id, "ok")
    <2>1. a.op = "removeByID" /\ a.id = Now(t).id
      BY DEF Item
    <2>2. Then(t, <<a>>)
      BY <1>4 DEF CompletedCalls
    <2> HIDE DEF a
    <2>3. <<a>> \in Seq({a}) /\ Range(<<a>>) = {a}
      BY DEF Range
    <2>4. /\ SameHeadCalls /\ Travelling' \subseteq Travelling
          /\ \A i \in InCall(MoveOps)' :
               i \in InCall(MoveOps) \/ \E c \in Range(<<a>>) : c.op \in MoveOps /\ c.id = i
      BY <1>1, <1>2, <2>1, <2>2, <2>3, PassedOn DEF HeadOps, HandledOps
    <2>5. InCall(MoveOps)' \subseteq InCall(MoveOps)
      BY <2>1, <2>3, <2>4 DEF MoveOps
    <2> QED BY <1>2, <2>4, <2>5, CarryOver DEF IndInv, Ownership
  <1> QED BY <1>3, <1>4 DEF FindByID

\* MessageStore::removeByID.
LEMMA KeptByRemoveByID ==
  ASSUME IndInv, TypeOK', NEW t \in Threads, RemoveByID(t)
  PROVE  IndInv'
  <1> USE DEF itemVars, queueVars, connVars, loopVars, setupVars, netVars, budgetVars, outsideVars
  <1>1. todo[t] # <<>> /\ Now(t).op = "removeByID"
    BY DEF RemoveByID, At, Now
  <1>2. /\ UNCHANGED <<rd, wr, wire, owed>> /\ UNCHANGED <<authIDs, sendQueue, nextID, owns>>
        /\ store' = store \ {Now(t).id}
    BY DEF RemoveByID, Without
  <1> DEFINE a == Item("moveRequest", Now(t).id, Now(t).err)
  <1>3. a.op = "moveRequest" /\ a.id = Now(t).id
    BY DEF Item
  <1>4. Then(t, <<a>>)
    BY DEF RemoveByID
  <1> HIDE DEF a
  <1>5. <<a>> \in Seq({a}) /\ Range(<<a>>) = {a}
    BY DEF Range
  <1>6. /\ SameHeadCalls /\ Travelling' \subseteq Travelling
        /\ \A i \in InCall(MoveOps)' :
             i \in InCall(MoveOps) \/ \E c \in Range(<<a>>) : c.op \in MoveOps /\ c.id = i
    BY <1>1, <1>2, <1>3, <1>4, <1>5, PassedOn DEF HeadOps, HandledOps
  <1>7. InCall(MoveOps)' \subseteq
          InCall(MoveOps) \cup {Now(t).id}
    BY <1>3, <1>5, <1>6
  <1> QED BY <1>2, <1>6, <1>7, CarryOver DEF IndInv, Ownership

\* std::move(item->_request).
LEMMA KeptByMoveRequest ==
  ASSUME IndInv, TypeOK', NEW t \in Threads, MoveRequest(t)
  PROVE  IndInv'
  <1> USE DEF itemVars, queueVars, connVars, loopVars, setupVars, netVars, budgetVars, outsideVars
  <1>1. todo[t] # <<>> /\ Now(t).op = "moveRequest"
    BY DEF MoveRequest, At, Now
  <1>2. /\ UNCHANGED <<rd, wr, wire, owed>> /\ UNCHANGED <<authIDs, sendQueue, nextID, store>>
        /\ owns' = owns \ {Now(t).id}
    BY DEF MoveRequest
  <1> DEFINE a == [op |-> "invoke", on |-> 0, id |-> Now(t).id, err |-> Now(t).err,
                   held |-> Now(t).id \in owns]
  <1>3. a.op = "invoke" /\ a.id = Now(t).id
    OBVIOUS
  <1>4. Then(t, <<a>>)
    BY DEF MoveRequest
  <1> HIDE DEF a
  <1>5. <<a>> \in Seq({a}) /\ Range(<<a>>) = {a}
    BY DEF Range
  <1>6. /\ SameHeadCalls /\ Travelling' \subseteq Travelling
        /\ \A i \in InCall(MoveOps)' :
             i \in InCall(MoveOps) \/ \E c \in Range(<<a>>) : c.op \in MoveOps /\ c.id = i
    BY <1>1, <1>2, <1>3, <1>4, <1>5, PassedOn DEF HeadOps, HandledOps
  <1>7. Now(t).id \in InCall(MoveOps) /\ Now(t).id \in Travelling
    <2>1. todo \in [Threads -> Seq(Call)]
      BY DEF IndInv, TypeOK
    <2>2. Now(t).id \in IDs /\ Now(t).id \in Handled
      BY <1>1, <2>1, HandledNow DEF HandledOps
    <2>3. Now(t) \in CallsOf(t)
      BY <1>1, <2>1, StackSplit
    <2> QED BY <1>1, <2>2, <2>3 DEF InCall, Travelling, MoveOps
  <1>8. InCall(MoveOps)' \subseteq InCall(MoveOps)
    BY <1>3, <1>5, <1>6, <1>7
  <1> QED BY <1>2, <1>6, <1>7, <1>8, CarryOver DEF IndInv, Ownership, Separate

\* MessageStore::cancelAll.
LEMMA KeptByCancelAll ==
  ASSUME IndInv, TypeOK', NEW t \in Threads, CancelAll(t)
  PROVE  IndInv'
  <1> USE DEF itemVars, queueVars, connVars, loopVars, setupVars, netVars, budgetVars, outsideVars
  <1>1. todo[t] # <<>> /\ Now(t).op = "cancelAll"
    BY DEF CancelAll, At, Now
  <1>2. /\ UNCHANGED <<rd, wr, wire, owed>> /\ UNCHANGED <<authIDs, sendQueue, nextID>>
        /\ owns' = owns \ store /\ store' = {}
    BY DEF CancelAll
  <1>3. PICK calls \in {<<>>, <<Plain("onFailure")>>} : Then(t, calls)
    BY DEF CancelAll
  <1>4. /\ calls \in Seq({Plain("onFailure")})
        /\ \A c \in Range(calls) : c.op \notin ItemCalls
    <2>1. \A a : <<>> \in Seq({a}) /\ <<a>> \in Seq({a}) /\ Range(<<>>) = {} /\ Range(<<a>>) = {a}
      BY DEF Range
    <2>2. Plain("onFailure").op \notin ItemCalls
      BY DEF Plain, ItemCalls
    <2> QED BY <1>3, <2>1, <2>2
  <1>5. SameHeadCalls /\ Travelling' \subseteq Travelling
    BY <1>1, <1>2, <1>3, <1>4, PassedOn DEF HeadOps
  <1> QED BY <1>2, <1>5, CarryOver DEF IndInv, Ownership, Separate

----------------------------------------------------------------------------
(* The handlers of the io_service.                                         *)

\* A handler whose calls are about items on the way, at most.
LEMMA PassedToHandler ==
  ASSUME IndInv, TypeOK', NEW t \in Threads, todo[t] = <<>>,
         NEW S, NEW calls \in Seq(S), todo' = [todo EXCEPT ![t] = calls],
         \A c \in Range(calls) :
           c.op \in ItemCalls => c.op \in {"findByID", "removeByID"} /\ c.id \in OnTheWay,
         UNCHANGED <<authIDs, sendQueue, nextID, store, owns>>, OnTheWay' \subseteq OnTheWay
  PROVE  IndInv'
  <1>1. todo \in [Threads -> Seq(Call)]
    BY DEF IndInv, TypeOK
  <1>2. /\ CallsOf(t) = {} /\ CallsOf(t)' = Range(calls) /\ Below(t)' \subseteq Range(calls)
        /\ \A u \in Threads \ {t} : CallsOf(u)' = CallsOf(u) /\ Below(u)' = Below(u)
    BY <1>1, StackHandler
  <1>3. \A u \in Threads : \A c \in Below(u) : c.op \notin HeadOps
    BY DEF IndInv, Locked
  <1>4. \A c \in Range(calls) : c.op \notin HeadOps
    BY DEF HeadOps, ItemCalls
  <1>5. SameHeadCalls
    <2>1. ASSUME NEW u \in Threads
          PROVE  /\ \A c \in CallsOf(u)' : c.op \in HeadOps => c \in CallsOf(u)
                 /\ \A c \in CallsOf(u) : c.op \in HeadOps => c \in CallsOf(u)'
                 /\ \A c \in Below(u)' : c.op \notin HeadOps
      <3>1. CASE u = t
        BY <1>2, <1>4, <3>1
      <3>2. CASE u # t
        BY <1>2, <1>3, <3>2
      <3> QED BY <3>1, <3>2
    <2> QED BY <2>1 DEF SameHeadCalls
  <1>6. ASSUME NEW ops \in SUBSET ItemCalls, NEW i \in InCall(ops)'
        PROVE  i \in InCall(ops) \/ (i \in OnTheWay /\ ops \cap {"findByID", "removeByID"} # {})
    <2>0. PICK u \in Threads : \E c \in CallsOf(u)' : c.id = i /\ c.op \in ops
      BY <1>6 DEF InCall
    <2>1. PICK c \in CallsOf(u)' : c.id = i /\ c.op \in ops
      BY <2>0
    <2>2. i \in IDs
      BY <1>6 DEF InCall
    <2>3. CASE u = t
      BY <1>2, <2>1, <2>3
    <2>4. CASE u # t
      BY <1>2, <2>1, <2>2, <2>4 DEF InCall
    <2> QED BY <2>3, <2>4
  <1>7. Handled' \subseteq Travelling
    BY <1>6 DEF Handled, HandledOps, Travelling, ItemCalls
  <1>8. InCall(MoveOps)' \subseteq InCall(MoveOps)
    BY <1>6 DEF ItemCalls, MoveOps
  <1>9. Travelling' \subseteq Travelling
    BY <1>7 DEF Travelling
  <1> QED BY <1>5, <1>8, <1>9, CarryOver DEF IndInv, Ownership

\* asyncWriteCallback and the deadline of a write.
LEMMA KeptByWriteHandler ==
  ASSUME IndInv, TypeOK', NEW t \in Threads, NEW l \in Loops,
         WriteCallback(t, l) \/ WriteDeadline(t, l)
  PROVE  IndInv'
  <1> USE DEF itemVars, queueVars, connVars, loopVars, setupVars, netVars, budgetVars, outsideVars
  <1>1. todo[t] = <<>> /\ UNCHANGED <<authIDs, sendQueue, nextID, store, owns>>
    BY DEF WriteCallback, WriteDeadline, Idle
  <1>2. wr \in [Loops -> LoopRec] /\ wr[l] \in LoopRec /\ wr[l] \in WriteRec
    BY DEF IndInv, TypeOK, WriteRec
  <1>3. UNCHANGED <<rd, wire, owed>>
    BY DEF WriteCallback, WriteDeadline
  <1>4. OnTheWay' \subseteq OnTheWay
    BY HandlerTraffic DEF IndInv
  <1>5. CASE WriteCallback(t, l) /\ wr[l].op = "err"
    <2> DEFINE i == Head(wr[l].data)
               a == Item("removeByID", i, "VstWriteError")
               b == Fail("restartWrite", l, "VstWriteError")
    <2>1. i \in OnTheWay
      <3>1. wr[l].data \in Seq(IDs) /\ wr[l].data # <<>>
        BY <1>2, <1>5 DEF WriteRec, LoopRec
      <3>2. i \in IDs /\ i \in Range(wr[l].data)
        BY <3>1 DEF Range
      <3> QED BY <3>2 DEF OnTheWay
    <2>2. a.op = "removeByID" /\ a.id = i /\ b.op = "restartWrite"
      BY DEF Item, Fail
    <2>3. todo' = [todo EXCEPT ![t] = <<a, b>>]
      BY <1>5 DEF WriteCallback, FailedCalls
    <2> HIDE DEF i, a, b
    <2>4. <<a, b>> \in Seq({a, b}) /\ Range(<<a, b>>) = {a, b}
      BY DEF Range
    <2>5. \A c \in Range(<<a, b>>) :
            c.op \in ItemCalls => c.op \in {"findByID", "removeByID"} /\ c.id \in OnTheWay
      BY <2>1, <2>2, <2>4 DEF ItemCalls
    <2> QED BY <1>1, <1>4, <2>3, <2>4, <2>5, PassedToHandler
  <1>6. ASSUME NEW a, a.op \notin ItemCalls, todo' = [todo EXCEPT ![t] = <<a>>]
        PROVE  IndInv'
    <2>1. <<a>> \in Seq({a}) /\ Range(<<a>>) = {a}
      BY DEF Range
    <2> QED BY <1>1, <1>4, <1>6, <2>1, PassedToHandler
  <1>7. CASE WriteCallback(t, l) /\ wr[l].op = "ok"
    <2>1. On("front", l, TRUE).op \notin ItemCalls
      BY DEF On, ItemCalls
    <2>2. todo' = [todo EXCEPT ![t] = <<On("front", l, TRUE)>>]
      BY <1>7 DEF WriteCallback, WrittenCalls
    <2> QED BY <1>6, <2>1, <2>2
  <1>8. CASE WriteDeadline(t, l)
    <2>1. Fail("restartWrite", l, "Timeout").op \notin ItemCalls
      BY DEF Fail, ItemCalls
    <2> QED BY <1>6, <1>8, <2>1 DEF WriteDeadline
  <1> QED BY <1>5, <1>7, <1>8 DEF WriteCallback

\* asyncReadCallback and the deadline of a read.
LEMMA KeptByReadHandler ==
  ASSUME IndInv, TypeOK', NEW t \in Threads, NEW l \in Loops,
         ReadCallback(t, l) \/ ReadDeadline(t, l)
  PROVE  IndInv'
  <1> USE DEF itemVars, queueVars, connVars, loopVars, setupVars, netVars, budgetVars, outsideVars
  <1>1. todo[t] = <<>> /\ UNCHANGED <<authIDs, sendQueue, nextID, store, owns>>
    BY DEF ReadCallback, ReadDeadline, Idle
  <1>2. rd \in [Loops -> LoopRec] /\ rd[l] \in LoopRec
    BY DEF IndInv, TypeOK
  <1>3. UNCHANGED <<wr, wire, owed>>
    BY DEF ReadCallback, ReadDeadline
  <1>4. OnTheWay' \subseteq OnTheWay
    BY HandlerTraffic DEF IndInv
  <1>5. CASE ReadCallback(t, l) /\ rd[l].op = "ok"
    <2> DEFINE data == rd[l].data
               found == [k \in 1 .. Len(data) |-> Item("findByID", data[k], "ok")]
               b == On("readNextBytes", l, TRUE)
               T == {Item("findByID", i, "ok") : i \in Range(data)} \cup {b}
    <2>1. data \in Seq(IDs) /\ Len(data) \in Nat /\ DOMAIN data = 1 .. Len(data)
      BY <1>2 DEF LoopRec
    <2>2. \A i \in Range(data) : i \in OnTheWay
      <3>1. Range(data) \subseteq IDs
        BY <2>1 DEF Range
      <3> QED BY <3>1 DEF OnTheWay
    <2>3. \A c \in T : c.op \in ItemCalls =>
                         c.op \in {"findByID", "removeByID"} /\ c.id \in OnTheWay
      <3> HIDE DEF data
      <3> QED BY <2>2 DEF Item, On, ItemCalls
    <2>4. found \in Seq(T)
      <3>1. \A k \in 1 .. Len(data) : data[k] \in Range(data)
        BY <2>1 DEF Range
      <3> HIDE DEF data
      <3>2. \A k \in 1 .. Len(data) : found[k] \in T
        BY <3>1
      <3>3. found \in [1 .. Len(data) -> T]
        BY <3>2
      <3> HIDE DEF found, T
      <3> QED BY <2>1, <3>3, SeqDef
    <2>5. todo' = [todo EXCEPT ![t] = found \o <<b>>]
      BY <1>5 DEF ReadCallback
    <2>6. b \in T
      OBVIOUS
    <2> HIDE DEF found, b, T, data
    <2>7. <<b>> \in Seq(T)
      BY <2>6
    <2>8. found \o <<b>> \in Seq(T)
      BY <2>4, <2>7, ConcatProperties
    <2>9. Range(found \o <<b>>) \subseteq T
      BY <2>8 DEF Range
    <2> QED BY <1>1, <1>4, <2>3, <2>5, <2>8, <2>9, PassedToHandler
  <1>6. ASSUME NEW a, a.op \notin ItemCalls, todo' = [todo EXCEPT ![t] = <<a>>]
        PROVE  IndInv'
    <2>1. <<a>> \in Seq({a}) /\ Range(<<a>>) = {a}
      BY DEF Range
    <2> QED BY <1>1, <1>4, <1>6, <2>1, PassedToHandler
  <1>7. CASE ReadCallback(t, l) /\ rd[l].op = "err"
    <2>1. Fail("restartRead", l, "VstReadError").op \notin ItemCalls
      BY DEF Fail, ItemCalls
    <2> QED BY <1>6, <1>7, <2>1 DEF ReadCallback
  <1>8. CASE ReadDeadline(t, l)
    <2>1. Fail("restartRead", l, "Timeout").op \notin ItemCalls
      BY DEF Fail, ItemCalls
    <2> QED BY <1>6, <1>8, <2>1 DEF ReadDeadline
  <1> QED BY <1>5, <1>7, <1>8 DEF ReadCallback

\* The handlers of the setup of a connection.
LEMMA KeptBySetupHandler ==
  ASSUME IndInv, TypeOK', NEW t \in Threads, NEW n \in Sockets,
         \/ ResolveCallback(t, n) \/ AsyncConnectCallback(t, n)
         \/ HandshakeCallback(t, n) \/ HeaderCallback(t, n)
  PROVE  IndInv'
  <1> USE DEF itemVars, queueVars, connVars, loopVars, setupVars, netVars, budgetVars, outsideVars
  <1>1. /\ todo[t] = <<>> /\ UNCHANGED <<authIDs, sendQueue, nextID, store, owns>>
        /\ UNCHANGED <<rd, wr, wire, owed>>
    BY DEF ResolveCallback, AsyncConnectCallback, HandshakeCallback, HeaderCallback, Handles, Idle
  <1>2. ASSUME NEW S, NEW calls \in Seq(S), \A c \in Range(calls) : c.op \notin ItemCalls,
               todo' = [todo EXCEPT ![t] = calls]
        PROVE  IndInv'
    <2>1. OnTheWay' \subseteq OnTheWay
      BY <1>1 DEF OnTheWay
    <2> QED BY <1>1, <1>2, <2>1, PassedToHandler
  <1>3. ASSUME NEW T, \A c \in T : c.op \notin ItemCalls, NEW calls \in Seq(T),
               todo' = [todo EXCEPT ![t] = calls]
        PROVE  IndInv'
    <2>1. Range(calls) \subseteq T
      BY DEF Range
    <2> QED BY <1>2, <1>3, <2>1
  <1>4. CASE todo' = [todo EXCEPT ![t] = ShutdownCalls("CanceledDuringReset")
                                           \o <<Plain("onFailure")>>]
    <2>1. Plain("onFailure").op \notin ItemCalls
      BY DEF Plain, ItemCalls
    <2> DEFINE calls == ShutdownCalls("CanceledDuringReset") \o <<Plain("onFailure")>>
    <2>2. PICK S : calls \in Seq(S) /\ \A c \in Range(calls) : c.op \notin ItemCalls
      BY <2>1, ShutdownNeutral
    <2> HIDE DEF calls
    <2> QED BY <1>2, <1>4, <2>2 DEF calls
  <1>5. CASE ResolveCallback(t, n)
    <2> DEFINE T == {On("initSocket", n, FALSE), Plain("onFailure")}
    <2>1. \A c \in T : c.op \notin ItemCalls
      BY DEF On, Plain, ItemCalls
    <2>2. <<On("initSocket", n, FALSE)>> \in Seq(T) /\ <<Plain("onFailure")>> \in Seq(T)
      OBVIOUS
    <2> HIDE DEF T
    <2> QED BY <1>3, <1>5, <2>1, <2>2 DEF ResolveCallback, Handles
  <1>6. CASE AsyncConnectCallback(t, n)
    <2> DEFINE a == On(IF Ssl THEN "handshake" ELSE "finishInit", n, FALSE)
    <2>1. a.op \notin ItemCalls
      BY DEF On, ItemCalls
    <2>2. \/ todo' = [todo EXCEPT ![t] = <<a>>]
          \/ todo' = [todo EXCEPT ![t] = ShutdownCalls("CanceledDuringReset")
                                           \o <<Plain("onFailure")>>]
      BY <1>6 DEF AsyncConnectCallback, Handles
    <2> HIDE DEF a
    <2>3. <<a>> \in Seq({a}) /\ \A c \in {a} : c.op \notin ItemCalls
      BY <2>1
    <2> QED BY <1>3, <1>4, <2>2, <2>3
  <1>7. CASE HandshakeCallback(t, n)
    <2> DEFINE T == {On("finishInit", n, FALSE), Plain("shutdownSocket"), Plain("onFailure")}
    <2>1. \A c \in T : c.op \notin ItemCalls
      BY DEF On, Plain, ItemCalls
    <2>2. /\ <<On("finishInit", n, FALSE)>> \in Seq(T)
          /\ <<Plain("shutdownSocket"), Plain("onFailure")>> \in Seq(T)
      OBVIOUS
    <2> HIDE DEF T
    <2> QED BY <1>3, <1>7, <2>1, <2>2 DEF HandshakeCallback, Handles
  <1>8. CASE HeaderCallback(t, n)
    <2> DEFINE T == {Plain("insertAuth"), Plain("setConnected"), Plain("startWriting"),
                     Plain("startReading")}
               calls == <<Plain("insertAuth"), Plain("setConnected"),
                          Plain("startWriting"), Plain("startReading")>>
    <2>1. \A c \in T : c.op \notin ItemCalls
      BY DEF Plain, ItemCalls
    <2>2. calls \in Seq(T)
      OBVIOUS
    <2>3. \/ todo' = [todo EXCEPT ![t] = calls]
          \/ todo' = [todo EXCEPT ![t] = ShutdownCalls("CanceledDuringReset")
                                           \o <<Plain("onFailure")>>]
      BY <1>8 DEF HeaderCallback, Handles
    <2> HIDE DEF T, calls
    <2> QED BY <1>3, <1>4, <2>1, <2>2, <2>3
  <1> QED BY <1>5, <1>6, <1>7, <1>8

----------------------------------------------------------------------------
(* Completions, the network and the server, and the death of the process.  *)

\* Neither changes what is on the way to anybody but the next reader.
LEMMA KeptByEnvironment ==
  ASSUME IndInv, TypeOK', Completion \/ Expiry \/ Server \/ Fault
  PROVE  IndInv'
  BY EnvironmentTraffic, NeutralEnvironment DEF IndInv, Travelling

\* A dead process changes nothing any more.
LEMMA KeptByDying ==
  ASSUME IndInv, TypeOK', NEW t \in Threads, Dying(t)
  PROVE  IndInv'
  <1> USE DEF itemVars, queueVars, connVars, loopVars, setupVars, netVars, budgetVars, outsideVars
  <1>1. /\ UNCHANGED todo /\ UNCHANGED <<authIDs, sendQueue, nextID, store, owns>>
        /\ UNCHANGED <<rd, wr, wire, owed>>
    BY DEF Dying, DerefFreedLoop, DerefNullRequest, DerefNullSocket, AssertFails, Abort
  <1> QED BY <1>1, SameTraffic, NeutralEnvironment

----------------------------------------------------------------------------
(* From the user to the queue, and from the queue to the store.            *)

\* The stack of a thread whose call makes one further call.
LEMMA StackOne ==
  ASSUME todo \in [Threads -> Seq(Call)], NEW t \in Threads, todo[t] # <<>>,
         NEW a, Then(t, <<a>>)
  PROVE  /\ CallsOf(t)' = {a} \cup Below(t)
         /\ \A u \in Threads : Below(u)' = Below(u)
         /\ \A u \in Threads \ {t} : CallsOf(u)' = CallsOf(u)
  <1>1. <<a>> \in Seq({a}) /\ Range(<<a>>) = {a}
    BY DEF Range
  <1>2. /\ CallsOf(t)' = {a} \cup Below(t)
        /\ \A u \in Threads \ {t} : CallsOf(u)' = CallsOf(u) /\ Below(u)' = Below(u)
    BY <1>1, StackThen
  <1> DEFINE r == Tail(todo[t])
  <1>3. r \in Seq(Call) /\ Len(r) \in Nat /\ DOMAIN r = 1 .. Len(r)
    BY HeadTailProperties
  <1>4. Below(t) = {r[k] : k \in 1 .. Len(r)}
    BY <1>3, StackSplit DEF Range
  <1> HIDE DEF r
  <1>5. todo'[t] = <<a>> \o r
    BY DEF Then, r
  <1>6. /\ Len(<<a>> \o r) = Len(r) + 1
        /\ \A k \in 2 .. Len(r) + 1 : (<<a>> \o r)[k] = r[k - 1]
    <2> DEFINE U == {a} \cup Call
    <2>1. <<a>> \in Seq(U) /\ r \in Seq(U)
      BY <1>3
    <2> HIDE DEF U
    <2>2. /\ Len(<<a>> \o r) = Len(<<a>>) + Len(r)
          /\ \A k \in 1 .. Len(<<a>>) + Len(r) :
               (<<a>> \o r)[k] = IF k <= Len(<<a>>) THEN <<a>>[k] ELSE r[k - Len(<<a>>)]
      BY <2>1, ConcatProperties
    <2>3. Len(<<a>>) = 1
      OBVIOUS
    <2> QED BY <1>3, <2>2, <2>3
  <1>7. Below(t)' = {r[k - 1] : k \in 2 .. Len(r) + 1}
    BY <1>5, <1>6 DEF Below
  <1>8. {r[k - 1] : k \in 2 .. Len(r) + 1} = {r[k] : k \in 1 .. Len(r)}
    <2>1. ASSUME NEW k \in 1 .. Len(r) PROVE r[k] \in {r[j - 1] : j \in 2 .. Len(r) + 1}
      <3>1. k + 1 \in 2 .. Len(r) + 1 /\ (k + 1) - 1 = k
        BY <1>3
      <3> QED BY <3>1
    <2>2. ASSUME NEW k \in 2 .. Len(r) + 1 PROVE r[k - 1] \in {r[j] : j \in 1 .. Len(r)}
      <3>1. k - 1 \in 1 .. Len(r)
        BY <1>3
      <3> QED BY <3>1
    <2> QED BY <2>1, <2>2
  <1> QED BY <1>2, <1>4, <1>7, <1>8

\* sendRequest numbers a new item.
LEMMA KeptBySendRequest ==
  ASSUME IndInv, TypeOK', NEW t \in Threads, SendRequest(t)
  PROVE  IndInv'
  <1> USE DEF itemVars, queueVars, connVars, loopVars, setupVars, netVars, budgetVars, outsideVars
  <1> DEFINE n == nextID + 1
             a == Item("enqueue", n, "none")
             b == Plain("checkConnected")
  <1>1. /\ todo[t] = <<>>
        /\ UNCHANGED <<authIDs, sendQueue, store>> /\ UNCHANGED <<rd, wr, wire, owed>>
        /\ nextID' = n /\ owns' = owns \cup {n} /\ nextID < MaxID
        /\ todo' = [todo EXCEPT ![t] = <<a, b>>]
    BY DEF SendRequest, NewItem, SendCalls, Idle
  <1>2. a.op = "enqueue" /\ a.id = n /\ b.op = "checkConnected"
    BY DEF Item, Plain
  <1>3. nextID \in Nat /\ todo \in [Threads -> Seq(Call)]
    BY BoundsAssumption DEF IndInv, TypeOK
  <1>4. n \in IDs
    BY <1>1, <1>3, BoundsAssumption DEF IDs, MaxID
  <1> HIDE DEF a, b
  <1>5. <<a, b>> \in Seq({a, b}) /\ Range(<<a, b>>) = {a, b}
        /\ {<<a, b>>[k] : k \in 2 .. Len(<<a, b>>)} = {b}
    BY DEF Range
  <1>6. /\ CallsOf(t) = {} /\ CallsOf(t)' = {a, b} /\ Below(t)' = {b}
        /\ \A u \in Threads \ {t} : CallsOf(u)' = CallsOf(u) /\ Below(u)' = Below(u)
    BY <1>1, <1>3, <1>5, StackHandler
  <1>7. n \notin 1 .. nextID /\ 1 .. nextID' = 1 .. nextID \cup {n}
    BY <1>1, <1>3
  <1>8. InCall({"enqueue"})' = InCall({"enqueue"}) \cup {n}
    <2>1. ASSUME NEW i \in InCall({"enqueue"})' PROVE i \in InCall({"enqueue"}) \cup {n}
      BY <1>2, <1>6, <2>1 DEF InCall
    <2>2. ASSUME NEW i \in InCall({"enqueue"}) PROVE i \in InCall({"enqueue"})'
      BY <1>6, <2>2 DEF InCall
    <2>3. n \in InCall({"enqueue"})'
      BY <1>2, <1>4, <1>6 DEF InCall
    <2> QED BY <2>1, <2>2, <2>3
  <1>9. ASSUME NEW ops \in SUBSET ItemCalls, "enqueue" \notin ops PROVE InCall(ops)' = InCall(ops)
    <2>1. b.op \notin ItemCalls
      BY <1>2 DEF ItemCalls
    <2>2. ASSUME NEW i \in InCall(ops)' PROVE i \in InCall(ops)
      BY <1>2, <1>6, <1>9, <2>1, <2>2 DEF InCall
    <2>3. ASSUME NEW i \in InCall(ops) PROVE i \in InCall(ops)'
      BY <1>6, <2>3 DEF InCall
    <2> QED BY <2>2, <2>3
  <1>10. /\ InCall({"removeFirst"})' = InCall({"removeFirst"}) /\ InCall(LockOps)' = InCall(LockOps)
         /\ Handled' = Handled
         /\ InCall(MoveOps)' = InCall(MoveOps)
    BY <1>9 DEF ItemCalls, LockOps, MoveOps, Handled, HandledOps
  <1>11. Queued' = Queued /\ OnTheWay' = OnTheWay
    BY <1>1 DEF Queued, OnTheWay
  <1>12. Waiting' = Waiting \cup {n} /\ Travelling' = Travelling
    BY <1>8, <1>10, <1>11 DEF Waiting, Travelling
  <1>13. /\ n \notin Waiting /\ n \notin Queued /\ n \notin InCall({"enqueue"})
         /\ n \notin Travelling /\ n \notin store
    BY <1>7 DEF IndInv, Numbered, Waiting
  <1> HIDE DEF n
  <1>14. Numbered'
    BY <1>1, <1>7, <1>10, <1>12 DEF IndInv, Numbered
  <1>15. Locked'
    <2>1. \A u \in Threads : \A c \in Below(u)' : c.op \notin HeadOps
      BY <1>2, <1>6 DEF IndInv, Locked, HeadOps
    <2>2. \A u \in Threads : \A c \in CallsOf(u)' : c.op \in LockOps => c \in CallsOf(u)
      BY <1>2, <1>6 DEF LockOps
    <2> QED BY <1>1, <2>1, <2>2 DEF IndInv, Locked
  <1>16. QueuedOnce'
    <2>1. ASSUME NEW u \in Threads, NEW v \in Threads, NEW c \in CallsOf(u)',
                 NEW d \in CallsOf(v)', c.op = "enqueue", d.op = "enqueue", c.id = d.id
          PROVE  u = v
      <3>1. ASSUME NEW w \in Threads, w # t, NEW e \in CallsOf(w)', e.op = "enqueue" PROVE e.id # n
        <4>1. e \in CallsOf(w)
          BY <1>6, <3>1
        <4>2. e \in Call
          BY <1>3, <4>1 DEF CallsOf
        <4>3. e.id \in InCall({"enqueue"})
          BY <3>1, <4>1, <4>2 DEF InCall, Call, ItemCalls
        <4> QED BY <1>13, <4>3
      <3>2. ASSUME NEW e \in CallsOf(t)', e.op = "enqueue" PROVE e.id = n
        BY <1>2, <1>6, <3>2
      <3>3. CASE u # t /\ v # t
        BY <1>6, <2>1, <3>3 DEF IndInv, QueuedOnce
      <3> QED BY <2>1, <3>1, <3>2, <3>3
    <2> QED BY <1>1, <1>8, <1>11, <1>13, <2>1 DEF IndInv, QueuedOnce
  <1>17. Separate'
    BY <1>1, <1>10, <1>12, <1>13 DEF IndInv, Separate
  <1>18. Ownership'
    BY <1>1, <1>10, <1>12, <1>13 DEF IndInv, Ownership
  <1> QED BY <1>1, <1>14, <1>15, <1>16, <1>17, <1>18 DEF IndInv

\* What the queue holds after an append and after a removal.
LEMMA QueueOps ==
  ASSUME NEW q \in Seq(IDs)
  PROVE  /\ \A i \in IDs : Range(Append(q, i)) = Range(q) \cup {i}
         /\ q # <<>> => /\ Head(q) \in IDs /\ Head(q) \in Range(q)
                        /\ \A i \in IDs : Append(q, i) # <<>> /\ Head(Append(q, i)) = Head(q)
                        /\ Tail(q) \in Seq(IDs) /\ Range(Tail(q)) \subseteq Range(q)
                        /\ Range(q) \subseteq Range(Tail(q)) \cup {Head(q)}
  <1>1. Len(q) \in Nat /\ DOMAIN q = 1 .. Len(q)
    OBVIOUS
  <1>2. ASSUME NEW i \in IDs PROVE Range(Append(q, i)) = Range(q) \cup {i}
    <2>1. /\ DOMAIN Append(q, i) = 1 .. Len(q) + 1 /\ Append(q, i)[Len(q) + 1] = i
          /\ \A k \in 1 .. Len(q) : Append(q, i)[k] = q[k]
      OBVIOUS
    <2>2. 1 .. Len(q) + 1 = 1 .. Len(q) \cup {Len(q) + 1}
      BY <1>1
    <2> QED BY <1>1, <2>1, <2>2, Zenon DEF Range
  <1>3. ASSUME q # <<>>
        PROVE  /\ Head(q) \in IDs /\ Head(q) \in Range(q)
               /\ \A i \in IDs : Append(q, i) # <<>> /\ Head(Append(q, i)) = Head(q)
    BY <1>1, <1>3 DEF Range
  <1>4. ASSUME q # <<>>
        PROVE  /\ Tail(q) \in Seq(IDs) /\ Range(Tail(q)) \subseteq Range(q)
               /\ Range(q) \subseteq Range(Tail(q)) \cup {Head(q)}
    <2>1. /\ Tail(q) \in Seq(IDs) /\ DOMAIN Tail(q) = 1 .. Len(q) - 1
          /\ \A k \in 1 .. Len(q) - 1 : Tail(q)[k] = q[k + 1]
      BY <1>4, HeadTailProperties
    <2>2. ASSUME NEW x \in Range(q), x # Head(q) PROVE x \in Range(Tail(q))
      <3>1. PICK k \in 1 .. Len(q) : x = q[k]
        BY <1>1, <2>2 DEF Range
      <3>2. k # 1
        BY <1>4, <2>2, <3>1
      <3>3. k - 1 \in 1 .. Len(q) - 1 /\ Tail(q)[k - 1] = x
        BY <1>1, <2>1, <3>1, <3>2
      <3> QED BY <2>1, <3>3 DEF Range
    <2>3. ASSUME NEW x \in Range(Tail(q)) PROVE x \in Range(q)
      <3>1. PICK k \in 1 .. Len(q) - 1 : x = q[k + 1]
        BY <2>1, <2>3 DEF Range
      <3>2. k + 1 \in 1 .. Len(q)
        BY <1>1, <3>1
      <3> QED BY <1>1, <3>1, <3>2 DEF Range
    <2> QED BY <2>1, <2>2, <2>3
  <1> QED BY <1>2, <1>3, <1>4

\* The item goes to the end of the queue.
LEMMA KeptByEnqueue ==
  ASSUME IndInv, TypeOK', NEW t \in Threads, Enqueue(t)
  PROVE  IndInv'
  <1> USE DEF itemVars, queueVars, connVars, loopVars, setupVars, netVars, budgetVars, outsideVars
  <1> DEFINE n == Now(t).id
  <1>1. /\ todo[t] # <<>> /\ Now(t).op = "enqueue" /\ Then(t, <<>>)
        /\ UNCHANGED <<authIDs, nextID, store, owns>> /\ UNCHANGED <<rd, wr, wire, owed>>
        /\ sendQueue' = Append(sendQueue, n)
    BY DEF Enqueue, At, Now, Return
  <1>2. todo \in [Threads -> Seq(Call)] /\ sendQueue \in Seq(IDs) /\ Len(sendQueue) \in Nat
    BY DEF IndInv, TypeOK
  <1>3. <<>> \in Seq({}) /\ Range(<<>>) = {}
    BY DEF Range
  <1>4. /\ CallsOf(t)' = Below(t) /\ Below(t)' \subseteq Below(t)
        /\ \A u \in Threads \ {t} : CallsOf(u)' = CallsOf(u) /\ Below(u)' = Below(u)
    BY <1>1, <1>2, <1>3, StackThen
  <1>5. CallsOf(t) = {Now(t)} \cup Below(t)
    BY <1>1, <1>2, StackSplit
  <1>6. \A u \in Threads : \A c \in Below(u) : c.op \notin HeadOps
    BY DEF IndInv, Locked
  <1>7. n \in IDs /\ n \in InCall({"enqueue"})
    <2>1. Now(t) \in Call
      BY <1>1, <1>2, NowIsCall
    <2>2. n \in IDs
      BY <1>1, <2>1 DEF Call, ItemCalls
    <2> QED BY <1>1, <1>5, <2>2 DEF InCall
  <1>8. ASSUME NEW ops, "enqueue" \notin ops PROVE InCall(ops)' = InCall(ops)
    <2>1. ASSUME NEW i \in InCall(ops)' PROVE i \in InCall(ops)
      BY <1>4, <1>5, <2>1 DEF InCall
    <2>2. ASSUME NEW i \in InCall(ops) PROVE i \in InCall(ops)'
      BY <1>1, <1>4, <1>5, <1>8, <2>2 DEF InCall
    <2> QED BY <2>1, <2>2
  <1>9. InCall({"enqueue"})' = InCall({"enqueue"}) \ {n}
    <2>1. ASSUME NEW i \in InCall({"enqueue"})' PROVE i \in InCall({"enqueue"}) \ {n}
      <3>0. PICK u \in Threads : \E c \in CallsOf(u)' : c.id = i /\ c.op = "enqueue"
        BY <2>1 DEF InCall
      <3>1. PICK c \in CallsOf(u)' : c.id = i /\ c.op = "enqueue"
        BY <3>0
      <3>2. u # t
        BY <1>4, <1>6, <3>1 DEF HeadOps
      <3>3. c \in CallsOf(u)
        BY <1>4, <3>1, <3>2
      <3>4. i # n
        BY <1>1, <1>5, <3>1, <3>2, <3>3 DEF IndInv, QueuedOnce
      <3> QED BY <2>1, <3>1, <3>3, <3>4 DEF InCall
    <2>2. ASSUME NEW i \in InCall({"enqueue"}), i # n PROVE i \in InCall({"enqueue"})'
      <3>0. PICK u \in Threads : \E c \in CallsOf(u) : c.id = i /\ c.op = "enqueue"
        BY <2>2 DEF InCall
      <3>1. PICK c \in CallsOf(u) : c.id = i /\ c.op = "enqueue"
        BY <3>0
      <3>2. c \in CallsOf(u)'
        BY <1>4, <1>5, <2>2, <3>1
      <3> QED BY <2>2, <3>1, <3>2 DEF InCall
    <2> QED BY <2>1, <2>2
  <1>10. /\ InCall({"removeFirst"})' = InCall({"removeFirst"}) /\ InCall(LockOps)' = InCall(LockOps)
         /\ Handled' = Handled
         /\ InCall(MoveOps)' = InCall(MoveOps)
    BY <1>8 DEF LockOps, MoveOps, Handled, HandledOps
  <1>11. Queued' = Queued \cup {n} /\ OnTheWay' = OnTheWay
    <2>1. Queued = Range(sendQueue) /\ Queued' = Range(sendQueue')
      BY DEF Queued, Range
    <2> QED BY <1>1, <1>2, <1>7, <2>1, QueueOps DEF OnTheWay
  <1>12. Waiting' = Waiting /\ Travelling' = Travelling
    BY <1>7, <1>9, <1>10, <1>11 DEF Waiting, Travelling
  <1>13. n \notin Queued
    BY <1>7 DEF IndInv, QueuedOnce
  <1>14. \A u \in Threads : \A c \in CallsOf(u)' : c \in CallsOf(u)
    BY <1>4, <1>5
  <1> HIDE DEF n
  <1>15. Numbered'
    BY <1>1, <1>10, <1>12 DEF IndInv, Numbered
  <1>16. Locked'
    <2>1. \A u \in Threads : \A c \in Below(u)' : c.op \notin HeadOps
      BY <1>4, <1>6
    <2>2. sendQueue # <<>> => sendQueue' # <<>> /\ Head(sendQueue') = Head(sendQueue)
      BY <1>1, <1>2, <1>7, QueueOps
    <2> QED BY <1>14, <2>1, <2>2 DEF IndInv, Locked
  <1>17. QueuedOnce'
    <2>1. ASSUME NEW j \in DOMAIN sendQueue', NEW k \in DOMAIN sendQueue',
                 sendQueue'[j] = sendQueue'[k]
          PROVE  j = k
      <3>1. /\ DOMAIN sendQueue = 1 .. Len(sendQueue)
            /\ DOMAIN sendQueue' = 1 .. Len(sendQueue) + 1
            /\ sendQueue'[Len(sendQueue) + 1] = n
            /\ \A m \in 1 .. Len(sendQueue) : sendQueue'[m] = sendQueue[m]
        BY <1>1, <1>2, <1>7
      <3>2. \A m \in 1 .. Len(sendQueue) : sendQueue[m] # n
        BY <1>13, <3>1 DEF Queued
      <3>3. \A m, o \in 1 .. Len(sendQueue) : sendQueue[m] = sendQueue[o] => m = o
        BY <3>1 DEF IndInv, QueuedOnce
      <3>4. \A m \in DOMAIN sendQueue' : m \in 1 .. Len(sendQueue) \/ m = Len(sendQueue) + 1
        BY <1>2, <3>1
      <3> QED BY <2>1, <3>1, <3>2, <3>3, <3>4
    <2> QED BY <1>9, <1>11, <1>14, <2>1 DEF IndInv, QueuedOnce
  <1>18. Separate' /\ Ownership'
    BY <1>1, <1>10, <1>12 DEF IndInv, Separate, Ownership
  <1> QED BY <1>1, <1>15, <1>16, <1>17, <1>18 DEF IndInv

\* Facts about the item that getNextRequestToSend is handing over.
LEMMA LockHolder ==
  ASSUME IndInv, NEW t \in Threads, todo[t] # <<>>, Now(t).op \in LockOps
  PROVE  /\ sendQueue # <<>> /\ Now(t).id = Head(sendQueue)
         /\ Now(t).id \in IDs /\ Now(t).id \in Queued /\ Now(t).id \in Waiting
         /\ \A u \in Threads : \A c \in CallsOf(u) : c.op \in LockOps => u = t /\ c = Now(t)
         /\ InCall({Now(t).op}) = {Now(t).id}
         /\ \A op \in LockOps : op # Now(t).op => InCall({op}) = {}
  <1>1. todo \in [Threads -> Seq(Call)] /\ sendQueue \in Seq(IDs)
    BY DEF IndInv, TypeOK
  <1>2. CallsOf(t) = {Now(t)} \cup Below(t)
    BY <1>1, StackSplit
  <1>3. sendQueue # <<>> /\ Now(t).id = Head(sendQueue)
    BY <1>2 DEF IndInv, Locked
  <1>4. Now(t).id \in IDs /\ Now(t).id \in Queued
    <2>1. Queued = Range(sendQueue)
      BY DEF Queued, Range
    <2> QED BY <1>1, <1>3, <2>1, QueueOps
  <1>5. ASSUME NEW u \in Threads, NEW c \in CallsOf(u), c.op \in LockOps
        PROVE  u = t /\ c = Now(t)
    <2>1. u = t
      BY <1>2, <1>5 DEF IndInv, Locked
    <2>2. c \notin Below(t)
      BY <1>5 DEF IndInv, Locked, HeadOps, LockOps
    <2> QED BY <1>2, <1>5, <2>1, <2>2
  <1>6. InCall({Now(t).op}) = {Now(t).id}
    <2>1. ASSUME NEW i \in InCall({Now(t).op}) PROVE i = Now(t).id
      BY <1>5, <2>1 DEF InCall
    <2>2. Now(t).id \in InCall({Now(t).op})
      BY <1>2, <1>4 DEF InCall
    <2> QED BY <2>1, <2>2
  <1>7. ASSUME NEW op \in LockOps, op # Now(t).op PROVE InCall({op}) = {}
    BY <1>5, <1>7 DEF InCall
  <1> QED BY <1>3, <1>4, <1>5, <1>6, <1>7 DEF Waiting

\* getNextRequestToSend takes the write loop's mutex and the first item.
LEMMA KeptByFront ==
  ASSUME IndInv, TypeOK', NEW t \in Threads, Front(t)
  PROVE  IndInv'
  <1> USE DEF itemVars, queueVars, connVars, loopVars, setupVars, netVars, budgetVars, outsideVars
  <1>1. /\ todo[t] # <<>> /\ Now(t).op = "front" /\ WriteMutexFree
        /\ UNCHANGED <<authIDs, sendQueue, nextID, store, owns>> /\ UNCHANGED <<rd, wr, wire, owed>>
    BY DEF Front, At, Now
  <1>2. CASE Return(t)
    BY <1>1, <1>2, SameTraffic, NeutralReturn DEF HeadOps
  <1>3. CASE /\ sendQueue # <<>>
             /\ Then(t, <<Send("addToStore", Now(t).on, Head(sendQueue), Now(t).held)>>)
    <2> DEFINE n == Head(sendQueue)
               a == Send("addToStore", Now(t).on, n, Now(t).held)
    <2>1. a.op = "addToStore" /\ a.id = n
      BY DEF Send
    <2>2. Then(t, <<a>>)
      BY <1>3
    <2>3. todo \in [Threads -> Seq(Call)] /\ sendQueue \in Seq(IDs)
      BY DEF IndInv, TypeOK
    <2> HIDE DEF a
    <2>4. /\ CallsOf(t)' = {a} \cup Below(t)
          /\ \A u \in Threads : Below(u)' = Below(u)
          /\ \A u \in Threads \ {t} : CallsOf(u)' = CallsOf(u)
      BY <1>1, <2>2, <2>3, StackOne
    <2>5. CallsOf(t) = {Now(t)} \cup Below(t)
      BY <1>1, <2>3, StackSplit
    <2>6. ASSUME NEW u \in Threads, NEW c \in CallsOf(u) PROVE c.op \notin LockOps
      <3>1. todo[u] # <<>>
        BY <2>6 DEF CallsOf
      <3>2. CallsOf(u) = {Now(u)} \cup Below(u)
        BY <2>3, <3>1, StackSplit
      <3>3. Now(u).op \notin LockOps
        BY <1>1, <3>1 DEF WriteMutexFree, LockOps
      <3> QED BY <2>6, <3>2, <3>3 DEF IndInv, Locked, HeadOps, LockOps
    <2>7. ASSUME NEW u \in Threads, NEW c \in CallsOf(u)', c.op \in LockOps PROVE u = t /\ c = a
      BY <2>4, <2>5, <2>6, <2>7
    <2>8. n \in IDs /\ n \in Queued
      <3>1. Queued = Range(sendQueue)
        BY DEF Queued, Range
      <3> QED BY <1>3, <2>3, <3>1, QueueOps
    <2>9. ASSUME NEW ops \in SUBSET ItemCalls, "addToStore" \notin ops
          PROVE  InCall(ops)' = InCall(ops)
      <3>1. Now(t).op \notin ops
        BY <1>1 DEF ItemCalls
      <3>2. ASSUME NEW i \in InCall(ops)' PROVE i \in InCall(ops)
        BY <2>1, <2>4, <2>5, <2>9, <3>2 DEF InCall
      <3>3. ASSUME NEW i \in InCall(ops) PROVE i \in InCall(ops)'
        BY <2>4, <2>5, <3>1, <3>3 DEF InCall
      <3> QED BY <3>2, <3>3
    <2>10. /\ InCall({"removeFirst"})' = InCall({"removeFirst"})
           /\ InCall({"enqueue"})' = InCall({"enqueue"})
           /\ InCall(MoveOps)' = InCall(MoveOps) /\ Handled' = Handled
      BY <2>9 DEF ItemCalls, MoveOps, Handled, HandledOps
    <2>11. InCall(LockOps)' \subseteq {n}
      BY <2>1, <2>7 DEF InCall
    <2>12. Queued' = Queued /\ OnTheWay' = OnTheWay
      BY <1>1 DEF Queued, OnTheWay
    <2>13. Waiting' = Waiting /\ Travelling' = Travelling /\ n \in Waiting
      BY <2>8, <2>10, <2>12 DEF Waiting, Travelling
    <2>14. Numbered'
      BY <1>1, <2>11, <2>13 DEF IndInv, Numbered
    <2>15. Locked'
      <3>1. \A u \in Threads : \A c \in Below(u)' : c.op \notin HeadOps
        BY <2>4 DEF IndInv, Locked
      <3> QED BY <1>1, <1>3, <2>1, <2>7, <3>1 DEF Locked
    <2>16. QueuedOnce'
      <3>1. \A u \in Threads : \A c \in CallsOf(u)' : c.op = "enqueue" => c \in CallsOf(u)
        BY <2>1, <2>4, <2>5
      <3> QED BY <1>1, <2>10, <2>12, <3>1 DEF IndInv, QueuedOnce
    <2>17. Separate' /\ Ownership'
      BY <1>1, <2>10, <2>13 DEF IndInv, Separate, Ownership
    <2> QED BY <1>1, <2>14, <2>15, <2>16, <2>17 DEF IndInv
  <1> QED BY <1>2, <1>3 DEF Front

\* The item is stored while it is still the first of the queue.
LEMMA KeptByAddToStore ==
  ASSUME IndInv, TypeOK', NEW t \in Threads, AddToStore(t)
  PROVE  IndInv'
  <1> USE DEF itemVars, queueVars, connVars, loopVars, setupVars, netVars, budgetVars, outsideVars
  <1> DEFINE n == Now(t).id
             a == Send("removeFirst", Now(t).on, n, Now(t).held)
  <1>1. /\ todo[t] # <<>> /\ Now(t).op = "addToStore" /\ Then(t, <<a>>)
        /\ UNCHANGED <<authIDs, sendQueue, nextID, owns>> /\ UNCHANGED <<rd, wr, wire, owed>>
        /\ store' = store \cup {n}
    BY DEF AddToStore, At, Now
  <1>2. a.op = "removeFirst" /\ a.id = n
    BY DEF Send
  <1>3. todo \in [Threads -> Seq(Call)]
    BY DEF IndInv, TypeOK
  <1> HIDE DEF a
  <1>4. /\ CallsOf(t)' = {a} \cup Below(t)
        /\ \A u \in Threads : Below(u)' = Below(u)
        /\ \A u \in Threads \ {t} : CallsOf(u)' = CallsOf(u)
    BY <1>1, <1>3, StackOne
  <1>5. CallsOf(t) = {Now(t)} \cup Below(t)
    BY <1>1, <1>3, StackSplit
  <1>6. /\ sendQueue # <<>> /\ n = Head(sendQueue) /\ n \in IDs /\ n \in Queued /\ n \in Waiting
        /\ \A u \in Threads : \A c \in CallsOf(u) : c.op \in LockOps => u = t /\ c = Now(t)
        /\ InCall({"removeFirst"}) = {}
    BY <1>1, LockHolder DEF LockOps
  <1>7. \A u \in Threads : \A c \in Below(u) : c.op \notin HeadOps
    BY DEF IndInv, Locked
  <1>8. ASSUME NEW u \in Threads, NEW c \in CallsOf(u)', c.op \in LockOps PROVE u = t /\ c = a
    <2>1. CASE u # t
      BY <1>4, <1>6, <1>8, <2>1
    <2>2. CASE u = t
      BY <1>4, <1>7, <1>8, <2>2 DEF LockOps, HeadOps
    <2> QED BY <2>1, <2>2
  <1>9. ASSUME NEW ops \in SUBSET ItemCalls, ops \cap LockOps = {} PROVE InCall(ops)' = InCall(ops)
    <2>1. Now(t).op \notin ops /\ a.op \notin ops
      BY <1>1, <1>2, <1>9 DEF LockOps
    <2>2. ASSUME NEW i \in InCall(ops)' PROVE i \in InCall(ops)
      BY <1>4, <1>5, <2>1, <2>2 DEF InCall
    <2>3. ASSUME NEW i \in InCall(ops) PROVE i \in InCall(ops)'
      BY <1>4, <1>5, <2>1, <2>3 DEF InCall
    <2> QED BY <2>2, <2>3
  <1>10. /\ InCall({"enqueue"})' = InCall({"enqueue"})
         /\ InCall(MoveOps)' = InCall(MoveOps) /\ Handled' = Handled
    BY <1>9 DEF ItemCalls, MoveOps, LockOps, Handled, HandledOps
  <1>11. InCall({"removeFirst"})' = {n} /\ InCall(LockOps)' \subseteq {n}
    <2>1. n \in InCall({"removeFirst"})'
      BY <1>2, <1>4, <1>6 DEF InCall
    <2>2. InCall(LockOps)' \subseteq {n}
      BY <1>2, <1>8 DEF InCall
    <2>3. InCall({"removeFirst"})' \subseteq InCall(LockOps)'
      BY DEF InCall, LockOps
    <2> QED BY <2>1, <2>2, <2>3
  <1>12. Queued' = Queued /\ OnTheWay' = OnTheWay
    BY <1>1 DEF Queued, OnTheWay
  <1>13. Waiting' = Waiting /\ Travelling' = Travelling
    BY <1>10, <1>12 DEF Waiting, Travelling
  <1>14. n \notin InCall(MoveOps)
    <2>1. InCall(MoveOps) \subseteq Travelling
      BY DEF InCall, MoveOps, Handled, HandledOps, Travelling
    <2> QED BY <1>6, <2>1 DEF IndInv, Separate
  <1> HIDE DEF n
  <1>15. Numbered'
    BY <1>1, <1>6, <1>11, <1>13 DEF IndInv, Numbered
  <1>16. Locked'
    BY <1>1, <1>2, <1>4, <1>6, <1>7, <1>8 DEF Locked
  <1>17. QueuedOnce'
    <2>1. \A u \in Threads : \A c \in CallsOf(u)' : c.op = "enqueue" => c \in CallsOf(u)
      BY <1>2, <1>4, <1>5
    <2> QED BY <1>1, <1>10, <1>12, <2>1 DEF IndInv, QueuedOnce
  <1>18. Separate'
    BY <1>1, <1>6, <1>11, <1>13 DEF IndInv, Separate
  <1>19. Ownership'
    BY <1>1, <1>6, <1>10, <1>11, <1>13, <1>14 DEF IndInv, Ownership
  <1> QED BY <1>1, <1>15, <1>16, <1>17, <1>18, <1>19 DEF IndInv

\* The item leaves the queue and goes to the network.
LEMMA KeptByRemoveFirst ==
  ASSUME IndInv, TypeOK', NEW t \in Threads, RemoveFirst(t)
  PROVE  IndInv'
  <1> USE DEF itemVars, queueVars, connVars, loopVars, setupVars, netVars, budgetVars, outsideVars
  <1> DEFINE n == Now(t).id
             a == Plain("startReading")
             b == Send("issueWrite", Now(t).on, n, Now(t).held)
  <1>1. /\ todo[t] # <<>> /\ Now(t).op = "removeFirst" /\ Then(t, <<a, b>>)
        /\ UNCHANGED <<authIDs, nextID, store, owns>> /\ UNCHANGED <<rd, wr, wire, owed>>
        /\ sendQueue' = Tail(sendQueue)
    BY DEF RemoveFirst, WriteCallsFor, At, Now
  <1>2. a.op = "startReading" /\ b.op = "issueWrite" /\ b.id = n
    BY DEF Plain, Send
  <1>3. todo \in [Threads -> Seq(Call)] /\ sendQueue \in Seq(IDs)
    BY DEF IndInv, TypeOK
  <1> HIDE DEF a, b
  <1>4. <<a, b>> \in Seq({a, b}) /\ Range(<<a, b>>) = {a, b}
    BY DEF Range
  <1>5. /\ CallsOf(t)' = {a, b} \cup Below(t) /\ Below(t)' \subseteq {a, b} \cup Below(t)
        /\ \A u \in Threads \ {t} : CallsOf(u)' = CallsOf(u) /\ Below(u)' = Below(u)
    BY <1>1, <1>3, <1>4, StackThen
  <1>6. CallsOf(t) = {Now(t)} \cup Below(t)
    BY <1>1, <1>3, StackSplit
  <1>7. /\ sendQueue # <<>> /\ n = Head(sendQueue) /\ n \in IDs /\ n \in Queued /\ n \in Waiting
        /\ \A u \in Threads : \A c \in CallsOf(u) : c.op \in LockOps => u = t /\ c = Now(t)
        /\ InCall({"removeFirst"}) = {n}
    BY <1>1, LockHolder DEF LockOps
  <1>8. \A u \in Threads : \A c \in Below(u) : c.op \notin HeadOps
    BY DEF IndInv, Locked
  <1>9. ASSUME NEW u \in Threads, NEW c \in CallsOf(u)' PROVE c.op \notin LockOps
    <2>1. CASE u # t
      BY <1>5, <1>7, <2>1
    <2>2. CASE u = t
      BY <1>2, <1>5, <1>8, <2>2 DEF LockOps, HeadOps
    <2> QED BY <2>1, <2>2
  <1>10. InCall({"removeFirst"})' = {} /\ InCall(LockOps)' = {}
    BY <1>9 DEF InCall, LockOps
  <1>11. ASSUME NEW ops \in SUBSET ItemCalls, NEW i \in InCall(ops)'
         PROVE  i \in InCall(ops) \/ (i = n /\ "issueWrite" \in ops)
    <2>1. a.op \notin ops
      BY <1>2 DEF ItemCalls
    <2> QED BY <1>2, <1>5, <1>6, <1>11, <2>1 DEF InCall
  <1>12. InCall({"enqueue"})' = InCall({"enqueue"})
    <2>1. InCall({"enqueue"})' \subseteq InCall({"enqueue"})
      BY <1>11 DEF ItemCalls
    <2>2. ASSUME NEW i \in InCall({"enqueue"}) PROVE i \in InCall({"enqueue"})'
      BY <1>1, <1>5, <1>6, <2>2 DEF InCall
    <2> QED BY <2>1, <2>2
  <1>13. InCall(MoveOps)' \subseteq InCall(MoveOps) /\ Handled' \subseteq Handled \cup {n}
    BY <1>11 DEF ItemCalls, MoveOps, Handled, HandledOps
  <1>14. OnTheWay' = OnTheWay
    BY <1>1 DEF OnTheWay
  <1>15. Queued' = Queued \ {n}
    <2>1. Queued = Range(sendQueue) /\ Queued' = Range(sendQueue')
      BY DEF Queued, Range
    <2>2. Range(sendQueue') \subseteq Range(sendQueue)
          /\ Range(sendQueue) \subseteq Range(sendQueue') \cup {n}
      BY <1>1, <1>3, <1>7, QueueOps
    <2>3. n \notin Range(sendQueue')
      <3>1. /\ Len(sendQueue) \in Nat /\ DOMAIN sendQueue = 1 .. Len(sendQueue)
            /\ DOMAIN sendQueue' = 1 .. Len(sendQueue) - 1 /\ sendQueue[1] = n
            /\ \A k \in 1 .. Len(sendQueue) - 1 : sendQueue'[k] = sendQueue[k + 1]
        BY <1>1, <1>3, <1>7, HeadTailProperties
      <3>2. ASSUME NEW k \in 1 .. Len(sendQueue) - 1 PROVE sendQueue'[k] # n
        <4>1. k + 1 \in DOMAIN sendQueue /\ 1 \in DOMAIN sendQueue /\ k + 1 # 1
          BY <3>1
        <4>2. sendQueue[k + 1] # sendQueue[1]
          BY <4>1 DEF IndInv, QueuedOnce
        <4> QED BY <3>1, <4>2
      <3> QED BY <3>1, <3>2 DEF Range
    <2> QED BY <2>1, <2>2, <2>3
  <1>16. n \notin InCall({"enqueue"})
    BY <1>7 DEF IndInv, QueuedOnce
  <1>17. Waiting' = Waiting \ {n} /\ Travelling' \subseteq Travelling \cup {n}
    BY <1>12, <1>13, <1>14, <1>15, <1>16 DEF Waiting, Travelling
  <1> HIDE DEF n
  <1>18. Numbered'
    BY <1>1, <1>7, <1>10, <1>17 DEF IndInv, Numbered
  <1>19. Locked'
    <2>1. \A u \in Threads : \A c \in Below(u)' : c.op \notin HeadOps
      BY <1>2, <1>5, <1>8 DEF HeadOps
    <2> QED BY <1>9, <2>1 DEF Locked
  <1>20. QueuedOnce'
    <2>1. \A u \in Threads : \A c \in CallsOf(u)' : c.op = "enqueue" => c \in CallsOf(u)
      BY <1>2, <1>5, <1>6
    <2>2. ASSUME NEW j \in DOMAIN sendQueue', NEW k \in DOMAIN sendQueue',
                 sendQueue'[j] = sendQueue'[k]
          PROVE  j = k
      <3>1. /\ Len(sendQueue) \in Nat /\ DOMAIN sendQueue = 1 .. Len(sendQueue)
            /\ DOMAIN sendQueue' = 1 .. Len(sendQueue) - 1
            /\ \A m \in 1 .. Len(sendQueue) - 1 : sendQueue'[m] = sendQueue[m + 1]
        BY <1>1, <1>3, <1>7, HeadTailProperties
      <3>2. j + 1 \in DOMAIN sendQueue /\ k + 1 \in DOMAIN sendQueue /\ j \in Int /\ k \in Int
        BY <3>1
      <3>3. sendQueue[j + 1] = sendQueue[k + 1]
        BY <2>2, <3>1
      <3>4. j + 1 = k + 1
        BY <3>2, <3>3 DEF IndInv, QueuedOnce
      <3> QED BY <3>2, <3>4
    <2> QED BY <1>12, <1>15, <2>1, <2>2 DEF IndInv, QueuedOnce
  <1>21. Separate'
    BY <1>1, <1>7, <1>10, <1>17 DEF IndInv, Separate
  <1>22. Ownership'
    BY <1>1, <1>7, <1>10, <1>13, <1>17 DEF IndInv, Ownership
  <1> QED BY <1>1, <1>18, <1>19, <1>20, <1>21, <1>22 DEF IndInv

----------------------------------------------------------------------------
(* The theorem.                                                            *)

\* A new connection has nothing to account for.
LEMMA IndInit == Init => IndInv
  <1> SUFFICES ASSUME Init PROVE IndInv
    OBVIOUS
  <1>1. TypeOK
    BY TypeInit
  <1>2. \A t \in Threads : CallsOf(t) = {} /\ Below(t) = {}
    BY DEF Init, CallsOf, Below
  <1>3. \A ops : InCall(ops) = {}
    BY <1>2 DEF InCall
  <1>4. Queued = {} /\ store = {} /\ owns = {}
    BY DEF Init, Queued
  <1>5. OnTheWay = {}
    <2>1. Range(<<>>) = {}
      BY DEF Range
    <2>2. \A l \in Loops : wr[l].data = <<>> /\ rd[l].data = <<>>
      BY DEF Init, NewLoop
    <2>3. (\A s \in Sockets : wire[s] = <<>>) /\ (\A i \in IDs : owed[i].left = 0)
      BY DEF Init
    <2> QED BY <2>1, <2>2, <2>3 DEF OnTheWay
  <1>6. Waiting = {} /\ Handled = {} /\ Travelling = {}
    BY <1>3, <1>4, <1>5 DEF Waiting, Handled, HandledOps, Travelling
  <1>7. Numbered /\ Separate /\ Ownership
    BY <1>3, <1>4, <1>6 DEF Numbered, Separate, Ownership
  <1>8. Locked /\ QueuedOnce
    <2>1. DOMAIN sendQueue = {}
      BY DEF Init
    <2> QED BY <1>2, <1>4, <2>1 DEF Locked, QueuedOnce
  <1> QED BY <1>1, <1>7, <1>8 DEF IndInv

\* Every step keeps the invariant, but for the one that queues an
\* authentication request.
LEMMA IndKept ==
  ASSUME IndInv, [Next]_vars,
         ~Auth \/ \A t \in Threads : ~InsertAuthenticationRequests(t)
  PROVE  IndInv'
  <1>1. TypeOK'
    BY TypeStep DEF IndInv
  <1>2. CASE UNCHANGED vars
    <2>1. /\ UNCHANGED todo /\ UNCHANGED <<authIDs, sendQueue, nextID, store, owns>>
          /\ UNCHANGED <<rd, wr, wire, owed>>
      BY <1>2 DEF vars, itemVars, queueVars, loopVars, netVars, outsideVars
    <2> QED BY <1>1, <2>1, SameTraffic, NeutralEnvironment
  <1>3. ASSUME NEW t \in Users, SendRequest(t) PROVE IndInv'
    BY <1>1, <1>3, KeptBySendRequest DEF Threads
  <1>4. ASSUME NEW t \in Threads, Run(t) PROVE IndInv'
    <2>1. CASE Writing(t)
      BY <1>1, <2>1, KeptByEnqueue, KeptByStartWriting, KeptByFront, KeptByAddToStore,
         KeptByRemoveFirst, KeptByIssueWrite DEF Writing
    <2>2. CASE Reading(t)
      BY <1>1, <2>2, KeptByReadLoop, KeptByFindByID, KeptByRemoveByID, KeptByMoveRequest,
         KeptByInvoke DEF Reading
    <2>3. CASE Restarting(t)
      BY <1>1, <2>3, KeptByRestart, KeptByShutdown, KeptByCancelAll DEF Restarting
    <2>4. CASE Connecting(t)
      BY <1>1, <2>4, KeptByConnecting
    <2>5. CASE Dying(t)
      BY <1>1, <2>5, KeptByDying
    <2> QED BY <1>4, <2>1, <2>2, <2>3, <2>4, <2>5 DEF Run
  <1>5. ASSUME NEW t \in IoThreads, Dispatch(t) PROVE IndInv'
    BY <1>1, <1>5, KeptByReadHandler, KeptByWriteHandler, KeptBySetupHandler DEF Dispatch, Threads
  <1> QED BY <1>1, <1>2, <1>3, <1>4, <1>5, KeptByEnvironment DEF Next

\* The invariant, on a connection that does not authenticate.
LEMMA IndStep ==
  ASSUME ~Auth
  PROVE  IndInv /\ [Next]_vars => IndInv'
  BY IndKept

\* On a connection without authentication, minimumTimeout finds the request
\* of every stored item, however sending, receiving, write errors and
\* restarts interleave on any number of threads.
THEOREM StoreOwned ==
  ASSUME ~Auth
  PROVE  Spec => []StoreOwnsRequest
  <1>1. IndInv => StoreOwnsRequest
    BY DEF IndInv, Ownership, StoreOwnsRequest
  <1>2. IndInv /\ [Next]_vars => IndInv'
    BY IndStep
  <1> QED BY <1>1, <1>2, IndInit, PTL DEF Spec
============================================================================
