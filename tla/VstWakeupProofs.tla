-------------------------- MODULE VstWakeupProofs ---------------------------
(***************************************************************************)
(* Proofs that no wakeup of the write loop and of the read loop is lost:   *)
(* a queued request is being written, and the response of a stored request *)
(* is being read, whenever no handler runs.                                *)
(***************************************************************************)
EXTENDS VstAccountProofs

----------------------------------------------------------------------------
(* The inductive invariants.                                               *)

\* Some thread has still to make one of these calls (on loop or attempt n).
Busy(ops) == \E t \in Threads : \E c \in CallsOf(t) : c.op \in ops
BusyOn(ops, n) == \E t \in Threads : \E c \in CallsOf(t) : c.op \in ops /\ c.on = n

\* Calls of a stack that another call follows, later on the same stack.
Chained(q) ==
  \A k \in 1 .. Len(q) :
    /\ q[k].op = "enqueue" => k + 1 <= Len(q) /\ q[k + 1].op = "checkConnected"
    /\ q[k].op = "insertAuth" => k + 2 <= Len(q) /\ q[k + 2].op = "startWriting"
    /\ q[k].op = "setConnected" => k + 1 <= Len(q) /\ q[k + 1].op = "startWriting"
    /\ q[k].op = "stopWriting" => k + 2 <= Len(q) /\ q[k + 2].op = "shutdownSocket"
    /\ q[k].op = "stopReading" => k + 2 <= Len(q) /\ q[k + 2].op = "cancelAll"
InOrder == \A t \in Threads : Chained(todo[t])

\* The current read loop reads, or somebody is about to go on with it.
ReaderRuns == readCur # NoLoop => rd[readCur].op # "idle" \/ BusyOn(ReadCalls, readCur)

\* Stored requests have a read loop, or get one, or are about to be cancelled.
WatchOps == {"removeFirst", "startReading", "restart", "cancelAll"}
ReaderComes == store # {} => readCur # NoLoop \/ Busy(WatchOps)

ReadInv == /\ TypeOK /\ authIDs = {} /\ ~permanentFailure
           /\ InOrder /\ ReaderRuns /\ ReaderComes

\* The current write loop writes, or somebody is about to go on with it.
WriterRuns ==
  writeCur # NoLoop /\ ~permanentFailure =>
    wr[writeCur].op # "idle" \/ BusyOn(WriteCalls, writeCur)

\* The header of the current socket was written, and its handler is to run.
HeaderDone == \E n \in Sockets :
  setup[n].kind = "header" /\ setup[n].res = "ok" /\ setup[n].sock = socket

\* The current socket is about to be closed.
CloseOps == {"shutdownSocket", "restart"}

\* An established connection has its flag set, or is about to get it.
FlagComes == socket \in helloed => connected \/ HeaderDone \/ Busy({"setConnected"} \cup CloseOps)

\* Queued requests have a write loop, or somebody who looks after them.
WriterComes ==
  socket \in helloed /\ sendQueue # <<>> /\ ~permanentFailure =>
    writeCur # NoLoop \/ HeaderDone \/ Busy({"startWriting", "checkConnected"} \cup CloseOps)

\* An attempt to connect is in one place: still to come, in an operation, or
\* with the thread that starts its next operation.
OnePlace ==
  /\ \A t \in Threads : \A c \in Below(t) : c.op \notin SetupCalls
  /\ \A t, u \in Threads : \A c \in CallsOf(t), d \in CallsOf(u) :
       c.op \in SetupCalls /\ d.op \in SetupCalls /\ c.on = d.on => t = u
  /\ \A n \in Sockets : n > attempts => setup[n].kind = "none" /\ ~BusyOn(SetupCalls, n)
  /\ \A n \in Sockets : setup[n].kind # "none" => ~BusyOn(SetupCalls, n)

\* Sockets that are still to be made.
Unmade(n) == n > attempts \/ setup[n].kind = "resolve" \/ BusyOn({"initSocket"}, n)
Untouched == \A n \in Sockets : Unmade(n) => /\ n \notin helloed /\ socket # n
                                             /\ \A m \in Sockets : setup[m].sock # n

WriteInv == /\ TypeOK /\ InOrder /\ WriterRuns /\ FlagComes /\ WriterComes
            /\ OnePlace /\ Untouched

----------------------------------------------------------------------------
(* Who is busy.                                                            *)

\* Somebody stays busy unless the call was the one that is replaced, and
\* becomes busy by a new call only.
LEMMA BusyMoves ==
  ASSUME NEW t \in Threads, NEW old, NEW top, NEW rest, Moves(t, old, top, rest), NEW ops
  PROVE  /\ Busy(ops) => Busy(ops)' \/ \E c \in old : c.op \in ops
         /\ \A c \in top \cup rest \cup Below(t) : c.op \in ops => Busy(ops)'
         /\ \A n : BusyOn(ops, n) => BusyOn(ops, n)' \/ \E c \in old : c.op \in ops /\ c.on = n
         /\ \A n : BusyOn(ops, n)' =>
              BusyOn(ops, n) \/ \E c \in top \cup rest : c.op \in ops /\ c.on = n
         /\ \A c \in top \cup rest : c.op \in ops => BusyOn(ops, c.on)'
  <1>1. \A u \in Threads : \A c \in CallsOf(u) : c \in CallsOf(u)' \/ c \in old
    BY DEF Moves
  <1>2. \A u \in Threads : \A c \in CallsOf(u)' : c \in CallsOf(u) \/ c \in top \cup rest
    BY DEF Moves
  <1>3. \A c \in top \cup rest \cup Below(t) : c \in CallsOf(t)'
    BY DEF Moves
  <1>4. Busy(ops) => Busy(ops)' \/ \E c \in old : c.op \in ops
    BY <1>1 DEF Busy
  <1>5. \A c \in top \cup rest \cup Below(t) : c.op \in ops => Busy(ops)'
    BY <1>3 DEF Busy
  <1>6. \A n : BusyOn(ops, n) => BusyOn(ops, n)' \/ \E c \in old : c.op \in ops /\ c.on = n
    BY <1>1 DEF BusyOn
  <1>7. \A n : BusyOn(ops, n)' =>
          BusyOn(ops, n) \/ \E c \in top \cup rest : c.op \in ops /\ c.on = n
    BY <1>2 DEF BusyOn
  <1>8. \A c \in top \cup rest : c.op \in ops => BusyOn(ops, c.on)'
    BY <1>3 DEF BusyOn
  <1> QED BY <1>4, <1>5, <1>6, <1>7, <1>8

\* Somebody stays busy on n.
LEMMA BusyOnKept ==
  ASSUME NEW t \in Threads, NEW old, NEW top, NEW rest, Moves(t, old, top, rest),
         NEW ops, NEW n, BusyOn(ops, n), \A c \in old : c.op \in ops => c.on # n
  PROVE  BusyOn(ops, n)'
  <1>1. \A u \in Threads : \A c \in CallsOf(u) : c \in CallsOf(u)' \/ c \in old
    BY DEF Moves
  <1> QED BY <1>1 DEF BusyOn

\* Nobody gets busy by a step of the io_service.
LEMMA BusySame ==
  ASSUME UNCHANGED todo
  PROVE  /\ \A ops : Busy(ops)' = Busy(ops) /\ \A n : BusyOn(ops, n)' = BusyOn(ops, n)
         /\ InOrder => InOrder'
  <1>1. \A u \in Threads : CallsOf(u)' = CallsOf(u)
    BY DEF CallsOf
  <1> QED BY <1>1 DEF Busy, BusyOn, InOrder

----------------------------------------------------------------------------
(* The calls that follow each other on a stack.                            *)

FollowedOps == {"enqueue", "insertAuth", "setConnected", "stopWriting", "stopReading"}

\* Calls that nothing has to follow.
LEMMA FreeChained ==
  ASSUME NEW q, \A k \in 1 .. Len(q) : q[k].op \notin FollowedOps
  PROVE  Chained(q)
  BY DEF Chained, FollowedOps

\* What follows a call on a stack is below it.
LEMMA ChainedTail ==
  ASSUME NEW S, NEW q \in Seq(S), q # <<>>, Chained(q)
  PROVE  Tail(q) \in Seq(S) /\ Chained(Tail(q))
  <1>1. Len(q) \in Nat \ {0} /\ Len(Tail(q)) = Len(q) - 1 /\ Tail(q) \in Seq(S)
    BY HeadTailProperties
  <1>2. \A k \in 1 .. Len(Tail(q)) : Tail(q)[k] = q[k + 1]
    BY <1>1, HeadTailProperties
  <1>3. ASSUME NEW k \in 1 .. Len(Tail(q)), NEW j \in {1, 2}, NEW x, NEW y,
               q[k + 1].op = x => (k + 1) + j <= Len(q) /\ q[(k + 1) + j].op = y
        PROVE  Tail(q)[k].op = x => k + j <= Len(Tail(q)) /\ Tail(q)[k + j].op = y
    <2>1. SUFFICES ASSUME q[k + 1].op = x PROVE k + j <= Len(Tail(q)) /\ Tail(q)[k + j].op = y
      BY <1>2
    <2>2. (k + 1) + j <= Len(q) /\ q[(k + 1) + j].op = y
      BY <1>3, <2>1
    <2>3. k + j \in 1 .. Len(Tail(q)) /\ (k + 1) + j = (k + j) + 1
      BY <1>1, <2>2
    <2> QED BY <1>2, <2>2, <2>3
  <1>4. ASSUME NEW k \in 1 .. Len(Tail(q)) PROVE k + 1 \in 1 .. Len(q)
    BY <1>1
  <1> QED BY <1>1, <1>3, <1>4 DEF Chained

\* Stacks are put on each other.
LEMMA ChainedConcat ==
  ASSUME NEW S, NEW a \in Seq(S), NEW b \in Seq(S), Chained(a), Chained(b)
  PROVE  Chained(a \o b)
  <1>1. /\ Len(a) \in Nat /\ Len(b) \in Nat /\ Len(a \o b) = Len(a) + Len(b)
        /\ \A k \in 1 .. Len(a) : (a \o b)[k] = a[k]
        /\ \A k \in Len(a) + 1 .. Len(a) + Len(b) : (a \o b)[k] = b[k - Len(a)]
    BY ConcatProperties
  <1>2. ASSUME NEW k \in 1 .. Len(a), NEW j \in {1, 2}, NEW x, NEW y,
               a[k].op = x => k + j <= Len(a) /\ a[k + j].op = y
        PROVE  (a \o b)[k].op = x => k + j <= Len(a \o b) /\ (a \o b)[k + j].op = y
    BY <1>1, <1>2
  <1>3. ASSUME NEW k \in Len(a) + 1 .. Len(a) + Len(b), NEW j \in {1, 2}, NEW x, NEW y,
               b[k - Len(a)].op = x =>
                 (k - Len(a)) + j <= Len(b) /\ b[(k - Len(a)) + j].op = y
        PROVE  (a \o b)[k].op = x => k + j <= Len(a \o b) /\ (a \o b)[k + j].op = y
    <2>1. SUFFICES ASSUME b[k - Len(a)].op = x
                   PROVE  k + j <= Len(a \o b) /\ (a \o b)[k + j].op = y
      BY <1>1
    <2>2. (k - Len(a)) + j <= Len(b) /\ b[(k - Len(a)) + j].op = y
      BY <1>3, <2>1
    <2>3. k + j \in Len(a) + 1 .. Len(a) + Len(b) /\ (k + j) - Len(a) = (k - Len(a)) + j
      BY <1>1, <2>2
    <2> QED BY <1>1, <2>2, <2>3
  <1>4. ASSUME NEW k \in Len(a) + 1 .. Len(a) + Len(b) PROVE k - Len(a) \in 1 .. Len(b)
    BY <1>1
  <1>5. \A k \in 1 .. Len(a \o b) : k \in 1 .. Len(a) \/ k \in Len(a) + 1 .. Len(a) + Len(b)
    BY <1>1
  <1> QED BY <1>2, <1>3, <1>4, <1>5 DEF Chained

\* Every stack stays chained when the calls that are put on one are.
LEMMA OrderThen ==
  ASSUME todo \in [Threads -> Seq(Call)], InOrder, NEW t \in Threads,
         NEW S, NEW calls \in Seq(S), Chained(calls),
         \/ todo[t] # <<>> /\ Then(t, calls)
         \/ todo' = [todo EXCEPT ![t] = calls]
  PROVE  InOrder'
  <1>1. \A u \in Threads \ {t} : todo'[u] = todo[u]
    BY DEF Then
  <1>2. Chained(todo'[t])
    <2>1. CASE todo[t] # <<>> /\ Then(t, calls)
      <3>1. todo'[t] = calls \o Tail(todo[t]) /\ todo[t] \in Seq(Call) /\ Chained(todo[t])
        BY <2>1 DEF Then, InOrder
      <3>2. Tail(todo[t]) \in Seq(Call) /\ Chained(Tail(todo[t]))
        BY <2>1, <3>1, ChainedTail
      <3> DEFINE U == S \cup Call
      <3>3. Tail(todo[t]) \in Seq(U) /\ calls \in Seq(U)
        BY <3>2
      <3> HIDE DEF U
      <3> QED BY <3>1, <3>2, <3>3, ChainedConcat
    <2>2. CASE todo' = [todo EXCEPT ![t] = calls]
      BY <2>2
    <2> QED BY <2>1, <2>2
  <1> QED BY <1>1, <1>2 DEF InOrder, Chained

\* The current call returns or makes a call that nothing has to follow.
LEMMA OrderReturn ==
  ASSUME todo \in [Threads -> Seq(Call)], InOrder, NEW t \in Threads, todo[t] # <<>>,
         Return(t) \/ \E a : a.op \notin FollowedOps /\ Then(t, <<a>>)
  PROVE  InOrder'
  <1>1. CASE Return(t)
    <2> DEFINE S == {}
               calls == <<>>
    <2>1. calls \in Seq(S) /\ Chained(calls)
      BY DEF Chained
    <2>2. Then(t, calls)
      BY <1>1 DEF Return
    <2> HIDE DEF S, calls
    <2> QED BY <2>1, <2>2, OrderThen
  <1>2. CASE \E a : a.op \notin FollowedOps /\ Then(t, <<a>>)
    <2>1. PICK a : a.op \notin FollowedOps /\ Then(t, <<a>>)
      BY <1>2
    <2> DEFINE S == {a}
               calls == <<a>>
    <2>2. calls \in Seq(S) /\ Chained(calls)
      BY <2>1, FreeChained
    <2>3. Then(t, calls)
      BY <2>1
    <2> HIDE DEF S, calls
    <2> QED BY <2>2, <2>3, OrderThen
  <1> QED BY <1>1, <1>2

\* The calls of shutdownConnection, and what the caller does after it.
LEMMA ShutdownChained ==
  ASSUME NEW e, NEW op \in {"resolveAgain", "onFailure"}
  PROVE  \E S : /\ ShutdownCalls(e) \o <<Plain(op)>> \in Seq(S)
                /\ Chained(ShutdownCalls(e) \o <<Plain(op)>>)
                /\ \A c \in S : c.op \notin SetupCalls
                /\ \A x \in {"cancelAll", "shutdownSocket"} :
                     \E c \in Range(ShutdownCalls(e) \o <<Plain(op)>>) : c.op = x
  <1> DEFINE T == {Plain("stopWriting"), Plain("stopReading"), Plain("shutdownSocket"),
                   Fail("cancelAll", 0, e), Plain(op)}
             a == ShutdownCalls(e)
             b == <<Plain(op)>>
  <1>1. a \in Seq(T) /\ b \in Seq(T)
    BY DEF ShutdownCalls
  <1>2. Chained(a)
    BY DEF Chained, ShutdownCalls, Plain, Fail
  <1>3. Chained(b)
    BY DEF Chained, Plain
  <1>4. \A c \in T : c.op \notin SetupCalls
    BY DEF SetupCalls, Plain, Fail
  <1>5. \A x \in {"cancelAll", "shutdownSocket"} : \E c \in Range(a) : c.op = x
    <2>1. a[3] = Plain("shutdownSocket") /\ a[4] = Fail("cancelAll", 0, e) /\ 3 \in DOMAIN a
          /\ 4 \in DOMAIN a
      BY DEF ShutdownCalls
    <2>2. a[3].op = "shutdownSocket" /\ a[4].op = "cancelAll"
      BY <2>1 DEF Plain, Fail
    <2> QED BY <2>1, <2>2 DEF Range
  <1> HIDE DEF T, a, b
  <1>6. a \o b \in Seq(T) /\ Chained(a \o b) /\ Range(a \o b) = Range(a) \cup Range(b)
    BY <1>1, <1>2, <1>3, ConcatProperties, ChainedConcat, RangeConcat
  <1>7. \A x \in {"cancelAll", "shutdownSocket"} : \E c \in Range(a \o b) : c.op = x
    BY <1>5, <1>6
  <1> QED BY <1>4, <1>6, <1>7 DEF a, b

\* restartConnection(error).
LEMMA RestartStack ==
  ASSUME TypeOK, InOrder, NEW t \in Threads, Restart(t)
  PROVE  /\ todo[t] # <<>> /\ InOrder'
         /\ \E rest : /\ Moves(t, {Now(t)}, {}, rest) /\ \A c \in rest : c.op \notin SetupCalls
                      /\ \A x \in {"cancelAll", "shutdownSocket"} : \E c \in rest : c.op = x
  <1> DEFINE calls == ShutdownCalls(Now(t).err) \o <<Plain("resolveAgain")>>
  <1>1. todo[t] # <<>> /\ Then(t, calls)
    BY DEF Restart, At
  <1>2. PICK S : /\ calls \in Seq(S) /\ Chained(calls)
                 /\ \A c \in S : c.op \notin SetupCalls
                 /\ \A x \in {"cancelAll", "shutdownSocket"} : \E c \in Range(calls) : c.op = x
    BY ShutdownChained
  <1> HIDE DEF calls
  <1>3. todo \in [Threads -> Seq(Call)]
    BY DEF TypeOK
  <1>4. InOrder'
    BY <1>1, <1>2, <1>3, OrderThen
  <1>5. Moves(t, {Now(t)}, {}, Range(calls))
    BY <1>1, <1>2, <1>3, ThenMoves
  <1>6. Range(calls) \subseteq S
    BY <1>2 DEF Range
  <1> QED BY <1>1, <1>2, <1>4, <1>5, <1>6

\* A call of a thread.
LEMMA RunStack ==
  ASSUME TypeOK, InOrder, NEW t \in Threads,
         Writing(t) \/ Reading(t) \/ Restarting(t) \/ Connecting(t)
  PROVE  /\ todo[t] # <<>> /\ InOrder'
         /\ \E top, rest : /\ Moves(t, {Now(t)}, top, rest)
                           /\ \A c \in top \cup rest : c.op \notin SetupCalls
  <1> USE DEF FollowedOps, SetupCalls
  <1>0. todo \in [Threads -> Seq(Call)]
    BY DEF TypeOK
  <1>1. ASSUME todo[t] # <<>>,
               Return(t) \/ \E a : a.op \notin FollowedOps \cup SetupCalls /\ Then(t, <<a>>)
        PROVE  /\ todo[t] # <<>> /\ InOrder'
               /\ \E top, rest : /\ Moves(t, {Now(t)}, top, rest)
                                 /\ \A c \in top \cup rest : c.op \notin SetupCalls
    <2>1. InOrder'
      BY <1>0, <1>1, OrderReturn
    <2>2. CASE Return(t)
      <3>1. Moves(t, {Now(t)}, {}, {})
        BY <1>0, <1>1, <2>2, ThenMoves
      <3> QED BY <1>1, <2>1, <3>1
    <2>3. CASE \E a : a.op \notin FollowedOps \cup SetupCalls /\ Then(t, <<a>>)
      <3>1. PICK a : a.op \notin FollowedOps \cup SetupCalls /\ Then(t, <<a>>)
        BY <2>3
      <3>2. Moves(t, {Now(t)}, {a}, {})
        BY <1>0, <1>1, <3>1, ThenMoves
      <3>3. \A c \in {a} \cup {} : c.op \notin SetupCalls
        BY <3>1
      <3> QED BY <1>1, <2>1, <3>2, <3>3
    <2> QED BY <1>1, <2>2, <2>3
  <1>2. CASE Writing(t) /\ ~RemoveFirst(t)
    <2>1. todo[t] # <<>>
      BY <1>2 DEF Writing, Enqueue, CheckConnected, StartWriting, Front, AddToStore, IssueWrite, At
    <2>2. Return(t) \/ \E a : a.op \notin FollowedOps \cup SetupCalls /\ Then(t, <<a>>)
      BY <1>2 DEF Writing, Enqueue, CheckConnected, StartWriting, Front, AddToStore, IssueWrite,
                  Return, Plain, On, Send
    <2> QED BY <1>1, <2>1, <2>2
  <1>3. CASE RemoveFirst(t)
    <2> DEFINE a == Plain("startReading")
               b == Send("issueWrite", Now(t).on, Now(t).id, Now(t).held)
               S == {a, b}
               calls == <<a, b>>
    <2>1. todo[t] # <<>> /\ Then(t, calls)
      BY <1>3 DEF RemoveFirst, WriteCallsFor, At
    <2>2. a.op = "startReading" /\ b.op = "issueWrite"
      BY DEF Plain, Send
    <2> HIDE DEF a, b
    <2>3. calls \in Seq(S) /\ Chained(calls)
      BY <2>2 DEF Chained
    <2>4. Moves(t, {Now(t)}, {}, {a, b})
      BY <1>0, <2>1, ThenMoves
    <2> HIDE DEF S, calls
    <2>5. InOrder'
      BY <1>0, <2>1, <2>3, OrderThen
    <2> QED BY <2>1, <2>2, <2>4, <2>5
  <1>4. CASE Reading(t)
    <2>1. todo[t] # <<>>
      BY <1>4 DEF Reading, StartReading, ReadNextBytes, IssueRead, FindByID, RemoveByID,
                  MoveRequest, Invoke, At
    <2>2. Return(t) \/ \E a : a.op \notin FollowedOps \cup SetupCalls /\ Then(t, <<a>>)
      BY <1>4 DEF Reading, StartReading, ReadNextBytes, IssueRead, FindByID, RemoveByID,
                  MoveRequest, Invoke, Return, Plain, On, Item, CompletedCalls
    <2> QED BY <1>1, <2>1, <2>2
  <1>5. CASE Restarting(t) /\ ~Restart(t)
    <2>1. todo[t] # <<>>
      BY <1>5 DEF Restarting, RestartRead, RestartWrite, StopWriting, StopReading, ShutdownSocket,
                  CancelAll, ResolveAgain, At
    <2>2. Return(t) \/ \E a : a.op \notin FollowedOps \cup SetupCalls /\ Then(t, <<a>>)
      BY <1>5 DEF Restarting, RestartRead, RestartWrite, RestartOf, StopWriting, StopReading,
                  ShutdownSocket, CancelAll, ResolveAgain, Return, Plain, Fail
    <2> QED BY <1>1, <2>1, <2>2
  <1>6. CASE Restart(t)
    <2>1. PICK rest : Moves(t, {Now(t)}, {}, rest) /\ \A c \in rest : c.op \notin SetupCalls
      BY <1>6, RestartStack
    <2>2. \A c \in {} \cup rest : c.op \notin SetupCalls
      BY <2>1
    <2> QED BY <1>6, <2>1, <2>2, RestartStack
  <1>7. CASE Connecting(t)
    <2>1. todo[t] # <<>> /\ Return(t)
      BY <1>7 DEF Connecting, InitSocket, StartSSLHandshake, FinishInitialization,
                  InsertAuthenticationRequests, SetConnected, OnFailure, At
    <2> QED BY <1>1, <2>1
  <1> QED BY <1>2, <1>3, <1>4, <1>5, <1>6, <1>7

\* What follows the call a thread makes, or some call it has to make.
LEMMA Follows ==
  ASSUME TypeOK, InOrder, NEW t \in Threads
  PROVE  /\ todo[t] # <<>> =>
              /\ Now(t).op = "enqueue" => \E c \in Below(t) : c.op = "checkConnected"
              /\ Now(t).op = "insertAuth" => \E c \in Below(t) : c.op = "startWriting"
              /\ Now(t).op = "stopWriting" => \E c \in Below(t) : c.op = "shutdownSocket"
              /\ Now(t).op = "stopReading" => \E c \in Below(t) : c.op = "cancelAll"
         /\ \A c \in CallsOf(t) : c.op = "setConnected" =>
              \E d \in CallsOf(t) : d.op = "startWriting"
  <1> DEFINE q == todo[t]
  <1>1. q \in Seq(Call) /\ Len(q) \in Nat /\ DOMAIN q = 1 .. Len(q) /\ Chained(q)
    BY DEF TypeOK, InOrder
  <1>2. ASSUME NEW j \in {1, 2}, NEW x, 1 + j <= Len(q), q[1 + j].op = x
        PROVE  \E c \in Below(t) : c.op = x
    BY <1>1, <1>2 DEF Below
  <1>3. ASSUME q # <<>>
        PROVE  /\ Now(t).op = "enqueue" => \E c \in Below(t) : c.op = "checkConnected"
               /\ Now(t).op = "insertAuth" => \E c \in Below(t) : c.op = "startWriting"
               /\ Now(t).op = "stopWriting" => \E c \in Below(t) : c.op = "shutdownSocket"
               /\ Now(t).op = "stopReading" => \E c \in Below(t) : c.op = "cancelAll"
    <2>1. 1 \in 1 .. Len(q) /\ Now(t) = q[1]
      BY <1>1, <1>3 DEF Now
    <2> QED BY <1>1, <1>2, <2>1 DEF Chained
  <1>4. ASSUME NEW c \in CallsOf(t), c.op = "setConnected"
        PROVE  \E d \in CallsOf(t) : d.op = "startWriting"
    <2>1. PICK k \in 1 .. Len(q) : c = q[k]
      BY <1>1, <1>4 DEF CallsOf
    <2>2. k + 1 <= Len(q) /\ q[k + 1].op = "startWriting"
      BY <1>1, <1>4, <2>1 DEF Chained
    <2> QED BY <1>1, <2>1, <2>2 DEF CallsOf
  <1> QED BY <1>3, <1>4

\* An idle thread takes calls that are in order.
LEMMA BeginStack ==
  ASSUME TypeOK, InOrder, NEW t \in Threads, todo[t] = <<>>,
         NEW S, NEW calls \in Seq(S), Chained(calls), todo' = [todo EXCEPT ![t] = calls]
  PROVE  InOrder' /\ Moves(t, {}, {}, Range(calls))
  <1>1. todo \in [Threads -> Seq(Call)]
    BY DEF TypeOK
  <1> QED BY <1>1, OrderThen, BeginMoves

\* One call, or two, that nothing has to follow.
LEMMA BeginOne ==
  ASSUME TypeOK, InOrder, NEW t \in Threads, todo[t] = <<>>
  PROVE  /\ \A a : a.op \notin FollowedOps /\ todo' = [todo EXCEPT ![t] = <<a>>]
                     => InOrder' /\ Moves(t, {}, {a}, {})
         /\ \A a, b : /\ a.op \notin FollowedOps /\ b.op \notin FollowedOps
                      /\ todo' = [todo EXCEPT ![t] = <<a, b>>]
                      => InOrder' /\ Moves(t, {}, {a}, {b})
  <1>1. todo \in [Threads -> Seq(Call)]
    BY DEF TypeOK
  <1>2. ASSUME NEW a, a.op \notin FollowedOps, todo' = [todo EXCEPT ![t] = <<a>>]
        PROVE  InOrder' /\ Moves(t, {}, {a}, {})
    <2> DEFINE S == {a}
               calls == <<a>>
    <2>1. calls \in Seq(S) /\ Chained(calls)
      BY <1>2, FreeChained
    <2>2. todo' = [todo EXCEPT ![t] = calls] /\ Moves(t, {}, {a}, {})
      BY <1>1, <1>2, BeginMoves
    <2> HIDE DEF S, calls
    <2> QED BY <2>1, <2>2, BeginStack
  <1>3. ASSUME NEW a, NEW b, a.op \notin FollowedOps, b.op \notin FollowedOps,
               todo' = [todo EXCEPT ![t] = <<a, b>>]
        PROVE  InOrder' /\ Moves(t, {}, {a}, {b})
    <2> DEFINE S == {a, b}
               calls == <<a, b>>
    <2>1. calls \in Seq(S) /\ Chained(calls)
      BY <1>3, FreeChained
    <2>2. todo' = [todo EXCEPT ![t] = calls] /\ Moves(t, {}, {a}, {b})
      BY <1>1, <1>3, BeginMoves
    <2> HIDE DEF S, calls
    <2> QED BY <2>1, <2>2, BeginStack
  <1> QED BY <1>2, <1>3

\* sendRequest.
LEMMA SendStack ==
  ASSUME TypeOK, InOrder, NEW t \in Threads, SendRequest(t)
  PROVE  /\ InOrder'
         /\ \E rest : Moves(t, {}, {}, rest) /\ \A c \in rest : c.op \notin SetupCalls
  <1> DEFINE a == Item("enqueue", nextID + 1, "none")
             b == Plain("checkConnected")
             S == {a, b}
             calls == <<a, b>>
  <1>1. todo[t] = <<>> /\ todo' = [todo EXCEPT ![t] = calls]
    BY DEF SendRequest, SendCalls, Idle
  <1>2. a.op = "enqueue" /\ b.op = "checkConnected"
    BY DEF Item, Plain
  <1> HIDE DEF a, b
  <1>3. calls \in Seq(S) /\ Chained(calls) /\ Range(calls) \subseteq S
    BY <1>2 DEF Chained, Range
  <1>4. \A c \in S : c.op \notin SetupCalls
    BY <1>2 DEF SetupCalls
  <1> HIDE DEF S, calls
  <1>5. InOrder' /\ Moves(t, {}, {}, Range(calls))
    BY <1>1, <1>3, BeginStack
  <1> QED BY <1>3, <1>4, <1>5

\* The handlers of the loops, which go on with their loop.
LEMMA LoopHandlerStack ==
  ASSUME TypeOK, InOrder, NEW t \in Threads, NEW l \in Loops,
         \/ ReadCallback(t, l) \/ ReadDeadline(t, l)
         \/ WriteCallback(t, l) \/ WriteDeadline(t, l)
  PROVE  /\ InOrder'
         /\ \E top, rest :
              /\ Moves(t, {}, top, rest) /\ \A c \in top \cup rest : c.op \notin SetupCalls
              /\ ReadCallback(t, l) => \E c \in top \cup rest : c.op \in ReadCalls /\ c.on = l
              /\ WriteCallback(t, l) => \E c \in top \cup rest : c.op \in WriteCalls /\ c.on = l
  <1> USE DEF FollowedOps, SetupCalls, ReadCalls, WriteCalls
  <1>1. todo[t] = <<>>
    BY DEF ReadCallback, ReadDeadline, WriteCallback, WriteDeadline, Idle
  <1>2. \A e : /\ Fail("restartRead", l, e).op = "restartRead" /\ Fail("restartRead", l, e).on = l
               /\ Fail("restartWrite", l, e).op = "restartWrite"
               /\ Fail("restartWrite", l, e).on = l
    BY DEF Fail
  <1>0. ~(ReadCallback(t, l) /\ WriteCallback(t, l))
    <2>1. SUFFICES ASSUME ReadCallback(t, l), WriteCallback(t, l) PROVE FALSE
      OBVIOUS
    <2> DEFINE r == rd[l]
    <2>2. r \in LoopRec /\ r.op # "idle" /\ rd \in [Loops -> LoopRec] /\ UNCHANGED rd
          /\ rd' = [rd EXCEPT ![l] = [r EXCEPT !.op = "idle", !.armed = FALSE, !.data = <<>>]]
      BY <2>1 DEF TypeOK, ReadCallback, WriteCallback
    <2>3. [r EXCEPT !.op = "idle", !.armed = FALSE, !.data = <<>>].op = "idle"
      BY <2>2 DEF LoopRec
    <2> QED BY <2>2, <2>3
  <1>3. CASE ReadCallback(t, l)
    <2>1. CASE todo' = [todo EXCEPT ![t] = <<Fail("restartRead", l, "VstReadError")>>]
      <3> DEFINE a == Fail("restartRead", l, "VstReadError")
      <3>1. a.op = "restartRead" /\ a.on = l /\ todo' = [todo EXCEPT ![t] = <<a>>]
        BY <1>2, <2>1
      <3> HIDE DEF a
      <3>2. InOrder' /\ Moves(t, {}, {a}, {})
        BY <1>1, <3>1, BeginOne
      <3>3. /\ \A c \in {a} \cup {} : c.op \notin SetupCalls
            /\ \E c \in {a} \cup {} : c.op \in ReadCalls /\ c.on = l
            /\ ~WriteCallback(t, l)
        BY <1>0, <1>3, <3>1
      <3> QED BY <3>2, <3>3
    <2>2. CASE todo' = [todo EXCEPT ![t] =
                         [k \in 1 .. Len(rd[l].data) |-> Item("findByID", rd[l].data[k], "ok")]
                         \o <<On("readNextBytes", l, TRUE)>>]
      <3> DEFINE found == [k \in 1 .. Len(rd[l].data) |-> Item("findByID", rd[l].data[k], "ok")]
                 next == On("readNextBytes", l, TRUE)
                 one == <<next>>
                 S == {c \in Call : c.op \in {"findByID", "readNextBytes"}}
      <3>1. rd[l].data \in Seq(IDs)
        BY DEF TypeOK, LoopRec
      <3>2. next \in Call /\ next.op = "readNextBytes" /\ next.on = l
        BY OnLoopIsCall DEF On, ItemCalls
      <3>3. \A i \in IDs : /\ Item("findByID", i, "ok") \in Call
                           /\ Item("findByID", i, "ok").op = "findByID"
        BY ItemIsCall DEF ItemCalls, Outcomes, Item
      <3>4. found \in Seq(S)
        BY <3>1, <3>3
      <3> HIDE DEF next
      <3>5. one \in Seq(S) /\ Range(one) = {next}
        BY <3>2 DEF Range
      <3>6. todo' = [todo EXCEPT ![t] = found \o one]
        BY <2>2 DEF next
      <3>7. \A c \in S : c.op \notin FollowedOps /\ c.op \notin SetupCalls
        OBVIOUS
      <3> HIDE DEF found, one, S
      <3>8. found \o one \in Seq(S) /\ Range(found \o one) = Range(found) \cup Range(one)
        BY <3>4, <3>5, ConcatProperties, RangeConcat
      <3>9. ASSUME NEW q \in Seq(S) PROVE Chained(q) /\ \A c \in Range(q) : c.op \notin SetupCalls
        BY <3>7, FreeChained DEF Range
      <3> DEFINE calls == found \o one
      <3>10. calls \in Seq(S) /\ Chained(calls) /\ next \in Range(calls)
             /\ \A c \in Range(calls) : c.op \notin SetupCalls
        BY <3>5, <3>8, <3>9
      <3>11. todo' = [todo EXCEPT ![t] = calls]
        BY <3>6
      <3> HIDE DEF calls
      <3>12. InOrder' /\ Moves(t, {}, {}, Range(calls))
        BY <1>1, <3>10, <3>11, BeginStack
      <3>13. /\ \A c \in {} \cup Range(calls) : c.op \notin SetupCalls
             /\ \E c \in {} \cup Range(calls) : c.op \in ReadCalls /\ c.on = l
             /\ ~WriteCallback(t, l)
        BY <1>0, <1>3, <3>2, <3>10
      <3> QED BY <3>12, <3>13
    <2> QED BY <1>3, <2>1, <2>2 DEF ReadCallback
  <1>4. CASE WriteCallback(t, l)
    <2>1. CASE todo' = [todo EXCEPT ![t] = FailedCalls(l, Head(wr[l].data))]
      <3> DEFINE a == Item("removeByID", Head(wr[l].data), "VstWriteError")
                 b == Fail("restartWrite", l, "VstWriteError")
      <3>1. a.op = "removeByID" /\ b.op = "restartWrite" /\ b.on = l
            /\ todo' = [todo EXCEPT ![t] = <<a, b>>]
        BY <1>2, <2>1 DEF FailedCalls, Item
      <3> HIDE DEF a, b
      <3>2. InOrder' /\ Moves(t, {}, {a}, {b})
        BY <1>1, <3>1, BeginOne
      <3>3. /\ \A c \in {a} \cup {b} : c.op \notin SetupCalls
            /\ \E c \in {a} \cup {b} : c.op \in WriteCalls /\ c.on = l
            /\ ~ReadCallback(t, l)
        BY <1>0, <1>4, <3>1
      <3> QED BY <3>2, <3>3
    <2>2. CASE todo' = [todo EXCEPT ![t] = WrittenCalls(l)]
      <3> DEFINE a == On("front", l, TRUE)
      <3>1. a.op = "front" /\ a.on = l /\ todo' = [todo EXCEPT ![t] = <<a>>]
        BY <2>2 DEF WrittenCalls, On
      <3> HIDE DEF a
      <3>2. InOrder' /\ Moves(t, {}, {a}, {})
        BY <1>1, <3>1, BeginOne
      <3>3. /\ \A c \in {a} \cup {} : c.op \notin SetupCalls
            /\ \E c \in {a} \cup {} : c.op \in WriteCalls /\ c.on = l
            /\ ~ReadCallback(t, l)
        BY <1>0, <1>4, <3>1
      <3> QED BY <3>2, <3>3
    <2> QED BY <1>4, <2>1, <2>2 DEF WriteCallback
  <1>5. CASE ReadDeadline(t, l) \/ WriteDeadline(t, l)
    <2>1. PICK op \in {"restartRead", "restartWrite"} :
            todo' = [todo EXCEPT ![t] = <<Fail(op, l, "Timeout")>>]
      BY <1>5 DEF ReadDeadline, WriteDeadline
    <2> DEFINE a == Fail(op, l, "Timeout")
    <2>2. a.op = op /\ a.on = l /\ todo' = [todo EXCEPT ![t] = <<a>>]
      BY <2>1 DEF Fail
    <2> HIDE DEF a
    <2>3. InOrder' /\ Moves(t, {}, {a}, {})
      BY <1>1, <2>2, BeginOne
    <2>4. \A c \in {a} \cup {} : c.op \notin SetupCalls
      BY <2>2
    <2>5. CASE ReadCallback(t, l) \/ WriteCallback(t, l)
      BY <1>3, <1>4, <2>5
    <2> QED BY <2>3, <2>4, <2>5
  <1> QED BY <1>3, <1>4, <1>5

\* The handlers of the setup of a connection: the next operation of their
\* attempt, or what ends the attempt; the established connection is used.
LEMMA SetupHandlerStack ==
  ASSUME TypeOK, InOrder, NEW t \in Threads, NEW n \in Sockets,
         \/ ResolveCallback(t, n) \/ AsyncConnectCallback(t, n)
         \/ HandshakeCallback(t, n) \/ HeaderCallback(t, n)
  PROVE  /\ InOrder'
         /\ \E top, rest :
              /\ Moves(t, {}, top, rest) /\ \A c \in rest : c.op \notin SetupCalls
              /\ \A c \in top : c.op \in SetupCalls => c.on = n
              /\ \A c \in top : c.op = "initSocket" => setup[n].kind = "resolve"
              /\ HeaderCallback(t, n) /\ setup[n].res = "ok" =>
                   /\ \E c \in rest : c.op = "setConnected"
                   /\ \E c \in rest : c.op = "startWriting"
              /\ HeaderCallback(t, n) /\ setup[n].res # "ok" =>
                   \E c \in rest : c.op = "shutdownSocket"
  <1> USE DEF FollowedOps, SetupCalls
  <1> DEFINE Goal(top, rest) ==
        /\ Moves(t, {}, top, rest) /\ \A c \in rest : c.op \notin SetupCalls
        /\ \A c \in top : c.op \in SetupCalls => c.on = n
        /\ \A c \in top : c.op = "initSocket" => setup[n].kind = "resolve"
        /\ HeaderCallback(t, n) /\ setup[n].res = "ok" =>
             /\ \E c \in rest : c.op = "setConnected"
             /\ \E c \in rest : c.op = "startWriting"
        /\ HeaderCallback(t, n) /\ setup[n].res # "ok" =>
             \E c \in rest : c.op = "shutdownSocket"
  <1>0. SUFFICES InOrder' /\ \E top, rest : Goal(top, rest)
    OBVIOUS
  <1>1. todo[t] = <<>>
    BY DEF ResolveCallback, AsyncConnectCallback, HandshakeCallback, HeaderCallback, Handles, Idle
  <1>2. ASSUME NEW a, a.op \notin FollowedOps, todo' = [todo EXCEPT ![t] = <<a>>],
               a.op \in SetupCalls => a.on = n, a.op = "initSocket" => setup[n].kind = "resolve",
               ~HeaderCallback(t, n)
        PROVE  InOrder' /\ \E top, rest : Goal(top, rest)
    <2>1. InOrder' /\ Moves(t, {}, {a}, {})
      BY <1>1, <1>2, BeginOne
    <2>2. Goal({a}, {})
      BY <1>2, <2>1
    <2> QED BY <2>1, <2>2
  <1>3. ASSUME todo' = [todo EXCEPT ![t] = ShutdownCalls("CanceledDuringReset")
                                             \o <<Plain("onFailure")>>],
               HeaderCallback(t, n) => setup[n].res # "ok"
        PROVE  InOrder' /\ \E top, rest : Goal(top, rest)
    <2> DEFINE calls == ShutdownCalls("CanceledDuringReset") \o <<Plain("onFailure")>>
    <2>1. PICK S : /\ calls \in Seq(S) /\ Chained(calls)
                   /\ \A c \in S : c.op \notin SetupCalls
                   /\ \A x \in {"cancelAll", "shutdownSocket"} : \E c \in Range(calls) : c.op = x
      BY ShutdownChained
    <2>2. todo' = [todo EXCEPT ![t] = calls]
      BY <1>3
    <2> HIDE DEF calls
    <2>3. InOrder' /\ Moves(t, {}, {}, Range(calls))
      BY <1>1, <2>1, <2>2, BeginStack
    <2>4. Range(calls) \subseteq S
      BY <2>1 DEF Range
    <2>5. Goal({}, Range(calls))
      BY <1>3, <2>1, <2>3, <2>4
    <2> QED BY <2>3, <2>5
  <1>4. CASE ResolveCallback(t, n)
    <2> DEFINE a == On("initSocket", n, FALSE)
               b == Plain("onFailure")
    <2>1. /\ todo' = [todo EXCEPT ![t] = <<a>>] \/ todo' = [todo EXCEPT ![t] = <<b>>]
          /\ setup[n].kind = "resolve" /\ ~HeaderCallback(t, n)
      BY <1>4 DEF ResolveCallback, HeaderCallback, Handles
    <2>2. a.op = "initSocket" /\ a.on = n /\ b.op = "onFailure"
      BY DEF On, Plain
    <2> HIDE DEF a, b, Goal
    <2> QED BY <1>2, <2>1, <2>2
  <1>5. CASE AsyncConnectCallback(t, n)
    <2> DEFINE a == On(IF Ssl THEN "handshake" ELSE "finishInit", n, FALSE)
    <2>1. /\ \/ todo' = [todo EXCEPT ![t] = <<a>>]
             \/ todo' = [todo EXCEPT ![t] = ShutdownCalls("CanceledDuringReset")
                                             \o <<Plain("onFailure")>>]
          /\ ~HeaderCallback(t, n)
      BY <1>5 DEF AsyncConnectCallback, HeaderCallback, Handles
    <2>2. a.op \in {"handshake", "finishInit"} /\ a.on = n
      BY DEF On
    <2> HIDE DEF a, Goal
    <2> QED BY <1>2, <1>3, <2>1, <2>2
  <1>6. CASE HandshakeCallback(t, n)
    <2> DEFINE a == On("finishInit", n, FALSE)
               b == Plain("shutdownSocket")
               c == Plain("onFailure")
    <2>1. /\ todo' = [todo EXCEPT ![t] = <<a>>] \/ todo' = [todo EXCEPT ![t] = <<b, c>>]
          /\ ~HeaderCallback(t, n)
      BY <1>6 DEF HandshakeCallback, HeaderCallback, Handles
    <2>2. a.op = "finishInit" /\ a.on = n /\ b.op = "shutdownSocket" /\ c.op = "onFailure"
      BY DEF On, Plain
    <2> HIDE DEF a, b, c
    <2>3. CASE todo' = [todo EXCEPT ![t] = <<b, c>>]
      <3>1. InOrder' /\ Moves(t, {}, {b}, {c})
        BY <1>1, <2>2, <2>3, BeginOne
      <3>2. Goal({b}, {c})
        BY <2>1, <2>2, <3>1
      <3> QED BY <3>1, <3>2
    <2> HIDE DEF Goal
    <2> QED BY <1>2, <2>1, <2>2, <2>3
  <1>7. CASE HeaderCallback(t, n)
    <2> DEFINE a == Plain("insertAuth")
               b == Plain("setConnected")
               c == Plain("startWriting")
               d == Plain("startReading")
               S == {a, b, c, d}
               calls == <<a, b, c, d>>
    <2>1. \/ setup[n].res = "ok" /\ todo' = [todo EXCEPT ![t] = calls]
          \/ /\ setup[n].res # "ok"
             /\ todo' = [todo EXCEPT ![t] = ShutdownCalls("CanceledDuringReset")
                                             \o <<Plain("onFailure")>>]
      BY <1>7 DEF HeaderCallback, Handles
    <2>2. a.op = "insertAuth" /\ b.op = "setConnected" /\ c.op = "startWriting"
          /\ d.op = "startReading"
      BY DEF Plain
    <2> HIDE DEF a, b, c, d
    <2>3. calls \in Seq(S) /\ Chained(calls) /\ Range(calls) \subseteq S
      BY <2>2 DEF Chained, Range
    <2>4. b \in Range(calls) /\ c \in Range(calls)
      <3>1. 2 \in DOMAIN calls /\ 3 \in DOMAIN calls /\ calls[2] = b /\ calls[3] = c
        OBVIOUS
      <3> QED BY <3>1 DEF Range
    <2>5. \A x \in S : x.op \notin SetupCalls
      BY <2>2
    <2> HIDE DEF S, calls
    <2>6. CASE setup[n].res = "ok" /\ todo' = [todo EXCEPT ![t] = calls]
      <3>1. InOrder' /\ Moves(t, {}, {}, Range(calls))
        BY <1>1, <2>3, <2>6, BeginStack
      <3>2. Goal({}, Range(calls))
        BY <2>2, <2>3, <2>4, <2>5, <2>6, <3>1
      <3> QED BY <3>1, <3>2
    <2> HIDE DEF Goal
    <2> QED BY <1>3, <2>1, <2>6
  <1> QED BY <1>4, <1>5, <1>6, <1>7

----------------------------------------------------------------------------
(* The read loop.                                                          *)

\* The current read loop goes on when nothing was done to it.
LEMMA RunsKept ==
  ASSUME ReadInv, NEW t \in Threads, NEW old, NEW top, NEW rest,
         Moves(t, old, top, rest), UNCHANGED readCur,
         \A c \in old : c.op \in ReadCalls => c.on # readCur,
         readCur \in Loops /\ rd[readCur].op # "idle" => rd'[readCur].op # "idle"
  PROVE  ReaderRuns'
  <1>1. SUFFICES ASSUME readCur # NoLoop
                 PROVE  rd'[readCur].op # "idle" \/ BusyOn(ReadCalls, readCur)'
    BY DEF ReaderRuns
  <1>2. readCur \in Loops
    BY <1>1 DEF ReadInv, TypeOK
  <1>3. rd[readCur].op # "idle" \/ BusyOn(ReadCalls, readCur)
    BY <1>1 DEF ReadInv, ReaderRuns
  <1>4. ASSUME NEW n, \A c \in old : c.op \in ReadCalls => c.on # n, BusyOn(ReadCalls, n)
        PROVE  BusyOn(ReadCalls, n)'
    BY <1>4, BusyOnKept
  <1>5. BusyOn(ReadCalls, readCur) => BusyOn(ReadCalls, readCur)'
    BY <1>4 DEF BusyOn
  <1> QED BY <1>2, <1>3, <1>5

\* The current read loop has been taken over by a call.
LEMMA RunsBusy ==
  ASSUME NEW t \in Threads, NEW old, NEW top, NEW rest, Moves(t, old, top, rest),
         \E c \in top \cup rest : c.op \in ReadCalls /\ c.on = readCur'
  PROVE  ReaderRuns'
  <1>1. PICK c \in top \cup rest : c.op \in ReadCalls /\ c.on = readCur'
    OBVIOUS
  <1>2. BusyOn(ReadCalls, c.on)'
    BY <1>1, BusyMoves
  <1>3. BusyOn(ReadCalls, readCur)'
    BY <1>1, <1>2 DEF BusyOn
  <1> QED BY <1>3 DEF ReaderRuns

\* Nothing is stored in addition, and nobody who would look after it leaves.
LEMMA ComesKept ==
  ASSUME ReadInv, NEW t \in Threads, NEW old, NEW top, NEW rest,
         Moves(t, old, top, rest), UNCHANGED readCur,
         \A c \in old : c.op \notin WatchOps, store' \subseteq store
  PROVE  ReaderComes'
  <1>1. Busy(WatchOps) => Busy(WatchOps)'
    BY BusyMoves
  <1> QED BY <1>1 DEF ReadInv, ReaderComes

\* Somebody looks after what is stored.
LEMMA ComesBusy ==
  ASSUME NEW t \in Threads, NEW old, NEW top, NEW rest, Moves(t, old, top, rest),
         \E c \in top \cup rest \cup Below(t) : c.op \in WatchOps
  PROVE  ReaderComes'
  <1>1. Busy(WatchOps)'
    BY BusyMoves
  <1> QED BY <1>1 DEF ReaderComes

\* A call or a handler that leaves the read loops and the store alone.
LEMMA ReadQuiet ==
  ASSUME ReadInv, TypeOK', InOrder', NEW t \in Threads, NEW old, NEW top, NEW rest,
         Moves(t, old, top, rest), UNCHANGED <<authIDs, permanentFailure, readCur>>,
         \A c \in old : c.op \notin ReadCalls \cup WatchOps, store' \subseteq store,
         \A l \in Loops : rd[l].op # "idle" => rd'[l].op # "idle"
  PROVE  ReadInv'
  <1>1. ReaderRuns'
    BY RunsKept
  <1>2. ReaderComes'
    BY ComesKept
  <1> QED BY <1>1, <1>2 DEF ReadInv

\* Closing a socket ends no operation: its handler is still to come.
LEMMA AbortedKeeps ==
  ASSUME NEW loop \in [Loops -> LoopRec], NEW s, NEW l \in Loops
  PROVE  Aborted(loop, s)[l].op # "idle" <=> loop[l].op # "idle"
  <1>1. loop[l] \in LoopRec
    OBVIOUS
  <1>2. [loop[l] EXCEPT !.op = "err"].op = "err"
    BY <1>1 DEF LoopRec
  <1> QED BY <1>2 DEF Aborted

\* Calls that leave the read loops and the store alone.
LEMMA ReadQuietRun ==
  ASSUME ReadInv, ~Auth, TypeOK', NEW t \in Threads,
         \/ Enqueue(t) \/ CheckConnected(t) \/ StartWriting(t) \/ Front(t) \/ IssueWrite(t)
         \/ FindByID(t) \/ RemoveByID(t) \/ MoveRequest(t) \/ Invoke(t)
         \/ StopWriting(t) \/ ShutdownSocket(t) \/ ResolveAgain(t) \/ Connecting(t)
  PROVE  ReadInv'
  <1> USE DEF itemVars, queueVars, connVars, loopVars, setupVars, netVars, budgetVars, outsideVars
  <1>1. TypeOK /\ InOrder /\ authIDs = {} /\ ~permanentFailure
    BY DEF ReadInv
  <1>2. /\ todo[t] # <<>> /\ InOrder'
        /\ \E top, rest : Moves(t, {Now(t)}, top, rest)
    BY <1>1, RunStack DEF Writing, Reading, Restarting
  <1>3. /\ Now(t).op \notin ReadCalls \cup WatchOps /\ store' \subseteq store
        /\ UNCHANGED <<authIDs, readCur>>
        /\ UNCHANGED rd \/ rd' = Aborted(rd, socket)
    <2> USE DEF At, Now, ReadCalls, WatchOps
    <2>1. CASE Enqueue(t) \/ CheckConnected(t) \/ StartWriting(t) \/ Front(t) \/ IssueWrite(t)
      BY <2>1 DEF Enqueue, CheckConnected, StartWriting, Front, IssueWrite
    <2>2. CASE FindByID(t) \/ RemoveByID(t) \/ MoveRequest(t) \/ Invoke(t)
      BY <2>2 DEF FindByID, RemoveByID, MoveRequest, Invoke, Without
    <2>3. CASE StopWriting(t) \/ ShutdownSocket(t) \/ ResolveAgain(t)
      BY <2>3 DEF StopWriting, ShutdownSocket, ResolveAgain
    <2>4. CASE Connecting(t)
      BY <2>4 DEF Connecting, InitSocket, StartSSLHandshake, FinishInitialization,
                  InsertAuthenticationRequests, SetConnected, OnFailure
    <2> QED BY <2>1, <2>2, <2>3, <2>4
  <1>4. UNCHANGED permanentFailure
    <2>1. CASE Invoke(t)
      <3>1. permanentFailure' = (permanentFailure \/ (/\ NotInvoked(Now(t).id)
                                                      /\ Now(t).id \in authIDs
                                                      /\ Now(t).err \in Errors))
        BY <2>1 DEF Invoke
      <3>2. permanentFailure \in BOOLEAN /\ ~permanentFailure
        BY <1>1 DEF TypeOK
      <3>3. Now(t).id \notin authIDs
        BY <1>1
      <3> QED BY <3>1, <3>2, <3>3, Zenon
    <2>2. CASE ~Invoke(t)
      BY <2>2 DEF Enqueue, CheckConnected, StartWriting, Front, IssueWrite, FindByID, RemoveByID,
                  MoveRequest, StopWriting, ShutdownSocket, ResolveAgain, Connecting, InitSocket,
                  StartSSLHandshake, FinishInitialization, InsertAuthenticationRequests,
                  SetConnected, OnFailure
    <2> QED BY <2>1, <2>2
  <1>5. \A l \in Loops : rd[l].op # "idle" => rd'[l].op # "idle"
    BY <1>1, <1>3, AbortedKeeps DEF TypeOK
  <1>6. PICK top, rest : Moves(t, {Now(t)}, top, rest)
    BY <1>2
  <1> QED BY <1>2, <1>3, <1>4, <1>5, <1>6, ReadQuiet

\* The write loop stores its item, and makes sure that somebody reads.
LEMMA ReadStore ==
  ASSUME ReadInv, TypeOK', NEW t \in Threads, AddToStore(t) \/ RemoveFirst(t)
  PROVE  ReadInv'
  <1> USE DEF itemVars, queueVars, connVars, loopVars, setupVars, netVars, budgetVars, outsideVars
  <1>1. TypeOK /\ InOrder /\ todo \in [Threads -> Seq(Call)]
    BY DEF ReadInv, TypeOK
  <1>2. todo[t] # <<>> /\ InOrder'
    BY <1>1, RunStack DEF Writing
  <1>3. /\ Now(t).op \notin ReadCalls
        /\ UNCHANGED <<authIDs, permanentFailure, readCur, rd>>
    BY DEF AddToStore, RemoveFirst, At, Now, ReadCalls
  <1>4. \E top, rest : /\ Moves(t, {Now(t)}, top, rest)
                       /\ \E c \in top \cup rest : c.op \in WatchOps
    <2>1. CASE AddToStore(t)
      <3> DEFINE a == Send("removeFirst", Now(t).on, Now(t).id, Now(t).held)
      <3>1. a.op = "removeFirst" /\ Then(t, <<a>>)
        BY <2>1 DEF AddToStore, Send
      <3> HIDE DEF a
      <3>2. Moves(t, {Now(t)}, {a}, {})
        BY <1>1, <1>2, <3>1, ThenMoves
      <3>3. \E c \in {a} \cup {} : c.op \in WatchOps
        BY <3>1 DEF WatchOps
      <3> QED BY <3>2, <3>3
    <2>2. CASE RemoveFirst(t)
      <3> DEFINE a == Plain("startReading")
                 b == Send("issueWrite", Now(t).on, Now(t).id, Now(t).held)
      <3>1. a.op = "startReading" /\ Then(t, <<a, b>>)
        BY <2>2 DEF RemoveFirst, WriteCallsFor, Plain
      <3> HIDE DEF a, b
      <3>2. Moves(t, {Now(t)}, {}, {a, b})
        BY <1>1, <1>2, <3>1, ThenMoves
      <3>3. \E c \in {} \cup {a, b} : c.op \in WatchOps
        BY <3>1 DEF WatchOps
      <3> QED BY <3>2, <3>3
    <2> QED BY <2>1, <2>2
  <1>5. PICK top, rest : /\ Moves(t, {Now(t)}, top, rest)
                         /\ \E c \in top \cup rest : c.op \in WatchOps
    BY <1>4
  <1>6. ReaderRuns'
    BY <1>3, <1>5, RunsKept
  <1>7. ReaderComes'
    BY <1>5, ComesBusy
  <1> QED BY <1>2, <1>3, <1>6, <1>7 DEF ReadInv

\* startReading keeps the loop there is, or starts one.
LEMMA ReadStart ==
  ASSUME ReadInv, TypeOK', NEW t \in Threads, StartReading(t)
  PROVE  ReadInv'
  <1> USE DEF itemVars, queueVars, connVars, loopVars, setupVars, netVars, budgetVars, outsideVars
  <1>1. TypeOK /\ InOrder /\ todo \in [Threads -> Seq(Call)]
    BY DEF ReadInv, TypeOK
  <1>2. todo[t] # <<>> /\ InOrder'
    BY <1>1, RunStack DEF Reading
  <1>3. UNCHANGED <<authIDs, permanentFailure>>
    BY DEF StartReading
  <1>4. CASE readCur # NoLoop
    <2>1. Return(t) /\ UNCHANGED <<readCur, rd>> /\ Now(t).op \notin ReadCalls
      BY <1>4 DEF StartReading, NoReadLoop, At, Now, ReadCalls
    <2>2. Moves(t, {Now(t)}, {}, {})
      BY <1>1, <1>2, <2>1, ThenMoves
    <2>3. ReaderRuns'
      BY <2>1, <2>2, RunsKept
    <2>4. ReaderComes'
      BY <1>4, <2>1 DEF ReaderComes
    <2> QED BY <1>2, <1>3, <2>3, <2>4 DEF ReadInv
  <1>5. CASE readCur = NoLoop
    <2>1. PICK l \in Loops : readCur' = l /\ Then(t, <<On("readNextBytes", l, FALSE)>>)
      BY <1>5 DEF StartReading, NoReadLoop
    <2> DEFINE a == On("readNextBytes", l, FALSE)
    <2>2. a.op = "readNextBytes" /\ a.on = l /\ Then(t, <<a>>)
      BY <2>1 DEF On
    <2> HIDE DEF a
    <2>3. Moves(t, {Now(t)}, {a}, {})
      BY <1>1, <1>2, <2>2, ThenMoves
    <2>4. \E c \in {a} \cup {} : c.op \in ReadCalls /\ c.on = readCur'
      BY <2>1, <2>2 DEF ReadCalls
    <2>5. ReaderRuns'
      BY <2>3, <2>4, RunsBusy
    <2>6. readCur' # NoLoop
      BY <2>1 DEF Loops, NoLoop
    <2> QED BY <1>2, <1>3, <2>5, <2>6 DEF ReadInv, ReaderComes
  <1> QED BY <1>4, <1>5

\* An operation that was started is not idle.
LEMMA StartedBusy ==
  ASSUME NEW f \in [Loops -> LoopRec], NEW k \in Loops, NEW d, NEW l \in Loops,
         f[l].op # "idle" \/ l = k
  PROVE  [f EXCEPT ![k] = Started(f[k], d)][l].op # "idle"
  <1>1. Started(f[k], d).op \in {"err", "pending"}
    BY DEF Started
  <1> QED BY <1>1

\* The read loop stops when nothing is stored, or reads.
LEMMA ReadLoopStep ==
  ASSUME ReadInv, TypeOK', NEW t \in Threads, ReadNextBytes(t) \/ IssueRead(t)
  PROVE  ReadInv'
  <1> USE DEF itemVars, queueVars, connVars, loopVars, setupVars, netVars, budgetVars, outsideVars
  <1> DEFINE c == Now(t)
  <1>1. TypeOK /\ InOrder /\ todo \in [Threads -> Seq(Call)] /\ ~permanentFailure
        /\ rd \in [Loops -> LoopRec]
    BY DEF ReadInv, TypeOK
  <1>2. todo[t] # <<>> /\ InOrder'
    BY <1>1, RunStack DEF Reading
  <1>3. /\ UNCHANGED <<authIDs, permanentFailure, store>>
        /\ c.op \in {"readNextBytes", "issueRead"}
    BY DEF ReadNextBytes, IssueRead, At, Now
  <1>4. c.op \in ReadCalls /\ c.op \notin WatchOps
    BY <1>3 DEF ReadCalls, WatchOps
  <1>5. c.on \in Loops
    BY <1>1, <1>2, <1>4, NowIsCall DEF Call
  <1>6. ASSUME NEW top, NEW rest, Moves(t, {Now(t)}, top, rest), UNCHANGED readCur, ReaderRuns'
        PROVE  ReadInv'
    <2>1. ReaderComes'
      BY <1>3, <1>4, <1>6, ComesKept
    <2> QED BY <1>2, <1>3, <1>6, <2>1 DEF ReadInv
  <1>7. ASSUME readCur # c.on, Return(t), UNCHANGED readCur,
               readCur \in Loops /\ rd[readCur].op # "idle" => rd'[readCur].op # "idle"
        PROVE  ReadInv'
    <2>1. Moves(t, {Now(t)}, {}, {})
      BY <1>1, <1>2, <1>7, ThenMoves
    <2>2. ReaderRuns'
      BY <1>7, <2>1, RunsKept
    <2> QED BY <1>6, <1>7, <2>1, <2>2
  <1>8. CASE IssueRead(t)
    <2>1. /\ rd' = [rd EXCEPT ![c.on] = Started(rd[c.on], <<>>)] /\ UNCHANGED readCur
          /\ Return(t)
      BY <1>8 DEF IssueRead
    <2>2. CASE readCur = c.on
      <3>1. rd'[c.on].op # "idle"
        BY <1>1, <1>5, <2>1, StartedBusy
      <3>2. ReaderRuns'
        BY <2>1, <2>2, <3>1 DEF ReaderRuns
      <3>3. Moves(t, {Now(t)}, {}, {})
        BY <1>1, <1>2, <2>1, ThenMoves
      <3> QED BY <1>6, <2>1, <3>2, <3>3
    <2>3. CASE readCur # c.on
      <3>1. readCur \in Loops /\ rd[readCur].op # "idle" => rd'[readCur].op # "idle"
        BY <1>1, <1>5, <2>1, StartedBusy
      <3> QED BY <1>7, <2>1, <2>3, <3>1
    <2> QED BY <2>2, <2>3
  <1>9. CASE ReadNextBytes(t)
    <2>1. UNCHANGED rd
      BY <1>9 DEF ReadNextBytes
    <2>2. CASE readCur # c.on /\ Return(t) /\ UNCHANGED readCur
      BY <1>7, <2>1, <2>2
    <2>3. CASE readCur' = NoLoop /\ store = {}
      BY <1>2, <1>3, <2>3 DEF ReadInv, ReaderRuns, ReaderComes
    <2>4. CASE readCur = c.on /\ UNCHANGED readCur /\ Then(t, <<On("issueRead", c.on, c.held)>>)
      <3> DEFINE a == On("issueRead", c.on, c.held)
      <3>1. a.op = "issueRead" /\ a.on = c.on /\ Then(t, <<a>>)
        BY <2>4 DEF On
      <3> HIDE DEF a
      <3>2. Moves(t, {Now(t)}, {a}, {})
        BY <1>1, <1>2, <3>1, ThenMoves
      <3>3. \E d \in {a} \cup {} : d.op \in ReadCalls /\ d.on = readCur'
        BY <2>4, <3>1 DEF ReadCalls
      <3>4. ReaderRuns'
        BY <3>2, <3>3, RunsBusy
      <3> QED BY <1>6, <2>4, <3>2, <3>4
    <2> QED BY <1>1, <1>9, <2>2, <2>3, <2>4 DEF ReadNextBytes
  <1> QED BY <1>8, <1>9

\* restartConnection, stopReading and cancelAll.
LEMMA ReadRestart ==
  ASSUME ReadInv, TypeOK', NEW t \in Threads,
         RestartRead(t) \/ RestartWrite(t) \/ Restart(t) \/ StopReading(t) \/ CancelAll(t)
  PROVE  ReadInv'
  <1> USE DEF itemVars, queueVars, connVars, loopVars, setupVars, netVars, budgetVars, outsideVars
  <1> DEFINE c == Now(t)
  <1>1. TypeOK /\ InOrder /\ todo \in [Threads -> Seq(Call)] /\ ~permanentFailure /\ authIDs = {}
    BY DEF ReadInv, TypeOK
  <1>2. todo[t] # <<>> /\ InOrder'
    BY <1>1, RunStack DEF Restarting
  <1>3. UNCHANGED authIDs /\ UNCHANGED rd
    BY DEF RestartRead, RestartWrite, RestartOf, Restart, StopReading, CancelAll
  <1>4. CASE RestartRead(t) \/ RestartWrite(t)
    <2>1. UNCHANGED <<permanentFailure, store>>
      BY <1>4 DEF RestartRead, RestartWrite, RestartOf
    <2>2. CASE Return(t) /\ UNCHANGED readCur /\ (RestartRead(t) => readCur # c.on)
      <3>1. Moves(t, {Now(t)}, {}, {})
        BY <1>1, <1>2, <2>2, ThenMoves
      <3>2. c.op \in ReadCalls => c.on # readCur
        <4>1. CASE RestartWrite(t)
          BY <4>1 DEF RestartWrite, At, Now, ReadCalls
        <4>2. CASE RestartRead(t)
          BY <2>2, <4>2
        <4> QED BY <1>4, <4>1, <4>2
      <3>3. c.op \notin WatchOps
        BY <1>4 DEF RestartRead, RestartWrite, At, Now, WatchOps
      <3>4. ReaderRuns'
        BY <1>3, <2>2, <3>1, <3>2, RunsKept
      <3>5. ReaderComes'
        BY <2>1, <2>2, <3>1, <3>3, ComesKept
      <3> QED BY <1>1, <1>2, <1>3, <2>1, <3>4, <3>5 DEF ReadInv
    <2>3. CASE readCur' = NoLoop /\ Then(t, <<Fail("restart", 0, c.err)>>)
      <3> DEFINE a == Fail("restart", 0, c.err)
      <3>1. a.op = "restart" /\ Then(t, <<a>>)
        BY <2>3 DEF Fail
      <3> HIDE DEF a
      <3>2. Moves(t, {Now(t)}, {a}, {})
        BY <1>1, <1>2, <3>1, ThenMoves
      <3>3. \E d \in {a} \cup {} \cup Below(t) : d.op \in WatchOps
        BY <3>1 DEF WatchOps
      <3>4. ReaderComes'
        BY <3>2, <3>3, ComesBusy
      <3> QED BY <1>1, <1>2, <1>3, <2>1, <2>3, <3>4 DEF ReadInv, ReaderRuns
    <2>4. CASE RestartRead(t)
      BY <2>2, <2>3, <2>4 DEF RestartRead, RestartOf
    <2>5. CASE RestartWrite(t)
      <3>1. ~RestartRead(t)
        BY <2>5 DEF RestartRead, RestartWrite, At
      <3> QED BY <2>2, <2>3, <2>5, <3>1 DEF RestartWrite, RestartOf
    <2> QED BY <1>4, <2>4, <2>5
  <1>5. CASE Restart(t)
    <2>1. PICK rest : /\ Moves(t, {Now(t)}, {}, rest)
                      /\ \A x \in {"cancelAll", "shutdownSocket"} : \E d \in rest : d.op = x
      BY <1>1, <1>5, RestartStack
    <2>2. \E d \in {} \cup rest \cup Below(t) : d.op \in WatchOps
      BY <2>1 DEF WatchOps
    <2>3. ReaderComes'
      BY <2>1, <2>2, ComesBusy
    <2>4. readCur' = NoLoop /\ UNCHANGED permanentFailure
      BY <1>5 DEF Restart
    <2> QED BY <1>1, <1>2, <1>3, <2>3, <2>4 DEF ReadInv, ReaderRuns
  <1>6. CASE StopReading(t)
    <2>1. Return(t) /\ c.op = "stopReading" /\ readCur' = NoLoop /\ UNCHANGED permanentFailure
      BY <1>6 DEF StopReading, At, Now
    <2>2. Moves(t, {Now(t)}, {}, {})
      BY <1>1, <1>2, <2>1, ThenMoves
    <2>3. \E d \in {} \cup {} \cup Below(t) : d.op \in WatchOps
      BY <1>1, <1>2, <2>1, Follows DEF WatchOps
    <2>4. ReaderComes'
      BY <2>2, <2>3, ComesBusy
    <2> QED BY <1>1, <1>2, <1>3, <2>1, <2>4 DEF ReadInv, ReaderRuns
  <1>7. CASE CancelAll(t)
    <2>1. store' = {} /\ UNCHANGED readCur /\ c.op \notin ReadCalls
      BY <1>7 DEF CancelAll, At, Now, ReadCalls
    <2>2. permanentFailure' = FALSE
      <3>1. permanentFailure' = (permanentFailure \/ Cancelled \cap authIDs # {})
        BY <1>7 DEF CancelAll
      <3>2. ~(Cancelled \cap authIDs # {})
        BY <1>1
      <3> QED BY <1>1, <3>1, <3>2, Zenon
    <2>3. PICK top, rest : Moves(t, {Now(t)}, top, rest)
      BY <1>1, <1>7, RunStack DEF Restarting
    <2>4. ReaderRuns'
      BY <1>3, <2>1, <2>3, RunsKept
    <2> QED BY <1>1, <1>2, <1>3, <2>1, <2>2, <2>4 DEF ReadInv, ReaderComes
  <1> QED BY <1>4, <1>5, <1>6, <1>7

\* sendRequest and the handlers.
LEMMA ReadHandler ==
  ASSUME ReadInv, TypeOK', NEW t \in Threads, SendRequest(t) \/ Dispatch(t)
  PROVE  ReadInv'
  <1> USE DEF itemVars, queueVars, connVars, loopVars, setupVars, netVars, budgetVars, outsideVars
  <1>1. TypeOK /\ InOrder /\ ~permanentFailure /\ authIDs = {} /\ rd \in [Loops -> LoopRec]
    BY DEF ReadInv, TypeOK
  <1>2. ASSUME InOrder', NEW top, NEW rest, Moves(t, {}, top, rest),
               UNCHANGED <<authIDs, permanentFailure, readCur, store>>,
               \A l \in Loops : rd[l].op # "idle" => rd'[l].op # "idle"
        PROVE  ReadInv'
    BY <1>2, ReadQuiet
  <1>3. CASE SendRequest(t)
    <2>1. PICK rest : InOrder' /\ Moves(t, {}, {}, rest)
      BY <1>1, <1>3, SendStack
    <2>2. UNCHANGED <<authIDs, permanentFailure, readCur, store, rd>>
      BY <1>3 DEF SendRequest
    <2> QED BY <1>2, <2>1, <2>2
  <1>4. ASSUME NEW n \in Sockets,
               \/ ResolveCallback(t, n) \/ AsyncConnectCallback(t, n)
               \/ HandshakeCallback(t, n) \/ HeaderCallback(t, n)
        PROVE  ReadInv'
    <2>1. InOrder' /\ \E top, rest : Moves(t, {}, top, rest)
      BY <1>1, <1>4, SetupHandlerStack
    <2>2. UNCHANGED <<authIDs, permanentFailure, readCur, store, rd>>
      BY <1>4 DEF ResolveCallback, AsyncConnectCallback, HandshakeCallback, HeaderCallback, Handles
    <2> QED BY <1>2, <2>1, <2>2
  <1>5. ASSUME NEW l \in Loops,
               ReadDeadline(t, l) \/ WriteCallback(t, l) \/ WriteDeadline(t, l)
        PROVE  ReadInv'
    <2>1. InOrder' /\ \E top, rest : Moves(t, {}, top, rest)
      BY <1>1, <1>5, LoopHandlerStack
    <2>2. UNCHANGED <<authIDs, permanentFailure, readCur, store>>
      BY <1>5 DEF ReadDeadline, WriteCallback, WriteDeadline
    <2>3. rd' = [rd EXCEPT ![l].expired = FALSE] \/ UNCHANGED rd
      BY <1>5 DEF ReadDeadline, WriteCallback, WriteDeadline
    <2>4. [rd[l] EXCEPT !.expired = FALSE].op = rd[l].op
      BY <1>1 DEF LoopRec
    <2>5. \A k \in Loops : rd[k].op # "idle" => rd'[k].op # "idle"
      BY <1>1, <2>3, <2>4
    <2> QED BY <1>2, <2>1, <2>2, <2>5
  <1>6. ASSUME NEW l \in Loops, ReadCallback(t, l)
        PROVE  ReadInv'
    <2>1. PICK top, rest : /\ InOrder' /\ Moves(t, {}, top, rest)
                           /\ \E c \in top \cup rest : c.op \in ReadCalls /\ c.on = l
      BY <1>1, <1>6, LoopHandlerStack
    <2>2. UNCHANGED <<authIDs, permanentFailure, readCur, store>>
      BY <1>6 DEF ReadCallback
    <2>3. \A k \in Loops \ {l} : rd'[k] = rd[k]
      BY <1>1, <1>6 DEF ReadCallback
    <2>4. ReaderRuns'
      <3>1. CASE readCur = l
        <4>1. \E c \in top \cup rest : c.op \in ReadCalls /\ c.on = readCur'
          BY <2>1, <2>2, <3>1
        <4> QED BY <2>1, <4>1, RunsBusy
      <3>2. CASE readCur # l
        <4>1. readCur \in Loops /\ rd[readCur].op # "idle" => rd'[readCur].op # "idle"
          BY <2>3, <3>2
        <4> QED BY <2>1, <2>2, <4>1, RunsKept
      <3> QED BY <3>1, <3>2
    <2>5. ReaderComes'
      BY <2>1, <2>2, ComesKept
    <2> QED BY <2>1, <2>2, <2>4, <2>5 DEF ReadInv
  <1> QED BY <1>3, <1>4, <1>5, <1>6 DEF Dispatch

\* Steps of no thread, and the death of the process.
LEMMA ReadEnvironment ==
  ASSUME ReadInv, TypeOK',
         \/ Completion \/ Expiry \/ Server \/ Fault \/ \E t \in Threads : Dying(t)
         \/ UNCHANGED vars
  PROVE  ReadInv'
  <1> USE DEF itemVars, queueVars, connVars, loopVars, setupVars, netVars, budgetVars, outsideVars
  <1>1. /\ UNCHANGED todo /\ UNCHANGED <<authIDs, permanentFailure, readCur, store>>
    BY DEF Completion, Expiry, Server, Fault, WriteCompletes, WriteFails, ReadCompletes,
           ReadFails, SetupCompletes, ReadExpires, WriteExpires, Respond, SetupFails,
           ConnectionLost, Dying, DerefFreedLoop, DerefNullRequest, DerefNullSocket,
           AssertFails, Abort, vars
  <1>2. rd \in [Loops -> LoopRec]
    BY DEF ReadInv, TypeOK
  <1>3. \A l \in Loops : rd[l].op # "idle" => rd'[l].op # "idle"
    <2>1. CASE UNCHANGED rd
      BY <2>1
    <2>2. ASSUME NEW l \in Loops, ReadCompletes(l) \/ ReadFails(l) \/ ReadExpires(l)
          PROVE  \A k \in Loops : rd[k].op # "idle" => rd'[k].op # "idle"
      <3> DEFINE r == rd[l]
      <3>1. r \in LoopRec
        BY <1>2
      <3>2. /\ \A d : [r EXCEPT !.op = "ok", !.data = d].op = "ok"
            /\ [r EXCEPT !.op = "err"].op = "err"
            /\ [r EXCEPT !.armed = FALSE, !.expired = TRUE].op = r.op
        BY <3>1 DEF LoopRec
      <3>3. \A k \in Loops \ {l} : rd'[k] = rd[k]
        BY <1>2, <2>2 DEF ReadCompletes, ReadFails, ReadExpires
      <3>4. \/ \E d : rd'[l] = [r EXCEPT !.op = "ok", !.data = d]
            \/ rd'[l] = [r EXCEPT !.op = "err"]
            \/ rd'[l] = [r EXCEPT !.armed = FALSE, !.expired = TRUE]
        BY <1>2, <2>2 DEF ReadCompletes, ReadFails, ReadExpires
      <3>5. r.op # "idle" => rd'[l].op # "idle"
        BY <3>2, <3>4
      <3> QED BY <3>3, <3>5
    <2>3. \/ UNCHANGED rd
          \/ \E l \in Loops : ReadCompletes(l) \/ ReadFails(l) \/ ReadExpires(l)
      BY DEF Completion, Expiry, Server, Fault, WriteCompletes, WriteFails, SetupCompletes,
             WriteExpires, Respond, SetupFails, ConnectionLost, Dying, DerefFreedLoop,
             DerefNullRequest, DerefNullSocket, AssertFails, Abort, vars
    <2> QED BY <2>1, <2>2, <2>3
  <1>4. InOrder' /\ \A ops : Busy(ops)' = Busy(ops)
    BY <1>1, BusySame DEF ReadInv
  <1>5. ReaderRuns'
    <2>1. BusyOn(ReadCalls, readCur) => BusyOn(ReadCalls, readCur)'
      BY <1>1 DEF BusyOn, CallsOf
    <2>2. readCur # NoLoop => readCur \in Loops
      BY DEF ReadInv, TypeOK
    <2> QED BY <1>1, <1>3, <2>1, <2>2 DEF ReadInv, ReaderRuns
  <1>6. ReaderComes'
    BY <1>1, <1>4 DEF ReadInv, ReaderComes
  <1> QED BY <1>1, <1>4, <1>5, <1>6 DEF ReadInv

\* The constructor leaves nothing to read.
LEMMA ReadInit == Init => ReadInv
  <1> SUFFICES ASSUME Init PROVE ReadInv
    OBVIOUS
  <1>1. \A t \in Threads : todo[t] = <<>>
    BY DEF Init
  <1>2. InOrder
    BY <1>1 DEF InOrder, Chained
  <1> QED BY <1>2, TypeInit DEF Init, ReadInv, ReaderRuns, ReaderComes

\* The invariant is inductive when there is no authentication.
LEMMA ReadStep ==
  ASSUME ~Auth PROVE ReadInv /\ [Next]_vars => ReadInv'
  <1> SUFFICES ASSUME ReadInv, [Next]_vars PROVE ReadInv'
    OBVIOUS
  <1>1. TypeOK'
    BY TypeStep DEF ReadInv
  <1>2. ASSUME NEW t \in Threads, Run(t) PROVE ReadInv'
    <2>1. CASE Writing(t)
      BY <1>1, <2>1, ReadQuietRun, ReadStore DEF Writing
    <2>2. CASE Reading(t)
      BY <1>1, <2>2, ReadQuietRun, ReadStart, ReadLoopStep DEF Reading
    <2>3. CASE Restarting(t)
      BY <1>1, <2>3, ReadQuietRun, ReadRestart DEF Restarting
    <2>4. CASE Connecting(t)
      BY <1>1, <2>4, ReadQuietRun
    <2>5. CASE Dying(t)
      BY <1>1, <2>5, ReadEnvironment
    <2> QED BY <1>2, <2>1, <2>2, <2>3, <2>4, <2>5 DEF Run
  <1>3. ASSUME NEW t \in Users, SendRequest(t) PROVE ReadInv'
    BY <1>1, <1>3, ReadHandler DEF Threads
  <1>4. ASSUME NEW t \in IoThreads, Dispatch(t) PROVE ReadInv'
    BY <1>1, <1>4, ReadHandler DEF Threads
  <1>5. CASE Completion \/ Expiry \/ Server \/ Fault \/ UNCHANGED vars
    BY <1>1, <1>5, ReadEnvironment
  <1> QED BY <1>2, <1>3, <1>4, <1>5 DEF Next

\* A thread that rests has nothing to do.
LEMMA RestingIsIdle == Resting => \A ops : ~Busy(ops) /\ \A n : ~BusyOn(ops, n)
  <1> SUFFICES ASSUME Resting PROVE \A ops : ~Busy(ops) /\ \A n : ~BusyOn(ops, n)
    OBVIOUS
  <1>1. \A t \in Threads : CallsOf(t) = {}
    BY DEF Resting, Idle, CallsOf
  <1> QED BY <1>1 DEF Busy, BusyOn

\* No wakeup of the read loop is lost: the requests in the message store are
\* there while a read of the current loop is in progress, or some thread is
\* between adding them and startReading, or between stopReading and
\* cancelAll.  Proved without authentication; a failed authentication leaves
\* its requests in the store for good.
THEOREM ResponsesAwaited ==
  ASSUME ~Auth PROVE Spec => []StoreWatched
  <1>1. ReadInv => StoreWatched
    <2> SUFFICES ASSUME ReadInv, Resting, store # {}
                 PROVE  readCur # NoLoop /\ rd[readCur].op # "idle"
      BY DEF StoreWatched
    <2>1. ~Busy(WatchOps) /\ ~BusyOn(ReadCalls, readCur)
      BY RestingIsIdle
    <2> QED BY <2>1 DEF ReadInv, ReaderRuns, ReaderComes
  <1> QED BY <1>1, ReadInit, ReadStep, PTL DEF Spec

----------------------------------------------------------------------------
(* The write loop: the loop itself.                                        *)

\* The current write loop goes on when nothing was done to it.
LEMMA WriterRunsKept ==
  ASSUME WriteInv, NEW t \in Threads, NEW old, NEW top, NEW rest,
         Moves(t, old, top, rest), UNCHANGED writeCur, permanentFailure => permanentFailure',
         \A c \in old : c.op \in WriteCalls => c.on # writeCur,
         writeCur \in Loops /\ wr[writeCur].op # "idle" => wr'[writeCur].op # "idle"
  PROVE  WriterRuns'
  <1>1. SUFFICES ASSUME writeCur # NoLoop, ~permanentFailure
                 PROVE  wr'[writeCur].op # "idle" \/ BusyOn(WriteCalls, writeCur)'
    BY DEF WriterRuns
  <1>2. writeCur \in Loops
    BY <1>1 DEF WriteInv, TypeOK
  <1>3. wr[writeCur].op # "idle" \/ BusyOn(WriteCalls, writeCur)
    BY <1>1 DEF WriteInv, WriterRuns
  <1>4. ASSUME NEW n, \A c \in old : c.op \in WriteCalls => c.on # n, BusyOn(WriteCalls, n)
        PROVE  BusyOn(WriteCalls, n)'
    BY <1>4, BusyOnKept
  <1>5. BusyOn(WriteCalls, writeCur) => BusyOn(WriteCalls, writeCur)'
    BY <1>4 DEF BusyOn
  <1> QED BY <1>2, <1>3, <1>5

\* A connection that is broken for good stays so.
LEMMA KeptFailing ==
  ASSUME NEW t, Run(t), permanentFailure
  PROVE  permanentFailure'
  <1> USE DEF itemVars, queueVars, connVars, loopVars, setupVars, netVars, budgetVars, outsideVars
  <1>1. CASE Invoke(t)
    <2>1. permanentFailure' = (permanentFailure \/ (/\ NotInvoked(Now(t).id)
                                                    /\ Now(t).id \in authIDs
                                                    /\ Now(t).err \in Errors))
      BY <1>1 DEF Invoke
    <2> QED BY <2>1, Zenon
  <1>2. CASE CancelAll(t)
    <2>1. permanentFailure' = (permanentFailure \/ Cancelled \cap authIDs # {})
      BY <1>2 DEF CancelAll
    <2> QED BY <2>1, Zenon
  <1>3. CASE Writing(t)
    BY <1>3 DEF Writing, Enqueue, CheckConnected, StartWriting, Front, AddToStore, RemoveFirst,
                IssueWrite
  <1>4. CASE Reading(t) /\ ~Invoke(t)
    BY <1>4 DEF Reading, StartReading, ReadNextBytes, IssueRead, FindByID, RemoveByID, MoveRequest
  <1>5. CASE Restarting(t) /\ ~CancelAll(t)
    BY <1>5 DEF Restarting, RestartRead, RestartWrite, RestartOf, Restart, StopWriting,
                StopReading, ShutdownSocket, ResolveAgain
  <1>6. CASE Connecting(t)
    BY <1>6 DEF Connecting, InitSocket, StartSSLHandshake, FinishInitialization,
                InsertAuthenticationRequests, SetConnected, OnFailure
  <1>7. CASE Dying(t)
    BY <1>7 DEF Dying, DerefFreedLoop, DerefNullRequest, DerefNullSocket, AssertFails, Abort
  <1> QED BY <1>1, <1>2, <1>3, <1>4, <1>5, <1>6, <1>7 DEF Run

\* The current write loop has been taken over by a call.
LEMMA WriterRunsBusy ==
  ASSUME NEW t \in Threads, NEW old, NEW top, NEW rest, Moves(t, old, top, rest),
         \E c \in top \cup rest : c.op \in WriteCalls /\ c.on = writeCur'
  PROVE  WriterRuns'
  <1>1. PICK c \in top \cup rest : c.op \in WriteCalls /\ c.on = writeCur'
    OBVIOUS
  <1>2. BusyOn(WriteCalls, c.on)'
    BY <1>1, BusyMoves
  <1>3. BusyOn(WriteCalls, writeCur)'
    BY <1>1, <1>2 DEF BusyOn
  <1> QED BY <1>3 DEF WriterRuns

\* Calls that leave the write loops alone, or stop them.
LEMMA WriterRunsQuiet ==
  ASSUME WriteInv, NEW t \in Threads,
         \/ Enqueue(t) \/ CheckConnected(t) \/ Reading(t) \/ RestartRead(t) \/ Restart(t)
         \/ StopWriting(t) \/ StopReading(t) \/ ShutdownSocket(t) \/ CancelAll(t)
         \/ ResolveAgain(t) \/ Connecting(t)
  PROVE  WriterRuns'
  <1> USE DEF itemVars, queueVars, connVars, loopVars, setupVars, netVars, budgetVars, outsideVars
  <1>1. TypeOK /\ InOrder /\ wr \in [Loops -> LoopRec]
    BY DEF WriteInv, TypeOK, WriteRec
  <1>2. PICK top, rest : Moves(t, {Now(t)}, top, rest)
    BY <1>1, RunStack DEF Writing, Restarting
  <1>3. /\ Now(t).op \notin WriteCalls
        /\ UNCHANGED writeCur \/ writeCur' = NoLoop
        /\ UNCHANGED wr \/ wr' = Aborted(wr, socket)
    <2> USE DEF At, Now, WriteCalls
    <2>1. CASE Enqueue(t) \/ CheckConnected(t)
      BY <2>1 DEF Enqueue, CheckConnected
    <2>2. CASE Reading(t)
      BY <2>2 DEF Reading, StartReading, ReadNextBytes, IssueRead, FindByID, RemoveByID,
                  MoveRequest, Invoke
    <2>3. CASE RestartRead(t) \/ Restart(t) \/ StopWriting(t) \/ StopReading(t)
      BY <2>3 DEF RestartRead, RestartOf, Restart, StopWriting, StopReading
    <2>4. CASE ShutdownSocket(t) \/ CancelAll(t) \/ ResolveAgain(t)
      BY <2>4 DEF ShutdownSocket, CancelAll, ResolveAgain
    <2>5. CASE Connecting(t)
      BY <2>5 DEF Connecting, InitSocket, StartSSLHandshake, FinishInitialization,
                  InsertAuthenticationRequests, SetConnected, OnFailure
    <2> QED BY <2>1, <2>2, <2>3, <2>4, <2>5
  <1>4. permanentFailure => permanentFailure'
    BY KeptFailing DEF Run, Writing, Restarting
  <1>5. \A l \in Loops : wr[l].op # "idle" => wr'[l].op # "idle"
    BY <1>1, <1>3, AbortedKeeps
  <1>6. CASE writeCur' = NoLoop
    BY <1>6 DEF WriterRuns
  <1>7. CASE UNCHANGED writeCur
    BY <1>2, <1>3, <1>4, <1>5, <1>7, WriterRunsKept
  <1> QED BY <1>3, <1>6, <1>7

\* The steps of the write loop.
LEMMA WriterRunsStep ==
  ASSUME WriteInv, NEW t \in Threads,
         \/ StartWriting(t) \/ Front(t) \/ AddToStore(t) \/ RemoveFirst(t) \/ IssueWrite(t)
         \/ RestartWrite(t)
  PROVE  WriterRuns'
  <1> USE DEF itemVars, queueVars, connVars, loopVars, setupVars, netVars, budgetVars, outsideVars
  <1> DEFINE c == Now(t)
  <1>1. TypeOK /\ InOrder /\ todo \in [Threads -> Seq(Call)] /\ wr \in [Loops -> LoopRec]
    BY DEF WriteInv, TypeOK, WriteRec
  <1>2. todo[t] # <<>> /\ \E top, rest : Moves(t, {Now(t)}, top, rest)
    BY <1>1, RunStack DEF Writing, Restarting
  <1>3. UNCHANGED permanentFailure
    BY DEF StartWriting, Front, AddToStore, RemoveFirst, IssueWrite, RestartWrite, RestartOf
  <1>4. ASSUME UNCHANGED <<writeCur, wr>>, c.op \in WriteCalls => c.on # writeCur
        PROVE  WriterRuns'
    BY <1>2, <1>3, <1>4, WriterRunsKept
  <1>5. ASSUME NEW a, Then(t, <<a>>), a.op \in WriteCalls, a.on = writeCur' PROVE WriterRuns'
    <2>1. Moves(t, {Now(t)}, {a}, {})
      BY <1>1, <1>2, <1>5, ThenMoves
    <2>2. \E d \in {a} \cup {} : d.op \in WriteCalls /\ d.on = writeCur'
      BY <1>5
    <2> QED BY <2>1, <2>2, WriterRunsBusy
  <1>6. CASE StartWriting(t)
    <2>1. CASE UNCHANGED <<writeCur, wr>>
      <3>1. c.op \notin WriteCalls
        BY <1>6 DEF StartWriting, At, Now, WriteCalls
      <3> QED BY <1>4, <2>1, <3>1
    <2>2. ASSUME NEW l \in Loops, writeCur' = l, Then(t, <<On("front", l, FALSE)>>)
          PROVE  WriterRuns'
      <3>1. On("front", l, FALSE).op = "front" /\ On("front", l, FALSE).on = l
        BY DEF On
      <3> QED BY <1>5, <2>2, <3>1 DEF WriteCalls
    <2> QED BY <1>6, <2>1, <2>2 DEF StartWriting
  <1>7. CASE Front(t)
    <2>1. CASE writeCur' = NoLoop
      BY <2>1 DEF WriterRuns
    <2>2. CASE permanentFailure
      BY <1>3, <2>2 DEF WriterRuns
    <2>3. CASE UNCHANGED <<writeCur, wr>> /\ writeCur # c.on
      BY <1>4, <2>3
    <2>4. CASE /\ UNCHANGED writeCur /\ writeCur = c.on
               /\ Then(t, <<Send("addToStore", c.on, Head(sendQueue), c.held)>>)
      <3> DEFINE a == Send("addToStore", c.on, Head(sendQueue), c.held)
      <3>1. a.op = "addToStore" /\ a.on = c.on /\ Then(t, <<a>>)
        BY <2>4 DEF Send
      <3> HIDE DEF a
      <3> QED BY <1>5, <2>4, <3>1 DEF WriteCalls
    <2> QED BY <1>7, <2>1, <2>2, <2>3, <2>4 DEF Front
  <1>8. CASE AddToStore(t)
    <2>1. UNCHANGED <<writeCur, wr>>
      BY <1>8 DEF AddToStore
    <2> DEFINE a == Send("removeFirst", c.on, c.id, c.held)
    <2>2. a.op = "removeFirst" /\ a.on = c.on /\ Then(t, <<a>>)
      BY <1>8 DEF Send, AddToStore
    <2> HIDE DEF a
    <2> QED BY <1>4, <1>5, <2>1, <2>2 DEF WriteCalls
  <1>9. CASE RemoveFirst(t)
    <2>1. UNCHANGED <<writeCur, wr>>
      BY <1>9 DEF RemoveFirst
    <2> DEFINE a == Plain("startReading")
               b == Send("issueWrite", c.on, c.id, c.held)
    <2>2. b.op = "issueWrite" /\ b.on = c.on /\ Then(t, <<a, b>>)
      BY <1>9 DEF Send, RemoveFirst, WriteCallsFor
    <2> HIDE DEF a, b
    <2>3. CASE c.on = writeCur
      <3>1. Moves(t, {Now(t)}, {}, {a, b})
        BY <1>1, <1>2, <2>2, ThenMoves
      <3>2. \E d \in {} \cup {a, b} : d.op \in WriteCalls /\ d.on = writeCur'
        BY <2>1, <2>2, <2>3 DEF WriteCalls
      <3> QED BY <3>1, <3>2, WriterRunsBusy
    <2> QED BY <1>4, <2>1, <2>3
  <1>10. CASE IssueWrite(t)
    <2>1. /\ wr' = [wr EXCEPT ![c.on] = Started(wr[c.on], <<c.id>>)] /\ UNCHANGED writeCur
          /\ c.op = "issueWrite"
      BY <1>10 DEF IssueWrite, At, Now
    <2>2. c.on \in Loops
      BY <1>1, <1>2, <2>1, NowIsCall DEF Call, WriteCalls
    <2>3. CASE writeCur = c.on
      <3>1. wr'[c.on].op # "idle"
        BY <1>1, <2>1, <2>2, StartedBusy
      <3> QED BY <2>1, <2>3, <3>1 DEF WriterRuns
    <2>4. CASE writeCur # c.on
      <3>1. writeCur \in Loops /\ wr[writeCur].op # "idle" => wr'[writeCur].op # "idle"
        BY <1>1, <2>1, <2>2, StartedBusy
      <3> QED BY <1>2, <1>3, <2>1, <2>4, <3>1, WriterRunsKept
    <2> QED BY <2>3, <2>4
  <1>11. CASE RestartWrite(t)
    <2>1. CASE writeCur' = NoLoop
      BY <2>1 DEF WriterRuns
    <2>2. CASE UNCHANGED <<writeCur, wr>> /\ writeCur # c.on
      BY <1>4, <2>2
    <2> QED BY <1>11, <2>1, <2>2 DEF RestartWrite, RestartOf
  <1> QED BY <1>6, <1>7, <1>8, <1>9, <1>10, <1>11

\* sendRequest and the handlers.
LEMMA WriterRunsHandler ==
  ASSUME WriteInv, NEW t \in Threads, SendRequest(t) \/ Dispatch(t)
  PROVE  WriterRuns'
  <1> USE DEF itemVars, queueVars, connVars, loopVars, setupVars, netVars, budgetVars, outsideVars
  <1>1. TypeOK /\ InOrder /\ wr \in [Loops -> LoopRec]
    BY DEF WriteInv, TypeOK, WriteRec
  <1>2. ASSUME NEW top, NEW rest, Moves(t, {}, top, rest), UNCHANGED <<permanentFailure, writeCur>>,
               \A l \in Loops : wr[l].op # "idle" => wr'[l].op # "idle"
        PROVE  WriterRuns'
    BY <1>2, WriterRunsKept
  <1>3. CASE SendRequest(t)
    <2>1. PICK rest : Moves(t, {}, {}, rest)
      BY <1>1, <1>3, SendStack
    <2>2. UNCHANGED <<permanentFailure, writeCur, wr>>
      BY <1>3 DEF SendRequest
    <2> QED BY <1>2, <2>1, <2>2
  <1>4. ASSUME NEW n \in Sockets,
               \/ ResolveCallback(t, n) \/ AsyncConnectCallback(t, n)
               \/ HandshakeCallback(t, n) \/ HeaderCallback(t, n)
        PROVE  WriterRuns'
    <2>1. \E top, rest : Moves(t, {}, top, rest)
      BY <1>1, <1>4, SetupHandlerStack
    <2>2. UNCHANGED <<permanentFailure, writeCur, wr>>
      BY <1>4 DEF ResolveCallback, AsyncConnectCallback, HandshakeCallback, HeaderCallback, Handles
    <2> QED BY <1>2, <2>1, <2>2
  <1>5. ASSUME NEW l \in Loops,
               ReadCallback(t, l) \/ ReadDeadline(t, l) \/ WriteDeadline(t, l)
        PROVE  WriterRuns'
    <2>1. \E top, rest : Moves(t, {}, top, rest)
      BY <1>1, <1>5, LoopHandlerStack
    <2>2. UNCHANGED <<permanentFailure, writeCur>>
      BY <1>5 DEF ReadCallback, ReadDeadline, WriteDeadline
    <2>3. wr' = [wr EXCEPT ![l].expired = FALSE] \/ UNCHANGED wr
      BY <1>5 DEF ReadCallback, ReadDeadline, WriteDeadline
    <2>4. [wr[l] EXCEPT !.expired = FALSE].op = wr[l].op
      BY <1>1 DEF LoopRec
    <2>5. \A k \in Loops : wr[k].op # "idle" => wr'[k].op # "idle"
      BY <1>1, <2>3, <2>4
    <2> QED BY <1>2, <2>1, <2>2, <2>5
  <1>6. ASSUME NEW l \in Loops, WriteCallback(t, l)
        PROVE  WriterRuns'
    <2>1. PICK top, rest : /\ Moves(t, {}, top, rest)
                           /\ \E c \in top \cup rest : c.op \in WriteCalls /\ c.on = l
      BY <1>1, <1>6, LoopHandlerStack
    <2>2. UNCHANGED <<permanentFailure, writeCur>>
      BY <1>6 DEF WriteCallback
    <2>3. \A k \in Loops \ {l} : wr'[k] = wr[k]
      BY <1>1, <1>6 DEF WriteCallback
    <2>4. CASE writeCur = l
      <3>1. \E c \in top \cup rest : c.op \in WriteCalls /\ c.on = writeCur'
        BY <2>1, <2>2, <2>4
      <3> QED BY <2>1, <3>1, WriterRunsBusy
    <2>5. CASE writeCur # l
      <3>1. writeCur \in Loops /\ wr[writeCur].op # "idle" => wr'[writeCur].op # "idle"
        BY <2>3, <2>5
      <3> QED BY <2>1, <2>2, <3>1, WriterRunsKept
    <2> QED BY <2>4, <2>5
  <1> QED BY <1>3, <1>4, <1>5, <1>6 DEF Dispatch

\* Steps of no thread, and the death of the process.
LEMMA WriterRunsEnvironment ==
  ASSUME WriteInv,
         \/ Completion \/ Expiry \/ Server \/ Fault \/ \E t \in Threads : Dying(t)
         \/ UNCHANGED vars
  PROVE  WriterRuns'
  <1> USE DEF itemVars, queueVars, connVars, loopVars, setupVars, netVars, budgetVars, outsideVars
  <1>1. UNCHANGED todo /\ UNCHANGED <<permanentFailure, writeCur>>
    BY DEF Completion, Expiry, Server, Fault, WriteCompletes, WriteFails, ReadCompletes,
           ReadFails, SetupCompletes, ReadExpires, WriteExpires, Respond, SetupFails,
           ConnectionLost, Dying, DerefFreedLoop, DerefNullRequest, DerefNullSocket,
           AssertFails, Abort, vars
  <1>2. wr \in [Loops -> LoopRec]
    BY DEF WriteInv, TypeOK, WriteRec
  <1>3. \A l \in Loops : wr[l].op # "idle" => wr'[l].op # "idle"
    <2>1. CASE UNCHANGED wr
      BY <2>1
    <2>2. ASSUME NEW l \in Loops, WriteCompletes(l) \/ WriteFails(l) \/ WriteExpires(l)
          PROVE  \A k \in Loops : wr[k].op # "idle" => wr'[k].op # "idle"
      <3> DEFINE r == wr[l]
      <3>1. r \in LoopRec
        BY <1>2
      <3>2. /\ [r EXCEPT !.op = "ok"].op = "ok" /\ [r EXCEPT !.op = "err"].op = "err"
            /\ [r EXCEPT !.armed = FALSE, !.expired = TRUE].op = r.op
        BY <3>1 DEF LoopRec
      <3>3. \A k \in Loops \ {l} : wr'[k] = wr[k]
        BY <1>2, <2>2 DEF WriteCompletes, WriteFails, WriteExpires
      <3>4. \/ wr'[l] = [r EXCEPT !.op = "ok"]
            \/ wr'[l] = [r EXCEPT !.op = "err"]
            \/ wr'[l] = [r EXCEPT !.armed = FALSE, !.expired = TRUE]
        BY <1>2, <2>2 DEF WriteCompletes, WriteFails, WriteExpires
      <3>5. r.op # "idle" => wr'[l].op # "idle"
        BY <3>2, <3>4
      <3> QED BY <3>3, <3>5
    <2>3. \/ UNCHANGED wr
          \/ \E l \in Loops : WriteCompletes(l) \/ WriteFails(l) \/ WriteExpires(l)
      BY DEF Completion, Expiry, Server, Fault, ReadCompletes, ReadFails, SetupCompletes,
             ReadExpires, Respond, SetupFails, ConnectionLost, Dying, DerefFreedLoop,
             DerefNullRequest, DerefNullSocket, AssertFails, Abort, vars
    <2> QED BY <2>1, <2>2, <2>3
  <1>4. BusyOn(WriteCalls, writeCur) => BusyOn(WriteCalls, writeCur)'
    BY <1>1 DEF BusyOn, CallsOf
  <1>5. writeCur # NoLoop => writeCur \in Loops
    BY DEF WriteInv, TypeOK
  <1> QED BY <1>1, <1>3, <1>4, <1>5 DEF WriteInv, WriterRuns

----------------------------------------------------------------------------
(* The write loop: who starts it.                                          *)

WakeOps == {"startWriting", "checkConnected"} \cup CloseOps
FlagOps == {"setConnected"} \cup CloseOps

\* The header of the connection has been written, unless the setup or the
\* socket changed.
LEMMA HeaderKept ==
  ASSUME UNCHANGED socket, HeaderDone,
         \A n \in Sockets : setup[n].kind = "header" /\ setup[n].res = "ok"
                              /\ setup[n].sock = socket => setup'[n] = setup[n]
  PROVE  HeaderDone'
  BY DEF HeaderDone

\* Nobody who is to set the flag leaves.
LEMMA FlagKept ==
  ASSUME WriteInv, NEW t \in Threads, NEW old, NEW top, NEW rest,
         Moves(t, old, top, rest), \A c \in old : c.op \notin FlagOps,
         UNCHANGED <<helloed, socket>>, connected => connected', HeaderDone => HeaderDone'
  PROVE  FlagComes'
  <1>1. Busy(FlagOps) => Busy(FlagOps)'
    BY BusyMoves
  <1> QED BY <1>1 DEF WriteInv, FlagComes, FlagOps

\* Nobody who is to start the loop leaves.
LEMMA WaitKept ==
  ASSUME WriteInv, NEW t \in Threads, NEW old, NEW top, NEW rest,
         Moves(t, old, top, rest), \A c \in old : c.op \notin WakeOps,
         UNCHANGED <<writeCur, helloed, socket>>, permanentFailure => permanentFailure',
         sendQueue' # <<>> => sendQueue # <<>>, HeaderDone => HeaderDone'
  PROVE  WriterComes'
  <1>1. Busy(WakeOps) => Busy(WakeOps)'
    BY BusyMoves
  <1> QED BY <1>1 DEF WriteInv, WriterComes, WakeOps

\* Somebody is about to start the loop.
LEMMA WaitBusy ==
  ASSUME NEW t \in Threads, NEW old, NEW top, NEW rest, Moves(t, old, top, rest),
         \E c \in top \cup rest \cup Below(t) : c.op \in WakeOps
  PROVE  WriterComes'
  <1>1. Busy(WakeOps)'
    BY BusyMoves
  <1> QED BY <1>1 DEF WriterComes, WakeOps

\* Somebody is about to close the socket.
LEMMA WakeClosing ==
  ASSUME NEW t \in Threads, NEW old, NEW top, NEW rest, Moves(t, old, top, rest),
         \E c \in top \cup rest \cup Below(t) : c.op \in CloseOps
  PROVE  FlagComes' /\ WriterComes'
  <1>1. Busy(WakeOps)' /\ Busy(FlagOps)'
    <2>1. \E c \in top \cup rest \cup Below(t) : c.op \in WakeOps /\ c.op \in FlagOps
      BY DEF WakeOps, FlagOps
    <2> QED BY <2>1, BusyMoves
  <1> QED BY <1>1 DEF FlagComes, WriterComes, WakeOps, FlagOps

\* There is no established connection any more.
LEMMA WakeClosed ==
  ASSUME socket' \notin helloed'
  PROVE  FlagComes' /\ WriterComes'
  BY DEF FlagComes, WriterComes

\* Calls that leave the socket, its setup and the queue alone.
LEMMA WakeQuiet ==
  ASSUME WriteInv, NEW t \in Threads,
         \/ AddToStore(t) \/ RemoveFirst(t) \/ IssueWrite(t) \/ Reading(t)
         \/ StopReading(t) \/ CancelAll(t) \/ OnFailure(t)
  PROVE  FlagComes' /\ WriterComes'
  <1> USE DEF itemVars, queueVars, connVars, loopVars, setupVars, netVars, budgetVars, outsideVars
  <1>1. TypeOK /\ InOrder /\ sendQueue \in Seq(IDs)
    BY DEF WriteInv, TypeOK
  <1>2. PICK top, rest : Moves(t, {Now(t)}, top, rest)
    BY <1>1, RunStack DEF Writing, Restarting, Connecting
  <1>3. permanentFailure => permanentFailure'
    BY KeptFailing DEF Run, Writing, Restarting, Connecting
  <1>4. /\ Now(t).op \notin WakeOps \cup FlagOps
        /\ UNCHANGED <<writeCur, helloed, socket, connected, setup>>
    <2> USE DEF At, Now, WakeOps, FlagOps, CloseOps
    <2>1. CASE AddToStore(t) \/ RemoveFirst(t) \/ IssueWrite(t)
      BY <2>1 DEF AddToStore, RemoveFirst, IssueWrite
    <2>2. CASE Reading(t)
      BY <2>2 DEF Reading, StartReading, ReadNextBytes, IssueRead, FindByID, RemoveByID,
                  MoveRequest, Invoke
    <2>3. CASE StopReading(t) \/ CancelAll(t) \/ OnFailure(t)
      BY <2>3 DEF StopReading, CancelAll, OnFailure
    <2> QED BY <2>1, <2>2, <2>3
  <1>5. sendQueue' # <<>> => sendQueue # <<>>
    BY DEF AddToStore, RemoveFirst, IssueWrite, Reading, StartReading, ReadNextBytes, IssueRead,
           FindByID, RemoveByID, MoveRequest, Invoke, StopReading, CancelAll, OnFailure
  <1>6. HeaderDone => HeaderDone'
    BY <1>4, HeaderKept
  <1> QED BY <1>2, <1>3, <1>4, <1>5, <1>6, FlagKept, WaitKept

\* Who queues a request looks at the flag afterwards; who sets the flag, or
\* finds it set, starts the write loop, which stops only at an empty queue.
LEMMA WakeWriting ==
  ASSUME WriteInv, NEW t \in Threads,
         \/ Enqueue(t) \/ CheckConnected(t) \/ StartWriting(t) \/ Front(t)
         \/ InsertAuthenticationRequests(t) \/ SetConnected(t)
  PROVE  FlagComes' /\ WriterComes'
  <1> USE DEF itemVars, queueVars, connVars, loopVars, setupVars, netVars, budgetVars, outsideVars
  <1>1. TypeOK /\ InOrder /\ todo \in [Threads -> Seq(Call)]
    BY DEF WriteInv, TypeOK
  <1>2. todo[t] # <<>> /\ \E top, rest : Moves(t, {Now(t)}, top, rest)
    BY <1>1, RunStack DEF Writing, Connecting
  <1>3. UNCHANGED <<helloed, socket, setup, permanentFailure>>
    BY DEF Enqueue, CheckConnected, StartWriting, Front, InsertAuthenticationRequests, SetConnected
  <1>4. HeaderDone => HeaderDone'
    BY <1>3, HeaderKept
  <1>5. FlagComes'
    <2>1. CASE SetConnected(t)
      BY <2>1 DEF SetConnected, FlagComes
    <2>2. CASE ~SetConnected(t)
      <3>1. Now(t).op \notin FlagOps /\ UNCHANGED connected
        BY <2>2 DEF Enqueue, CheckConnected, StartWriting, Front, InsertAuthenticationRequests,
                    At, Now, FlagOps, CloseOps
      <3> QED BY <1>2, <1>3, <1>4, <3>1, FlagKept
    <2> QED BY <2>1, <2>2
  <1>6. ASSUME Return(t), \E c \in Below(t) : c.op \in WakeOps PROVE WriterComes'
    <2>1. Moves(t, {Now(t)}, {}, {})
      BY <1>1, <1>2, <1>6, ThenMoves
    <2>2. \E c \in {} \cup {} \cup Below(t) : c.op \in WakeOps
      BY <1>6
    <2> QED BY <2>1, <2>2, WaitBusy
  <1>7. ASSUME Now(t).op \notin WakeOps, UNCHANGED <<writeCur, sendQueue>> PROVE WriterComes'
    BY <1>2, <1>3, <1>4, <1>7, WaitKept
  <1>8. CASE Enqueue(t) \/ InsertAuthenticationRequests(t)
    <2>1. Return(t) /\ Now(t).op \in {"enqueue", "insertAuth"}
      BY <1>8 DEF Enqueue, InsertAuthenticationRequests, At, Now
    <2>2. \E c \in Below(t) : c.op \in WakeOps
      BY <1>1, <1>2, <2>1, Follows DEF WakeOps
    <2> QED BY <1>5, <1>6, <2>1, <2>2
  <1>9. CASE CheckConnected(t)
    <2>1. Now(t).op = "checkConnected" /\ UNCHANGED <<writeCur, sendQueue>>
      BY <1>9 DEF CheckConnected, At, Now
    <2>2. CASE connected
      <3> DEFINE a == Plain("startWriting")
      <3>1. Then(t, <<a>>) /\ a.op = "startWriting"
        BY <1>9, <2>2 DEF CheckConnected, Plain
      <3> HIDE DEF a
      <3>2. Moves(t, {Now(t)}, {a}, {})
        BY <1>1, <1>2, <3>1, ThenMoves
      <3>3. \E c \in {a} \cup {} \cup Below(t) : c.op \in WakeOps
        BY <3>1 DEF WakeOps
      <3> QED BY <1>5, <3>2, <3>3, WaitBusy
    <2>3. CASE ~connected
      <3>1. PICK top, rest : Moves(t, {Now(t)}, top, rest)
        BY <1>2
      <3> DEFINE LaterOps == {"startWriting"} \cup CloseOps
      <3>2. Busy(FlagOps) => Busy(LaterOps)
        <4>1. SUFFICES ASSUME NEW u \in Threads, NEW c \in CallsOf(u), c.op \in FlagOps
                       PROVE  Busy(LaterOps)
          BY DEF Busy
        <4>2. CASE c.op = "setConnected"
          <5>1. PICK d \in CallsOf(u) : d.op = "startWriting"
            BY <1>1, <4>2, Follows
          <5> QED BY <5>1 DEF Busy
        <4>3. CASE c.op \in CloseOps
          BY <4>3 DEF Busy
        <4> QED BY <4>1, <4>2, <4>3 DEF FlagOps
      <3>3. Now(t).op \notin LaterOps /\ LaterOps \subseteq WakeOps
        BY <2>1 DEF CloseOps, WakeOps
      <3> HIDE DEF LaterOps
      <3>4. Busy(LaterOps) => Busy(LaterOps)'
        BY <3>1, <3>3, BusyMoves
      <3>5. Busy(LaterOps)' => Busy(WakeOps)'
        BY <3>3 DEF Busy
      <3>6. socket \in helloed => HeaderDone \/ Busy(FlagOps)
        BY <2>3 DEF WriteInv, FlagComes, FlagOps
      <3>7. WriterComes'
        BY <1>3, <1>4, <3>2, <3>4, <3>5, <3>6 DEF WriterComes, WakeOps
      <3> QED BY <1>5, <3>7
    <2> QED BY <2>2, <2>3
  <1>10. CASE StartWriting(t)
    <2>1. (writeCur # NoLoop /\ UNCHANGED writeCur) \/ \E l \in Loops : writeCur' = l
      BY <1>10 DEF StartWriting, NoWriteLoop
    <2>2. writeCur' # NoLoop
      BY <2>1 DEF Loops, NoLoop
    <2> QED BY <1>5, <2>2 DEF WriterComes
  <1>11. CASE Front(t)
    <2>1. UNCHANGED sendQueue /\ Now(t).op \notin WakeOps
      BY <1>11 DEF Front, At, Now, WakeOps, CloseOps
    <2>2. CASE sendQueue = <<>>
      BY <1>5, <2>1, <2>2 DEF WriterComes
    <2>3. CASE UNCHANGED writeCur
      BY <1>5, <1>7, <2>1, <2>3
    <2> QED BY <1>11, <2>2, <2>3 DEF Front
  <1>12. CASE SetConnected(t)
    <2>1. Now(t).op \notin WakeOps /\ UNCHANGED <<writeCur, sendQueue>>
      BY <1>12 DEF SetConnected, At, Now, WakeOps, CloseOps
    <2> QED BY <1>5, <1>7, <2>1
  <1> QED BY <1>8, <1>9, <1>10, <1>11, <1>12

\* An attempt whose next operation a thread is to start is with that thread.
LEMMA SetupNow ==
  ASSUME WriteInv, NEW t \in Threads, todo[t] # <<>>, Now(t).op \in SetupCalls
  PROVE  /\ Now(t).on \in Sockets /\ BusyOn(SetupCalls, Now(t).on)
         /\ Now(t).on <= attempts /\ setup[Now(t).on].kind = "none"
         /\ Now(t).op = "initSocket" => Unmade(Now(t).on)
         /\ \A u \in Threads \ {t} : \A c \in CallsOf(u) : c.op \in SetupCalls => c.on # Now(t).on
         /\ \A u \in Threads : \A c \in Below(u) : c.op \notin SetupCalls
  <1>1. todo \in [Threads -> Seq(Call)] /\ attempts \in Sockets
    BY DEF WriteInv, TypeOK
  <1>2. Now(t) \in Call /\ Now(t) \in CallsOf(t)
    BY <1>1, NowIsCall, StackSplit
  <1>3. Now(t).on \in Sockets
    BY <1>2 DEF Call
  <1>4. BusyOn(SetupCalls, Now(t).on)
    BY <1>2 DEF BusyOn
  <1>5. ~(Now(t).on > attempts) /\ setup[Now(t).on].kind = "none"
    BY <1>3, <1>4 DEF WriteInv, OnePlace
  <1>6. Now(t).on <= attempts
    BY <1>1, <1>3, <1>5 DEF Sockets
  <1>7. Now(t).op = "initSocket" => Unmade(Now(t).on)
    BY <1>2 DEF Unmade, BusyOn
  <1> QED BY <1>2, <1>3, <1>4, <1>5, <1>6, <1>7 DEF WriteInv, OnePlace

\* The restart closes the socket; a new socket is not established yet.
LEMMA WakeRestart ==
  ASSUME WriteInv, NEW t \in Threads,
         \/ RestartRead(t) \/ RestartWrite(t) \/ Restart(t) \/ StopWriting(t) \/ ShutdownSocket(t)
         \/ ResolveAgain(t) \/ InitSocket(t) \/ StartSSLHandshake(t) \/ FinishInitialization(t)
  PROVE  FlagComes' /\ WriterComes'
  <1> USE DEF itemVars, queueVars, connVars, loopVars, setupVars, netVars, budgetVars, outsideVars
  <1> DEFINE c == Now(t)
  <1>1. /\ TypeOK /\ InOrder /\ todo \in [Threads -> Seq(Call)] /\ helloed \subseteq Sockets
        /\ attempts \in Sockets /\ setup \in [Sockets -> SetupRec]
    BY DEF WriteInv, TypeOK
  <1>2. todo[t] # <<>> /\ \E top, rest : Moves(t, {Now(t)}, top, rest)
    BY <1>1, RunStack DEF Restarting, Connecting
  <1>3. ASSUME Now(t).op \notin WakeOps \cup FlagOps, HeaderDone => HeaderDone',
               UNCHANGED <<writeCur, helloed, socket, connected, permanentFailure, sendQueue>>
        PROVE  FlagComes' /\ WriterComes'
    BY <1>2, <1>3, FlagKept, WaitKept
  <1>4. CASE RestartRead(t) \/ RestartWrite(t)
    <2>1. /\ Now(t).op \notin WakeOps \cup FlagOps /\ UNCHANGED <<helloed, socket, connected>>
          /\ UNCHANGED <<permanentFailure, sendQueue, setup>>
      BY <1>4 DEF RestartRead, RestartWrite, RestartOf, At, Now, WakeOps, FlagOps, CloseOps
    <2>2. CASE UNCHANGED writeCur
      BY <1>3, <2>1, <2>2, HeaderKept
    <2>3. CASE Then(t, <<Fail("restart", 0, c.err)>>)
      <3> DEFINE a == Fail("restart", 0, c.err)
      <3>1. a.op = "restart" /\ Then(t, <<a>>)
        BY <2>3 DEF Fail
      <3> HIDE DEF a
      <3>2. Moves(t, {Now(t)}, {a}, {})
        BY <1>1, <1>2, <3>1, ThenMoves
      <3>3. \E d \in {a} \cup {} \cup Below(t) : d.op \in CloseOps
        BY <3>1 DEF CloseOps
      <3> QED BY <3>2, <3>3, WakeClosing
    <2> QED BY <1>4, <2>2, <2>3 DEF RestartRead, RestartWrite, RestartOf
  <1>5. CASE Restart(t)
    <2>1. PICK rest : /\ Moves(t, {Now(t)}, {}, rest)
                      /\ \A x \in {"cancelAll", "shutdownSocket"} : \E d \in rest : d.op = x
      BY <1>1, <1>5, RestartStack
    <2>2. \E d \in {} \cup rest \cup Below(t) : d.op \in CloseOps
      BY <2>1 DEF CloseOps
    <2> QED BY <2>1, <2>2, WakeClosing
  <1>6. CASE StopWriting(t)
    <2>1. Return(t) /\ c.op = "stopWriting"
      BY <1>6 DEF StopWriting, At, Now
    <2>2. Moves(t, {Now(t)}, {}, {})
      BY <1>1, <1>2, <2>1, ThenMoves
    <2>3. \E d \in {} \cup {} \cup Below(t) : d.op \in CloseOps
      BY <1>1, <1>2, <2>1, Follows DEF CloseOps
    <2> QED BY <2>2, <2>3, WakeClosing
  <1>7. CASE ShutdownSocket(t)
    <2>1. socket' = NoSocket /\ UNCHANGED helloed
      BY <1>7 DEF ShutdownSocket
    <2>2. NoSocket \notin Sockets
      BY DEF NoSocket, Sockets
    <2> QED BY <1>1, <2>1, <2>2, WakeClosed
  <1>8. CASE InitSocket(t)
    <2>1. c.op = "initSocket" /\ socket' = c.on /\ UNCHANGED helloed
      BY <1>8 DEF InitSocket, At, Now
    <2>2. c.on \in Sockets /\ Unmade(c.on)
      BY <1>2, <2>1, SetupNow DEF SetupCalls
    <2>3. c.on \notin helloed
      BY <2>2 DEF WriteInv, Untouched
    <2> QED BY <2>1, <2>3, WakeClosed
  <1>9. ASSUME NEW n \in Sockets, setup[n].kind = "none", NEW r, setup' = [setup EXCEPT ![n] = r],
               UNCHANGED socket
        PROVE  HeaderDone => HeaderDone'
    <2>1. \A m \in Sockets : setup[m].kind = "header" => setup'[m] = setup[m]
      BY <1>1, <1>9
    <2> QED BY <1>9, <2>1, HeaderKept
  <1>10. CASE StartSSLHandshake(t) \/ FinishInitialization(t)
    <2>1. /\ c.op \in {"handshake", "finishInit"}
          /\ UNCHANGED <<writeCur, helloed, socket, connected, permanentFailure, sendQueue>>
          /\ \E kind : Begin(c.on, kind, socket)
      BY <1>10 DEF StartSSLHandshake, FinishInitialization, At, Now
    <2>2. c.on \in Sockets /\ setup[c.on].kind = "none"
      BY <1>2, <2>1, SetupNow DEF SetupCalls
    <2>3. HeaderDone => HeaderDone'
      BY <1>9, <2>1, <2>2 DEF Begin
    <2> QED BY <1>3, <2>1, <2>3 DEF WakeOps, FlagOps, CloseOps
  <1>11. CASE ResolveAgain(t)
    <2>1. /\ c.op = "resolveAgain"
          /\ UNCHANGED <<writeCur, helloed, socket, connected, permanentFailure, sendQueue>>
      BY <1>11 DEF ResolveAgain, At, Now
    <2>2. CASE UNCHANGED setup
      BY <1>3, <2>1, <2>2, HeaderKept DEF WakeOps, FlagOps, CloseOps
    <2>3. CASE /\ attempts < MaxAttempts
               /\ setup' = [setup EXCEPT ![attempts + 1] = [NoSetup EXCEPT !.kind = "resolve"]]
      <3>1. attempts + 1 \in Sockets /\ attempts + 1 > attempts
        BY <1>1, <2>3, BoundsAssumption DEF Sockets
      <3>2. setup[attempts + 1].kind = "none"
        BY <3>1 DEF WriteInv, OnePlace
      <3>3. HeaderDone => HeaderDone'
        BY <1>9, <2>1, <2>3, <3>1, <3>2
      <3> QED BY <1>3, <2>1, <3>3 DEF WakeOps, FlagOps, CloseOps
    <2> QED BY <1>11, <2>2, <2>3 DEF ResolveAgain
  <1> QED BY <1>4, <1>5, <1>6, <1>7, <1>8, <1>10, <1>11

\* sendRequest and the handlers: that of the header sets the flag and starts
\* the loop, or closes the socket.
LEMMA WakeHandler ==
  ASSUME WriteInv, NEW t \in Threads, SendRequest(t) \/ Dispatch(t)
  PROVE  FlagComes' /\ WriterComes'
  <1> USE DEF itemVars, queueVars, connVars, loopVars, setupVars, netVars, budgetVars, outsideVars
  <1>1. TypeOK /\ InOrder /\ setup \in [Sockets -> SetupRec]
    BY DEF WriteInv, TypeOK
  <1>2. ASSUME NEW top, NEW rest, Moves(t, {}, top, rest), HeaderDone => HeaderDone',
               UNCHANGED <<writeCur, helloed, socket, connected, permanentFailure, sendQueue>>
        PROVE  FlagComes' /\ WriterComes'
    BY <1>2, FlagKept, WaitKept
  <1>3. CASE SendRequest(t)
    <2>1. PICK rest : Moves(t, {}, {}, rest)
      BY <1>1, <1>3, SendStack
    <2>2. UNCHANGED <<writeCur, helloed, socket, connected, permanentFailure, sendQueue, setup>>
      BY <1>3 DEF SendRequest
    <2> QED BY <1>2, <2>1, <2>2, HeaderKept
  <1>4. ASSUME NEW l \in Loops,
               \/ ReadCallback(t, l) \/ ReadDeadline(t, l)
               \/ WriteCallback(t, l) \/ WriteDeadline(t, l)
        PROVE  FlagComes' /\ WriterComes'
    <2>1. PICK top, rest : Moves(t, {}, top, rest)
      BY <1>1, <1>4, LoopHandlerStack
    <2>2. UNCHANGED <<writeCur, helloed, socket, connected, permanentFailure, sendQueue, setup>>
      BY <1>4 DEF ReadCallback, ReadDeadline, WriteCallback, WriteDeadline
    <2> QED BY <1>2, <2>1, <2>2, HeaderKept
  <1>5. ASSUME NEW n \in Sockets,
               \/ ResolveCallback(t, n) \/ AsyncConnectCallback(t, n) \/ HandshakeCallback(t, n)
        PROVE  FlagComes' /\ WriterComes'
    <2>1. PICK top, rest : Moves(t, {}, top, rest)
      BY <1>1, <1>5, SetupHandlerStack
    <2>2. /\ UNCHANGED <<writeCur, helloed, socket, connected, permanentFailure, sendQueue>>
          /\ setup' = [setup EXCEPT ![n] = NoSetup] /\ setup[n].kind # "header"
      BY <1>5 DEF ResolveCallback, AsyncConnectCallback, HandshakeCallback, Handles
    <2>3. \A m \in Sockets : setup[m].kind = "header" => setup'[m] = setup[m]
      BY <1>1, <2>2
    <2> QED BY <1>2, <2>1, <2>2, <2>3, HeaderKept
  <1>6. ASSUME NEW n \in Sockets, HeaderCallback(t, n)
        PROVE  FlagComes' /\ WriterComes'
    <2>1. PICK top, rest : /\ Moves(t, {}, top, rest)
                           /\ setup[n].res = "ok" => /\ \E c \in rest : c.op = "setConnected"
                                                     /\ \E c \in rest : c.op = "startWriting"
                           /\ setup[n].res # "ok" => \E c \in rest : c.op = "shutdownSocket"
      BY <1>1, <1>6, SetupHandlerStack
    <2>2. CASE setup[n].res = "ok"
      <3>1. /\ \E c \in top \cup rest \cup Below(t) : c.op \in WakeOps
            /\ \E c \in top \cup rest \cup Below(t) : c.op \in FlagOps
        BY <2>1, <2>2 DEF WakeOps, FlagOps
      <3>2. Busy(FlagOps)'
        BY <2>1, <3>1, BusyMoves
      <3>3. WriterComes'
        BY <2>1, <3>1, WaitBusy
      <3> QED BY <3>2, <3>3 DEF FlagComes, FlagOps
    <2>3. CASE setup[n].res # "ok"
      <3>1. \E c \in top \cup rest \cup Below(t) : c.op \in CloseOps
        BY <2>1, <2>3 DEF CloseOps
      <3> QED BY <2>1, <3>1, WakeClosing
    <2> QED BY <2>2, <2>3
  <1> QED BY <1>3, <1>4, <1>5, <1>6 DEF Dispatch

\* Steps of no thread, and the death of the process.
LEMMA WakeEnvironment ==
  ASSUME WriteInv,
         \/ Completion \/ Expiry \/ Server \/ Fault \/ \E t \in Threads : Dying(t)
         \/ UNCHANGED vars
  PROVE  FlagComes' /\ WriterComes'
  <1> USE DEF itemVars, queueVars, connVars, loopVars, setupVars, netVars, budgetVars, outsideVars
  <1>1. UNCHANGED <<todo, permanentFailure, writeCur, sendQueue, socket, connected>>
    BY DEF Completion, Expiry, Server, Fault, WriteCompletes, WriteFails, ReadCompletes,
           ReadFails, SetupCompletes, ReadExpires, WriteExpires, Respond, SetupFails,
           ConnectionLost, Dying, DerefFreedLoop, DerefNullRequest, DerefNullSocket,
           AssertFails, Abort, vars
  <1>2. setup \in [Sockets -> SetupRec]
    BY DEF WriteInv, TypeOK
  <1>3. Busy(WakeOps)' = Busy(WakeOps) /\ Busy(FlagOps)' = Busy(FlagOps)
    BY <1>1, BusySame
  <1>4. ASSUME UNCHANGED helloed \/ HeaderDone' \/ socket' \notin helloed',
               HeaderDone => HeaderDone'
        PROVE  FlagComes' /\ WriterComes'
    BY <1>1, <1>3, <1>4 DEF WriteInv, FlagComes, WriterComes, WakeOps, FlagOps
  <1>5. ASSUME NEW n \in Sockets, SetupCompletes(n) \/ SetupFails(n)
        PROVE  FlagComes' /\ WriterComes'
    <2> DEFINE r == setup[n]
    <2>1. r \in SetupRec /\ r.res = "pending"
      BY <1>2, <1>5 DEF SetupCompletes, SetupFails
    <2>2. \A m \in Sockets \ {n} : setup'[m] = setup[m]
      BY <1>2, <1>5 DEF SetupCompletes, SetupFails
    <2>3. HeaderDone => HeaderDone'
      BY <1>1, <2>1, <2>2, HeaderKept
    <2>4. CASE SetupFails(n)
      <3>1. UNCHANGED helloed
        BY <2>4 DEF SetupFails
      <3> QED BY <1>4, <2>3, <3>1
    <2>5. CASE SetupCompletes(n)
      <3>1. setup'[n] = [r EXCEPT !.res = "ok"]
            /\ helloed' = IF r.kind = "header" THEN helloed \cup {r.sock} ELSE helloed
        BY <1>2, <2>5 DEF SetupCompletes
      <3>2. setup'[n].kind = r.kind /\ setup'[n].sock = r.sock /\ setup'[n].res = "ok"
        BY <2>1, <3>1 DEF SetupRec
      <3>3. CASE r.kind = "header" /\ r.sock = socket
        <4>1. HeaderDone'
          BY <1>1, <3>2, <3>3 DEF HeaderDone
        <4> QED BY <1>4, <4>1
      <3>4. CASE ~(r.kind = "header" /\ r.sock = socket)
        <4>1. socket' \in helloed' => socket \in helloed
          BY <1>1, <3>1, <3>4
        <4> QED BY <1>1, <1>3, <2>3, <4>1
                DEF WriteInv, FlagComes, WriterComes, WakeOps, FlagOps
      <3> QED BY <3>3, <3>4
    <2> QED BY <1>5, <2>4, <2>5
  <1>6. CASE UNCHANGED <<setup, helloed>>
    <2>1. HeaderDone => HeaderDone'
      BY <1>1, <1>6, HeaderKept
    <2> QED BY <1>4, <1>6, <2>1
  <1>7. \/ UNCHANGED <<setup, helloed>>
        \/ \E n \in Sockets : SetupCompletes(n) \/ SetupFails(n)
    BY DEF Completion, Expiry, Server, Fault, WriteCompletes, WriteFails, ReadCompletes,
           ReadFails, ReadExpires, WriteExpires, Respond,
           ConnectionLost, Dying, DerefFreedLoop, DerefNullRequest, DerefNullSocket,
           AssertFails, Abort, vars
  <1> QED BY <1>5, <1>6, <1>7

----------------------------------------------------------------------------
(* The setup of the connection.                                            *)

\* No attempt gets a new place.
LEMMA PlaceKept ==
  ASSUME WriteInv, NEW t \in Threads, NEW old, NEW top, NEW rest, Moves(t, old, top, rest),
         \A c \in top \cup rest : c.op \notin SetupCalls,
         UNCHANGED <<attempts, helloed>>, socket' \in {socket, NoSocket},
         \A n \in Sockets : setup'[n].kind = setup[n].kind /\ setup'[n].sock = setup[n].sock
  PROVE  OnePlace' /\ Untouched'
  <1>1. \A u \in Threads : \A c \in CallsOf(u)' : c.op \in SetupCalls => c \in CallsOf(u)
    BY DEF Moves
  <1>2. \A u \in Threads : \A c \in Below(u)' : c.op \notin SetupCalls
    BY DEF Moves, WriteInv, OnePlace
  <1>3. \A n : BusyOn(SetupCalls, n)' => BusyOn(SetupCalls, n)
    BY <1>1 DEF BusyOn
  <1>4. OnePlace'
    <2>1. \A u, v \in Threads : \A c \in CallsOf(u)', d \in CallsOf(v)' :
            c.op \in SetupCalls /\ d.op \in SetupCalls /\ c.on = d.on => u = v
      BY <1>1 DEF WriteInv, OnePlace
    <2>2. \A n \in Sockets : n > attempts' => setup'[n].kind = "none" /\ ~BusyOn(SetupCalls, n)'
      BY <1>3 DEF WriteInv, OnePlace
    <2>3. \A n \in Sockets : setup'[n].kind # "none" => ~BusyOn(SetupCalls, n)'
      BY <1>3 DEF WriteInv, OnePlace
    <2> QED BY <1>2, <2>1, <2>2, <2>3 DEF OnePlace
  <1>5. \A n : BusyOn({"initSocket"}, n)' => BusyOn({"initSocket"}, n)
    BY <1>1 DEF BusyOn, SetupCalls
  <1>6. \A n \in Sockets : Unmade(n)' => Unmade(n)
    BY <1>5 DEF Unmade
  <1>7. \A n \in Sockets : n # NoSocket
    BY DEF Sockets, NoSocket
  <1>8. Untouched'
    BY <1>6, <1>7 DEF WriteInv, Untouched
  <1> QED BY <1>4, <1>8

\* A handler of attempt n goes on with it, or gives it up.
LEMMA PlaceHandler ==
  ASSUME WriteInv, NEW t \in Threads, NEW n \in Sockets,
         \/ ResolveCallback(t, n) \/ AsyncConnectCallback(t, n)
         \/ HandshakeCallback(t, n) \/ HeaderCallback(t, n)
  PROVE  OnePlace' /\ Untouched'
  <1> USE DEF netVars
  <1>1. TypeOK /\ InOrder /\ setup \in [Sockets -> SetupRec]
    BY DEF WriteInv, TypeOK
  <1>2. PICK top, rest : /\ Moves(t, {}, top, rest) /\ \A c \in rest : c.op \notin SetupCalls
                         /\ \A c \in top : c.op \in SetupCalls => c.on = n
                         /\ \A c \in top : c.op = "initSocket" => setup[n].kind = "resolve"
    BY <1>1, SetupHandlerStack
  <1>3. /\ setup[n].kind # "none" /\ setup' = [setup EXCEPT ![n] = NoSetup]
        /\ UNCHANGED <<attempts, helloed, socket>>
    BY DEF ResolveCallback, AsyncConnectCallback, HandshakeCallback, HeaderCallback, Handles
  <1>4. /\ setup'[n].kind = "none" /\ setup'[n].sock = NoSocket
        /\ \A m \in Sockets \ {n} : setup'[m] = setup[m]
    BY <1>1, <1>3 DEF NoSetup
  <1>5. \A u \in Threads : \A c \in CallsOf(u)' : c.op \in SetupCalls =>
          c \in CallsOf(u) \/ (u = t /\ c \in top /\ c.on = n)
    BY <1>2 DEF Moves
  <1>6. ~BusyOn(SetupCalls, n) /\ ~(n > attempts)
    BY <1>3 DEF WriteInv, OnePlace
  <1>7. \A u \in Threads : \A c \in CallsOf(u) : c.op \in SetupCalls => c.on # n
    BY <1>6 DEF BusyOn
  <1>8. \A m \in Sockets \ {n} : BusyOn(SetupCalls, m)' => BusyOn(SetupCalls, m)
    BY <1>5 DEF BusyOn
  <1>9. OnePlace'
    <2>1. \A u \in Threads : \A c \in Below(u)' : c.op \notin SetupCalls
      BY <1>2 DEF Moves, WriteInv, OnePlace
    <2>2. ASSUME NEW u \in Threads, NEW v \in Threads, NEW c \in CallsOf(u)', NEW d \in CallsOf(v)',
                 c.op \in SetupCalls, d.op \in SetupCalls, c.on = d.on
          PROVE  u = v
      <3>1. CASE c.on = n
        BY <1>5, <1>7, <2>2, <3>1
      <3>2. CASE c.on # n
        <4>1. c \in CallsOf(u) /\ d \in CallsOf(v)
          BY <1>5, <2>2, <3>2
        <4> QED BY <2>2, <4>1 DEF WriteInv, OnePlace
      <3> QED BY <3>1, <3>2
    <2>3. \A m \in Sockets : m > attempts' => setup'[m].kind = "none" /\ ~BusyOn(SetupCalls, m)'
      BY <1>3, <1>4, <1>6, <1>8 DEF WriteInv, OnePlace
    <2>4. \A m \in Sockets : setup'[m].kind # "none" => ~BusyOn(SetupCalls, m)'
      BY <1>4, <1>8 DEF WriteInv, OnePlace
    <2> QED BY <2>1, <2>2, <2>3, <2>4 DEF OnePlace
  <1>10. ASSUME NEW m \in Sockets, Unmade(m)' PROVE Unmade(m)
    <2>1. CASE m > attempts' \/ setup'[m].kind = "resolve"
      BY <1>3, <1>4, <2>1 DEF Unmade
    <2>2. CASE BusyOn({"initSocket"}, m)'
      <3>1. PICK u \in Threads : \E c \in CallsOf(u)' : c.op = "initSocket" /\ c.on = m
        BY <2>2 DEF BusyOn
      <3>2. PICK c \in CallsOf(u)' : c.op = "initSocket" /\ c.on = m
        BY <3>1
      <3>3. CASE c \in CallsOf(u)
        BY <3>2, <3>3 DEF Unmade, BusyOn
      <3>4. CASE c \in top /\ c.on = n
        BY <1>2, <3>2, <3>4 DEF Unmade
      <3> QED BY <1>5, <3>2, <3>3, <3>4 DEF SetupCalls
    <2> QED BY <1>10, <2>1, <2>2 DEF Unmade
  <1>11. \A m \in Sockets : m # NoSocket
    BY DEF Sockets, NoSocket
  <1>12. Untouched'
    BY <1>3, <1>4, <1>10, <1>11 DEF WriteInv, Untouched
  <1> QED BY <1>9, <1>12

\* A thread starts the next operation of its attempt.
LEMMA PlaceBegin ==
  ASSUME WriteInv, NEW t \in Threads,
         InitSocket(t) \/ StartSSLHandshake(t) \/ FinishInitialization(t)
  PROVE  OnePlace' /\ Untouched'
  <1> USE DEF connVars, itemVars
  <1>0. PICK n : n = Now(t).on
    OBVIOUS
  <1>1. TypeOK /\ InOrder /\ setup \in [Sockets -> SetupRec] /\ todo \in [Threads -> Seq(Call)]
    BY DEF WriteInv, TypeOK
  <1>2. /\ todo[t] # <<>> /\ Now(t).op \in SetupCalls /\ Return(t)
        /\ UNCHANGED <<attempts, helloed>>
    BY DEF InitSocket, StartSSLHandshake, FinishInitialization, At, Now, SetupCalls
  <1>3. PICK s : /\ s = socket' /\ s \in {n, socket}
                 /\ \E kind \in {"connect", "handshake", "header"} : Begin(n, kind, s)
    BY <1>0 DEF InitSocket, StartSSLHandshake, FinishInitialization
  <1>4. /\ n \in Sockets /\ ~(n > attempts)
        /\ \A u \in Threads \ {t} : \A c \in CallsOf(u) : c.op \in SetupCalls => c.on # n
        /\ \A u \in Threads : \A c \in Below(u) : c.op \notin SetupCalls
    <2>1. attempts \in Nat /\ \A m \in Sockets : m \in Nat
      BY <1>1 DEF TypeOK, Sockets
    <2> QED BY <1>0, <1>2, <2>1, SetupNow
  <1>5. Moves(t, {Now(t)}, {}, {})
    BY <1>1, <1>2, ThenMoves
  <1>6. /\ \A u \in Threads : \A c \in CallsOf(u)' : c.op \in SetupCalls =>
             c \in CallsOf(u) /\ c.on # n
        /\ \A u \in Threads : \A c \in Below(u)' : c.op \notin SetupCalls
    <2>1. CallsOf(t)' = Below(t) /\ Below(t)' \subseteq Below(t) /\ Below(t) \subseteq CallsOf(t)
          /\ \A u \in Threads \ {t} : CallsOf(u)' = CallsOf(u) /\ Below(u)' = Below(u)
      BY <1>5 DEF Moves
    <2> QED BY <1>4, <2>1
  <1>7. /\ setup'[n].kind \in {"connect", "handshake", "header"} /\ setup'[n].sock = s
        /\ \A m \in Sockets \ {n} : setup'[m] = setup[m]
    BY <1>1, <1>3, <1>4 DEF Begin
  <1>8. /\ ~BusyOn(SetupCalls, n)' /\ \A m : BusyOn(SetupCalls, m)' => BusyOn(SetupCalls, m)
        /\ ~BusyOn({"initSocket"}, n)'
        /\ \A m : BusyOn({"initSocket"}, m)' => BusyOn({"initSocket"}, m)
    BY <1>6 DEF BusyOn, SetupCalls
  <1>9. OnePlace'
    <2>1. \A u, v \in Threads : \A c \in CallsOf(u)', d \in CallsOf(v)' :
            c.op \in SetupCalls /\ d.op \in SetupCalls /\ c.on = d.on => u = v
      BY <1>6 DEF WriteInv, OnePlace
    <2>2. \A m \in Sockets : m > attempts' => setup'[m].kind = "none" /\ ~BusyOn(SetupCalls, m)'
      BY <1>2, <1>4, <1>7, <1>8 DEF WriteInv, OnePlace
    <2>3. \A m \in Sockets : setup'[m].kind # "none" => ~BusyOn(SetupCalls, m)'
      BY <1>7, <1>8 DEF WriteInv, OnePlace
    <2> QED BY <1>6, <2>1, <2>2, <2>3 DEF OnePlace
  <1>10. \A m \in Sockets : Unmade(m)' => Unmade(m) /\ m # n
    BY <1>2, <1>4, <1>7, <1>8 DEF Unmade
  <1>11. Untouched'
    <2>1. SUFFICES ASSUME NEW m \in Sockets, Unmade(m)'
                   PROVE  /\ m \notin helloed' /\ socket' # m
                          /\ \A k \in Sockets : setup'[k].sock # m
      BY DEF Untouched
    <2>2. /\ m # n /\ m \notin helloed /\ socket # m
          /\ \A k \in Sockets : setup[k].sock # m
      BY <1>10, <2>1 DEF WriteInv, Untouched
    <2> QED BY <1>2, <1>3, <1>7, <2>2
  <1> QED BY <1>9, <1>11

\* startResolveHost begins the next attempt.
LEMMA PlaceResolve ==
  ASSUME WriteInv, NEW t \in Threads, ResolveAgain(t)
  PROVE  OnePlace' /\ Untouched'
  <1> USE DEF connVars, netVars, setupVars
  <1> DEFINE n == attempts + 1
  <1>1. TypeOK /\ InOrder /\ setup \in [Sockets -> SetupRec] /\ attempts \in Sockets
    BY DEF WriteInv, TypeOK
  <1>2. UNCHANGED <<helloed, socket>>
    BY DEF ResolveAgain
  <1>3. PICK top, rest : /\ Moves(t, {Now(t)}, top, rest)
                         /\ \A c \in top \cup rest : c.op \notin SetupCalls
    BY <1>1, RunStack DEF Restarting
  <1>4. CASE UNCHANGED <<setup, attempts>>
    BY <1>2, <1>3, <1>4, PlaceKept
  <1>5. CASE /\ attempts < MaxAttempts /\ attempts' = n
             /\ setup' = [setup EXCEPT ![n] = [NoSetup EXCEPT !.kind = "resolve"]]
    <2>1. n \in Sockets /\ n > attempts /\ \A m \in Sockets : m > n => m > attempts /\ m # n
      BY <1>1, <1>5, BoundsAssumption DEF Sockets
    <2>2. [NoSetup EXCEPT !.kind = "resolve"].kind = "resolve"
          /\ [NoSetup EXCEPT !.kind = "resolve"].sock = NoSocket
      BY DEF NoSetup
    <2>3. setup'[n].sock = NoSocket /\ \A m \in Sockets \ {n} : setup'[m] = setup[m]
      BY <1>1, <1>5, <2>1, <2>2
    <2>4. setup[n].kind = "none" /\ ~BusyOn(SetupCalls, n)
      BY <2>1 DEF WriteInv, OnePlace
    <2>5. \A u \in Threads : \A c \in CallsOf(u)' : c.op \in SetupCalls => c \in CallsOf(u)
      BY <1>3 DEF Moves
    <2>6. /\ \A m : BusyOn(SetupCalls, m)' => BusyOn(SetupCalls, m)
          /\ \A m : BusyOn({"initSocket"}, m)' => BusyOn({"initSocket"}, m)
      BY <2>5 DEF BusyOn, SetupCalls
    <2> HIDE DEF n
    <2>7. OnePlace'
      <3>1. \A u \in Threads : \A c \in Below(u)' : c.op \notin SetupCalls
        BY <1>3 DEF Moves, WriteInv, OnePlace
      <3>2. \A u, v \in Threads : \A c \in CallsOf(u)', d \in CallsOf(v)' :
              c.op \in SetupCalls /\ d.op \in SetupCalls /\ c.on = d.on => u = v
        BY <2>5 DEF WriteInv, OnePlace
      <3>3. \A m \in Sockets : m > attempts' => setup'[m].kind = "none" /\ ~BusyOn(SetupCalls, m)'
        BY <1>5, <2>1, <2>3, <2>6 DEF WriteInv, OnePlace
      <3>4. \A m \in Sockets : setup'[m].kind # "none" => ~BusyOn(SetupCalls, m)'
        BY <2>3, <2>4, <2>6 DEF WriteInv, OnePlace
      <3> QED BY <3>1, <3>2, <3>3, <3>4 DEF OnePlace
    <2>8. \A m \in Sockets : Unmade(m)' => Unmade(m)
      BY <1>5, <2>1, <2>3, <2>6 DEF Unmade
    <2>9. \A m \in Sockets : m # NoSocket
      BY DEF Sockets, NoSocket
    <2>10. Untouched'
      BY <1>2, <2>3, <2>8, <2>9 DEF WriteInv, Untouched
    <2> QED BY <2>7, <2>10
  <1> QED BY <1>4, <1>5 DEF ResolveAgain

\* The other calls.
LEMMA PlaceQuiet ==
  ASSUME WriteInv, NEW t \in Threads,
         \/ Writing(t) \/ Reading(t) \/ (Restarting(t) /\ ~ResolveAgain(t))
         \/ InsertAuthenticationRequests(t) \/ SetConnected(t) \/ OnFailure(t)
  PROVE  OnePlace' /\ Untouched'
  <1> USE DEF itemVars, queueVars, connVars, loopVars, setupVars, netVars, budgetVars, outsideVars
  <1>1. TypeOK /\ InOrder /\ setup \in [Sockets -> SetupRec]
    BY DEF WriteInv, TypeOK
  <1>2. PICK top, rest : /\ Moves(t, {Now(t)}, top, rest)
                         /\ \A c \in top \cup rest : c.op \notin SetupCalls
    BY <1>1, RunStack DEF Connecting
  <1>3. CASE ShutdownSocket(t)
    <2>1. UNCHANGED <<attempts, helloed>> /\ socket' = NoSocket
      BY <1>3 DEF ShutdownSocket
    <2>2. \A n \in Sockets : setup'[n] = setup[n] \/ setup'[n] = [setup[n] EXCEPT !.res = "err"]
      BY <1>3 DEF ShutdownSocket
    <2>3. \A n \in Sockets : /\ [setup[n] EXCEPT !.res = "err"].kind = setup[n].kind
                             /\ [setup[n] EXCEPT !.res = "err"].sock = setup[n].sock
      <3>1. \A r \in SetupRec : /\ [r EXCEPT !.res = "err"].kind = r.kind
                                /\ [r EXCEPT !.res = "err"].sock = r.sock
        BY DEF SetupRec
      <3> QED BY <1>1, <3>1
    <2>4. \A n \in Sockets : setup'[n].kind = setup[n].kind /\ setup'[n].sock = setup[n].sock
      BY <2>2, <2>3
    <2> QED BY <1>2, <2>1, <2>4, PlaceKept
  <1>4. CASE ~ShutdownSocket(t)
    <2>1. UNCHANGED <<attempts, helloed, socket, setup>>
      <3>1. CASE Writing(t)
        BY <3>1 DEF Writing, Enqueue, CheckConnected, StartWriting, Front, AddToStore,
                    RemoveFirst, IssueWrite
      <3>2. CASE Reading(t)
        BY <3>2 DEF Reading, StartReading, ReadNextBytes, IssueRead, FindByID, RemoveByID,
                    MoveRequest, Invoke
      <3>3. CASE Restarting(t) /\ ~ResolveAgain(t)
        BY <1>4, <3>3 DEF Restarting, RestartRead, RestartWrite, RestartOf, Restart, StopWriting,
                          StopReading, CancelAll
      <3>4. CASE InsertAuthenticationRequests(t) \/ SetConnected(t) \/ OnFailure(t)
        BY <3>4 DEF InsertAuthenticationRequests, SetConnected, OnFailure
      <3> QED BY <3>1, <3>2, <3>3, <3>4
    <2> QED BY <1>2, <2>1, PlaceKept
  <1> QED BY <1>3, <1>4

\* sendRequest and the handlers of the loops.
LEMMA PlaceLoopHandler ==
  ASSUME WriteInv, NEW t \in Threads,
         \/ SendRequest(t)
         \/ \E l \in Loops : \/ ReadCallback(t, l) \/ ReadDeadline(t, l)
                             \/ WriteCallback(t, l) \/ WriteDeadline(t, l)
  PROVE  OnePlace' /\ Untouched'
  <1> USE DEF itemVars, queueVars, connVars, loopVars, setupVars, netVars, budgetVars, outsideVars
  <1>1. TypeOK /\ InOrder
    BY DEF WriteInv
  <1>2. UNCHANGED <<attempts, helloed, socket, setup>>
    BY DEF SendRequest, ReadCallback, ReadDeadline, WriteCallback, WriteDeadline
  <1>3. CASE SendRequest(t)
    <2>1. PICK rest : Moves(t, {}, {}, rest) /\ \A c \in rest : c.op \notin SetupCalls
      BY <1>1, <1>3, SendStack
    <2>2. \A c \in {} \cup rest : c.op \notin SetupCalls
      BY <2>1
    <2> QED BY <1>2, <2>1, <2>2, PlaceKept
  <1>4. ASSUME NEW l \in Loops,
               \/ ReadCallback(t, l) \/ ReadDeadline(t, l)
               \/ WriteCallback(t, l) \/ WriteDeadline(t, l)
        PROVE  OnePlace' /\ Untouched'
    <2>1. PICK top, rest : /\ Moves(t, {}, top, rest)
                           /\ \A c \in top \cup rest : c.op \notin SetupCalls
      BY <1>1, <1>4, LoopHandlerStack
    <2> QED BY <1>2, <2>1, PlaceKept
  <1> QED BY <1>3, <1>4

\* Steps of no thread: a socket whose header is written was made before.
LEMMA PlaceEnvironment ==
  ASSUME WriteInv,
         \/ Completion \/ Expiry \/ Server \/ Fault \/ \E t \in Threads : Dying(t)
         \/ UNCHANGED vars
  PROVE  OnePlace' /\ Untouched'
  <1> USE DEF itemVars, queueVars, connVars, loopVars, setupVars, netVars, budgetVars, outsideVars
  <1>1. UNCHANGED <<todo, socket, attempts>>
    BY DEF Completion, Expiry, Server, Fault, WriteCompletes, WriteFails, ReadCompletes,
           ReadFails, SetupCompletes, ReadExpires, WriteExpires, Respond, SetupFails,
           ConnectionLost, Dying, DerefFreedLoop, DerefNullRequest, DerefNullSocket,
           AssertFails, Abort, vars
  <1>2. setup \in [Sockets -> SetupRec]
    BY DEF WriteInv, TypeOK
  <1>3. \A u \in Threads : CallsOf(u)' = CallsOf(u) /\ Below(u)' = Below(u)
    BY <1>1 DEF CallsOf, Below
  <1>4. \A ops : \A n : BusyOn(ops, n)' = BusyOn(ops, n)
    BY <1>3 DEF BusyOn
  <1>5. /\ \A n \in Sockets : setup'[n].kind = setup[n].kind /\ setup'[n].sock = setup[n].sock
        /\ helloed' \subseteq helloed \cup {setup[n].sock : n \in Sockets}
    <2>1. CASE UNCHANGED <<setup, helloed>>
      BY <2>1
    <2>2. ASSUME NEW n \in Sockets, SetupCompletes(n) \/ SetupFails(n)
          PROVE  /\ \A m \in Sockets : /\ setup'[m].kind = setup[m].kind
                                       /\ setup'[m].sock = setup[m].sock
                 /\ helloed' \subseteq helloed \cup {setup[m].sock : m \in Sockets}
      <3> DEFINE r == setup[n]
      <3>1. r \in SetupRec
        BY <1>2
      <3>2. \A x : [r EXCEPT !.res = x].kind = r.kind /\ [r EXCEPT !.res = x].sock = r.sock
        BY <3>1 DEF SetupRec
      <3>3. /\ \E x : setup'[n] = [r EXCEPT !.res = x]
            /\ \A m \in Sockets \ {n} : setup'[m] = setup[m]
            /\ helloed' \subseteq helloed \cup {r.sock}
        BY <1>2, <2>2 DEF SetupCompletes, SetupFails
      <3> QED BY <3>2, <3>3
    <2>3. \/ UNCHANGED <<setup, helloed>>
          \/ \E n \in Sockets : SetupCompletes(n) \/ SetupFails(n)
      BY DEF Completion, Expiry, Server, Fault, WriteCompletes, WriteFails, ReadCompletes,
             ReadFails, ReadExpires, WriteExpires, Respond,
             ConnectionLost, Dying, DerefFreedLoop, DerefNullRequest, DerefNullSocket,
             AssertFails, Abort, vars
    <2> QED BY <2>1, <2>2, <2>3
  <1>6. OnePlace'
    BY <1>1, <1>3, <1>4, <1>5 DEF WriteInv, OnePlace
  <1>7. \A n \in Sockets : Unmade(n)' = Unmade(n)
    BY <1>1, <1>4, <1>5 DEF Unmade
  <1>8. Untouched'
    BY <1>1, <1>5, <1>7 DEF WriteInv, Untouched
  <1> QED BY <1>6, <1>8

----------------------------------------------------------------------------
(* The write loop is served.                                               *)

\* The constructor and start() leave nothing to write.
LEMMA WriteInit == Init => WriteInv
  <1> SUFFICES ASSUME Init PROVE WriteInv
    OBVIOUS
  <1>1. \A t \in Threads : todo[t] = <<>> /\ CallsOf(t) = {} /\ Below(t) = {}
    BY DEF Init, CallsOf, Below
  <1>2. InOrder
    BY <1>1 DEF InOrder, Chained
  <1>3. \A ops : \A n : ~BusyOn(ops, n)
    BY <1>1 DEF BusyOn
  <1>4. /\ \A n \in Sockets : setup[n].sock = NoSocket /\ (n > 1 => setup[n].kind = "none")
        /\ \A n \in Sockets : n # NoSocket
    BY DEF Init, NoSetup, Sockets, NoSocket
  <1>5. OnePlace
    BY <1>1, <1>3, <1>4 DEF OnePlace, Init
  <1>6. Untouched
    BY <1>4 DEF Untouched, Init
  <1> QED BY <1>2, <1>5, <1>6, TypeInit DEF Init, WriteInv, WriterRuns, FlagComes, WriterComes

\* The invariant is inductive, with and without authentication.
LEMMA WriteStep == WriteInv /\ [Next]_vars => WriteInv'
  <1> SUFFICES ASSUME WriteInv, [Next]_vars PROVE WriteInv'
    OBVIOUS
  <1>1. TypeOK /\ TypeOK' /\ InOrder
    BY TypeStep DEF WriteInv
  <1>2. ASSUME NEW t \in Threads, Writing(t) \/ Reading(t) \/ Restarting(t) \/ Connecting(t)
        PROVE  WriteInv'
    <2>1. InOrder'
      BY <1>1, <1>2, RunStack
    <2>2. WriterRuns'
      BY <1>2, WriterRunsQuiet, WriterRunsStep DEF Writing, Restarting
    <2>3. FlagComes' /\ WriterComes'
      BY <1>2, WakeQuiet, WakeWriting, WakeRestart DEF Writing, Restarting, Connecting
    <2>4. OnePlace' /\ Untouched'
      BY <1>2, PlaceQuiet, PlaceBegin, PlaceResolve DEF Connecting
    <2> QED BY <1>1, <2>1, <2>2, <2>3, <2>4 DEF WriteInv
  <1>3. ASSUME NEW t \in Threads, SendRequest(t) \/ Dispatch(t) PROVE WriteInv'
    <2>1. InOrder'
      BY <1>1, <1>3, SendStack, LoopHandlerStack, SetupHandlerStack DEF Dispatch
    <2>2. OnePlace' /\ Untouched'
      BY <1>3, PlaceHandler, PlaceLoopHandler DEF Dispatch
    <2> QED BY <1>1, <1>3, <2>1, <2>2, WriterRunsHandler, WakeHandler DEF WriteInv
  <1>4. CASE \/ Completion \/ Expiry \/ Server \/ Fault \/ \E t \in Threads : Dying(t)
             \/ UNCHANGED vars
    <2>1. UNCHANGED todo
      BY <1>4 DEF Completion, Expiry, Server, Fault, WriteCompletes, WriteFails, ReadCompletes,
                  ReadFails, SetupCompletes, ReadExpires, WriteExpires, Respond, SetupFails,
                  ConnectionLost, Dying, DerefFreedLoop, DerefNullRequest, DerefNullSocket,
                  AssertFails, Abort, vars
    <2>2. InOrder'
      BY <1>1, <2>1, BusySame
    <2> QED BY <1>1, <1>4, <2>2, WriterRunsEnvironment, WakeEnvironment, PlaceEnvironment
            DEF WriteInv
  <1> QED BY <1>2, <1>3, <1>4 DEF Next, Run, Threads

\* No wakeup of the write loop is lost, with and without authentication:
\* sendRequest queues before it looks at _connected, the handler of the
\* header sets _connected before it starts the loop, the loop stops only when
\* it finds the queue empty under its mutex, and who takes the loop away
\* closes the socket.
THEOREM RequestsWritten == Spec => []QueueServed
  <1>1. WriteInv => QueueServed
    <2> SUFFICES ASSUME WriteInv, Resting, sendQueue # <<>>, ~permanentFailure, socket \in helloed,
                        \A n \in Sockets : setup[n].kind = "none"
                 PROVE  writeCur # NoLoop /\ wr[writeCur].op # "idle"
      BY DEF QueueServed
    <2>1. ~Busy(WakeOps) /\ ~BusyOn(WriteCalls, writeCur)
      BY RestingIsIdle
    <2>2. ~HeaderDone
      BY DEF HeaderDone
    <2>3. writeCur # NoLoop
      BY <2>1, <2>2 DEF WriteInv, WriterComes, WakeOps
    <2> QED BY <2>1, <2>3 DEF WriteInv, WriterRuns
  <1> QED BY <1>1, WriteInit, WriteStep, PTL DEF Spec

=============================================================================
