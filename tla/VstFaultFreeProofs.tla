------------------------ MODULE VstFaultFreeProofs -------------------------
(***************************************************************************)
(* Proofs about a connection whose network and server do not fail and      *)
(* whose deadlines do not expire: requests are written only after the VST  *)
(* header, one write at a time, and the process does not die.              *)
(***************************************************************************)
EXTENDS VstWakeupProofs

----------------------------------------------------------------------------
(* The inductive invariant.                                                *)

\* The calls that end a connection, and the calls that use one.
StopOps == {"restartRead", "restartWrite", "restart", "stopWriting", "stopReading",
            "shutdownSocket", "cancelAll", "resolveAgain", "onFailure"}
UseOps == {"insertAuth", "setConnected", "startWriting", "startReading"}
            \cup ReadCalls \cup WriteCalls

\* Nothing has failed, and nobody handles a failure.
Healthy ==
  /\ ~permanentFailure /\ attempts = 1
  /\ \A t \in Threads : \A c \in CallsOf(t) : c.op \notin StopOps /\ c.err \notin Errors
  /\ \A n \in Sockets : setup[n].res # "err"
  /\ \A s \in Sockets : sock[s] \notin {"lost", "closed"}
  /\ \A l \in Loops : /\ rd[l].op # "err" /\ ~rd[l].expired
                      /\ wr[l].op # "err" /\ ~wr[l].expired

\* The one attempt makes the one socket, and nobody uses the socket before
\* the header was written.
HeaderFirst ==
  /\ socket \in {NoSocket, 1}
  /\ \A s \in helloed : sock[s] = "connected"
  /\ \A n \in Sockets : setup[n].kind \in {"connect", "handshake", "header"} => setup[n].sock = socket
  /\ \A n \in Sockets : setup[n].kind # "none" =>
       (socket \in helloed <=> setup[n].kind = "header" /\ setup[n].res = "ok")
  /\ Busy(SetupCalls) => socket \notin helloed
  /\ Busy({"handshake", "finishInit"}) => socket # NoSocket
  /\ connected \/ readCur # NoLoop \/ writeCur # NoLoop \/ Busy(UseOps) => socket \in helloed

\* At most one call of these kinds is still to be made, by all threads.
Sole(ops) ==
  \A t, u \in Threads : \A j \in DOMAIN todo[t], k \in DOMAIN todo[u] :
    todo[t][j].op \in ops /\ todo[u][k].op \in ops => t = u /\ j = k

\* Only the current loop runs, on the current socket: its operation is under
\* way, or one thread goes on with it.
OneLoop(loop, cur, calls) ==
  /\ Sole(calls)
  /\ \A t \in Threads : \A c \in CallsOf(t) : c.op \in calls => c.on = cur /\ loop[cur].op = "idle"
  /\ \A l \in Loops : loop[l].op # "idle" => l = cur
  /\ cur # NoLoop => loop[cur].sock = socket

CalmInv == /\ WriteInv /\ Healthy /\ HeaderFirst
           /\ OneLoop(rd, readCur, ReadCalls) /\ OneLoop(wr, writeCur, WriteCalls)

\* The calls that make an established connection usable.
EstablishOps == {"insertAuth", "setConnected", "startWriting"}

\* The authentication request is queued before any write loop exists.
AuthFirst ==
  /\ (\E n \in Sockets : setup[n].kind # "none") =>
       ~connected /\ writeCur = NoLoop /\ ~Busy(EstablishOps)
  /\ \A t \in Threads : \A c \in CallsOf(t) : c.op = "insertAuth" =>
       /\ ~connected /\ writeCur = NoLoop
       /\ \A u \in Threads : \A d \in CallsOf(u) : d.op \in EstablishOps => u = t
       /\ \A d \in Below(t) : d.op # "insertAuth"

\* What happens to an item after its write was issued.
LaterOps == HandledOps \ {"issueWrite"}

\* An item is written once, and nobody answers it before.
Staged ==
  /\ sent \subseteq 1 .. nextID /\ sent \cap Waiting = {}
  /\ \A t \in Threads : \A c \in CallsOf(t) :
       /\ c.op = "removeFirst" => c.id \in store
       /\ c.op = "issueWrite" => /\ c.id \in store /\ c.id \notin sent /\ c.id \notin OnTheWay
                                 /\ c.id \notin InCall(LaterOps)

NeverDiesInv == CalmInv /\ IndInv /\ AuthFirst /\ Staged /\ NeverDies

\* The authentication request is not written yet.
Unwritten == Auth /\ authIDs \cap sent = {}

\* Before it is queued, nobody can start a write loop.
NotBegun ==
  /\ ~connected /\ writeCur = NoLoop
  /\ \A t \in Threads : \A c \in CallsOf(t) :
       c.op \in {"setConnected", "startWriting"} => \E d \in CallsOf(t) : d.op = "insertAuth"

\* The calls that hand an item from the queue to the socket.
HandOverOps == {"addToStore", "removeFirst", "issueWrite"}

\* Until it is written, no other request is handed over or written, and it is
\* the first of the queue unless its write was started.
AuthNext == \/ authIDs = {} \/ Busy({"issueWrite"}) \/ \E l \in Loops : wr[l].op # "idle"
            \/ sendQueue # <<>> /\ Head(sendQueue) \in authIDs
AuthLeads ==
  Unwritten =>
    /\ authIDs = {} => NotBegun
    /\ \A t \in Threads : \A c \in CallsOf(t) : c.op \in HandOverOps => c.id \in authIDs
    /\ \A l \in Loops : wr[l].op # "idle" => Head(wr[l].data) \in authIDs
    /\ AuthNext

----------------------------------------------------------------------------
(* One call of a kind.                                                     *)

\* What is left of a stack below the calls that are put on it.
LEMMA PushedStack ==
  ASSUME todo \in [Threads -> Seq(Call)], NEW t \in Threads,
         NEW S, NEW calls \in Seq(S), Pushes(t, calls)
  PROVE  /\ \A u \in Threads \ {t} : todo'[u] = todo[u]
         /\ \A k \in 1 .. Len(calls) : k \in DOMAIN todo'[t] /\ todo'[t][k] = calls[k]
         /\ \A k \in DOMAIN todo'[t] : k \in Nat /\ k >= 1
         /\ \A k \in DOMAIN todo'[t] : k > Len(calls) =>
              /\ (k - Len(calls)) + 1 \in DOMAIN todo[t] /\ (k - Len(calls)) + 1 > 1
              /\ todo'[t][k] = todo[t][(k - Len(calls)) + 1]
  <1>1. CASE todo[t] # <<>> /\ Then(t, calls)
    <2> DEFINE rest == Tail(todo[t])
               U == S \cup Call
    <2>1. rest \in Seq(U) /\ calls \in Seq(U) /\ todo'[t] = calls \o rest
          /\ \A u \in Threads \ {t} : todo'[u] = todo[u]
      <3>1. rest \in Seq(Call)
        BY <1>1, HeadTailProperties
      <3> QED BY <1>1, <3>1 DEF Then
    <2>2. /\ Len(todo[t]) \in Nat /\ DOMAIN todo[t] = 1 .. Len(todo[t])
          /\ Len(rest) = Len(todo[t]) - 1
          /\ \A k \in 1 .. Len(rest) : rest[k] = todo[t][k + 1]
      BY <1>1, HeadTailProperties
    <2> HIDE DEF rest, U
    <2>3. /\ Len(calls) \in Nat /\ Len(rest) \in Nat
          /\ DOMAIN (calls \o rest) = 1 .. Len(calls) + Len(rest)
          /\ \A k \in 1 .. Len(calls) + Len(rest) :
               (calls \o rest)[k] = IF k <= Len(calls) THEN calls[k] ELSE rest[k - Len(calls)]
      BY <2>1, ConcatProperties
    <2>4. ASSUME NEW k \in DOMAIN todo'[t], k > Len(calls)
          PROVE  /\ (k - Len(calls)) + 1 \in DOMAIN todo[t] /\ (k - Len(calls)) + 1 > 1
                 /\ todo'[t][k] = todo[t][(k - Len(calls)) + 1]
      <3>1. k \in 1 .. Len(calls) + Len(rest) /\ k - Len(calls) \in 1 .. Len(rest)
        BY <2>1, <2>3, <2>4
      <3>2. todo'[t][k] = rest[k - Len(calls)]
        BY <2>1, <2>3, <2>4, <3>1
      <3> QED BY <2>2, <2>3, <3>1, <3>2
    <2> QED BY <2>1, <2>3, <2>4
  <1>2. CASE todo[t] = <<>> /\ todo' = [todo EXCEPT ![t] = calls]
    <2>1. Len(calls) \in Nat /\ DOMAIN calls = 1 .. Len(calls) /\ todo'[t] = calls
      BY <1>2
    <2> QED BY <1>2, <2>1
  <1> QED BY <1>1, <1>2 DEF Pushes

\* Calls of a kind stay alone when one is made in the place of another, or
\* when there was none.
LEMMA SoleStep ==
  ASSUME todo \in [Threads -> Seq(Call)], NEW ops, Sole(ops), NEW t \in Threads,
         NEW S, NEW calls \in Seq(S), Pushes(t, calls),
         \A j, k \in 1 .. Len(calls) : calls[j].op \in ops /\ calls[k].op \in ops => j = k,
         (\E k \in 1 .. Len(calls) : calls[k].op \in ops) =>
           ~Busy(ops) \/ (todo[t] # <<>> /\ Now(t).op \in ops)
  PROVE  Sole(ops)'
  <1>1. /\ \A u \in Threads \ {t} : todo'[u] = todo[u]
        /\ \A k \in 1 .. Len(calls) : k \in DOMAIN todo'[t] /\ todo'[t][k] = calls[k]
        /\ \A k \in DOMAIN todo'[t] : k \in Nat /\ k >= 1
        /\ \A k \in DOMAIN todo'[t] : k > Len(calls) =>
             /\ (k - Len(calls)) + 1 \in DOMAIN todo[t] /\ (k - Len(calls)) + 1 > 1
             /\ todo'[t][k] = todo[t][(k - Len(calls)) + 1]
    BY PushedStack
  <1>2. Len(calls) \in Nat
    OBVIOUS
  <1> DEFINE New(u, k) == u = t /\ k <= Len(calls)
             At0(u, k) == IF u = t THEN (k - Len(calls)) + 1 ELSE k
  <1>3. ASSUME NEW u \in Threads, NEW k \in DOMAIN todo'[u], New(u, k), todo'[u][k].op \in ops
        PROVE  k \in 1 .. Len(calls) /\ calls[k].op \in ops
    BY <1>1, <1>2, <1>3
  <1>4. ASSUME NEW u \in Threads, NEW k \in DOMAIN todo'[u], ~New(u, k), todo'[u][k].op \in ops
        PROVE  /\ At0(u, k) \in DOMAIN todo[u] /\ todo[u][At0(u, k)].op \in ops
               /\ u = t => At0(u, k) > 1
    <2>1. CASE u = t
      <3>1. k > Len(calls)
        BY <1>1, <1>2, <1>4, <2>1
      <3> QED BY <1>1, <1>4, <2>1, <3>1
    <2>2. CASE u # t
      BY <1>1, <1>4, <2>2
    <2> QED BY <2>1, <2>2
  <1>5. ASSUME NEW u \in Threads, NEW k \in DOMAIN todo'[u], todo'[u][k].op \in ops, ~New(u, k),
               NEW j \in 1 .. Len(calls), calls[j].op \in ops
        PROVE  FALSE
    <2>1. /\ At0(u, k) \in DOMAIN todo[u] /\ todo[u][At0(u, k)].op \in ops
          /\ u = t => At0(u, k) > 1
      BY <1>4, <1>5
    <2> DEFINE m == At0(u, k)
    <2>2. m \in DOMAIN todo[u] /\ todo[u][m].op \in ops /\ (u = t => m > 1)
      BY <2>1
    <2> HIDE DEF m, At0
    <2>3. Busy(ops)
      BY <2>2 DEF Busy, CallsOf
    <2>4. todo[t] # <<>> /\ Now(t).op \in ops
      BY <1>5, <2>3
    <2>5. 1 \in DOMAIN todo[t] /\ todo[t][1].op \in ops
      BY <2>4 DEF Now
    <2>6. u = t /\ m = 1
      BY <2>2, <2>5 DEF Sole
    <2> QED BY <2>2, <2>6
  <1>6. ASSUME NEW u \in Threads, NEW v \in Threads,
               NEW j \in DOMAIN todo'[u], NEW k \in DOMAIN todo'[v],
               todo'[u][j].op \in ops, todo'[v][k].op \in ops
        PROVE  u = v /\ j = k
    <2>1. CASE New(u, j) /\ New(v, k)
      BY <1>3, <1>6, <2>1
    <2>2. CASE New(u, j) /\ ~New(v, k)
      BY <1>3, <1>5, <1>6, <2>2
    <2>3. CASE ~New(u, j) /\ New(v, k)
      BY <1>3, <1>5, <1>6, <2>3
    <2>4. CASE ~New(u, j) /\ ~New(v, k)
      <3>1. /\ At0(u, j) \in DOMAIN todo[u] /\ todo[u][At0(u, j)].op \in ops
            /\ At0(v, k) \in DOMAIN todo[v] /\ todo[v][At0(v, k)].op \in ops
        BY <1>4, <1>6, <2>4
      <3>2. u = v /\ At0(u, j) = At0(v, k)
        BY <3>1 DEF Sole
      <3>3. CASE u = t
        <4>1. j \in Nat /\ k \in Nat
          BY <1>1, <3>2, <3>3
        <4> QED BY <1>2, <3>2, <3>3, <4>1
      <3>4. CASE u # t
        BY <3>2, <3>4
      <3> QED BY <3>3, <3>4
    <2> QED BY <2>1, <2>2, <2>3, <2>4
  <1> QED BY <1>6 DEF Sole

\* A call of a kind that is alone has no other below it or on other stacks.
LEMMA SoleNow ==
  ASSUME todo \in [Threads -> Seq(Call)], NEW ops, Sole(ops), NEW t \in Threads,
         todo[t] # <<>>, Now(t).op \in ops
  PROVE  /\ \A c \in Below(t) : c.op \notin ops
         /\ \A u \in Threads \ {t} : \A c \in CallsOf(u) : c.op \notin ops
  <1>1. 1 \in DOMAIN todo[t] /\ todo[t][1].op \in ops /\ DOMAIN todo[t] = 1 .. Len(todo[t])
        /\ Len(todo[t]) \in Nat
    BY DEF Now
  <1>2. ASSUME NEW c \in Below(t), c.op \in ops PROVE FALSE
    <2>1. PICK k \in 2 .. Len(todo[t]) : c = todo[t][k]
      BY <1>2 DEF Below
    <2>2. k \in DOMAIN todo[t] /\ k # 1
      BY <1>1
    <2> QED BY <1>1, <1>2, <2>1, <2>2 DEF Sole
  <1>3. ASSUME NEW u \in Threads \ {t}, NEW c \in CallsOf(u), c.op \in ops PROVE FALSE
    BY <1>1, <1>3 DEF Sole, CallsOf
  <1> QED BY <1>2, <1>3

\* The current call returns, or makes one call or two.
LEMMA SoleReturn ==
  ASSUME todo \in [Threads -> Seq(Call)], NEW ops, Sole(ops), NEW t \in Threads, todo[t] # <<>>
  PROVE  /\ Return(t) => Sole(ops)'
         /\ \A a : Then(t, <<a>>) /\ (a.op \in ops => ~Busy(ops) \/ Now(t).op \in ops) => Sole(ops)'
         /\ \A a, b : /\ Then(t, <<a, b>>) /\ ~(a.op \in ops /\ b.op \in ops)
                      /\ a.op \in ops \/ b.op \in ops => ~Busy(ops) \/ Now(t).op \in ops
                      => Sole(ops)'
  <1>1. ASSUME Return(t) PROVE Sole(ops)'
    <2> DEFINE calls == <<>>
               S == {}
    <2>1. calls \in Seq(S) /\ 1 .. Len(calls) = {} /\ Pushes(t, calls)
      BY <1>1 DEF Return, Pushes
    <2> HIDE DEF calls, S
    <2>2. \A k \in 1 .. Len(calls) : calls[k].op \notin ops
      BY <2>1
    <2> QED BY <2>1, <2>2, SoleStep
  <1>2. ASSUME NEW a, Then(t, <<a>>), a.op \in ops => ~Busy(ops) \/ Now(t).op \in ops
        PROVE  Sole(ops)'
    <2> DEFINE calls == <<a>>
               S == {a}
    <2>1. calls \in Seq(S) /\ Len(calls) = 1 /\ calls[1] = a /\ Pushes(t, calls)
      BY <1>2 DEF Pushes
    <2> HIDE DEF calls, S
    <2> QED BY <1>2, <2>1, SoleStep
  <1>3. ASSUME NEW a, NEW b, Then(t, <<a, b>>), ~(a.op \in ops /\ b.op \in ops),
               a.op \in ops \/ b.op \in ops => ~Busy(ops) \/ Now(t).op \in ops
        PROVE  Sole(ops)'
    <2> DEFINE calls == <<a, b>>
               S == {a, b}
    <2>1. calls \in Seq(S) /\ Len(calls) = 2 /\ calls[1] = a /\ calls[2] = b /\ Pushes(t, calls)
      BY <1>3 DEF Pushes
    <2> HIDE DEF calls, S
    <2>2. \A k \in 1 .. Len(calls) : k = 1 \/ k = 2
      BY <2>1
    <2> QED BY <1>3, <2>1, <2>2, SoleStep
  <1> QED BY <1>1, <1>2, <1>3

\* No thread moves.
LEMMA SoleSame ==
  ASSUME UNCHANGED todo, NEW ops, Sole(ops)
  PROVE  Sole(ops)'
  BY DEF Sole

----------------------------------------------------------------------------
(* One loop.                                                               *)

\* OneLoop after a step that leaves the loops as they are in f.
OneLoopNext(f, cur, ops) ==
  /\ Sole(ops)'
  /\ \A t \in Threads : \A c \in CallsOf(t)' : c.op \in ops => c.on = cur /\ f[cur].op = "idle"
  /\ \A l \in Loops : f[l].op # "idle" => l = cur
  /\ cur # NoLoop => f[cur].sock = socket'

\* A step that leaves the loops alone: the current loop may be passed on.
LEMMA LoopSame ==
  ASSUME NEW t \in Threads, NEW old, NEW top, NEW rest, Moves(t, old, top, rest),
         NEW ops, NEW f, NEW cur, OneLoop(f, cur, ops), Sole(ops)',
         \A c \in top \cup rest : c.op \in ops => c.on = cur /\ f[cur].op = "idle",
         socket' = socket \/ cur = NoLoop
  PROVE  OneLoopNext(f, cur, ops)
  <1>1. \A u \in Threads : \A c \in CallsOf(u)' : c \in CallsOf(u) \/ c \in top \cup rest
    BY DEF Moves
  <1> QED BY <1>1 DEF OneLoop, OneLoopNext

\* A step after which only the calls it makes go on with a loop.
LEMMA LoopChanged ==
  ASSUME NEW t \in Threads, NEW old, NEW top, NEW rest, Moves(t, old, top, rest),
         NEW ops, Sole(ops)', NEW f, NEW cur,
         \A c \in Below(t) : c.op \notin ops,
         \A u \in Threads \ {t} : \A c \in CallsOf(u) : c.op \notin ops,
         \A c \in top \cup rest : c.op \in ops => c.on = cur /\ f[cur].op = "idle",
         \A l \in Loops : f[l].op # "idle" => l = cur,
         cur # NoLoop => f[cur].sock = socket'
  PROVE  OneLoopNext(f, cur, ops)
  <1>1. ASSUME NEW u \in Threads, NEW c \in CallsOf(u)', c.op \in ops PROVE c \in top \cup rest
    BY <1>1 DEF Moves
  <1> QED BY <1>1 DEF OneLoopNext

\* A loop that nobody goes on with: none is current, or it is not idle.
LEMMA LoopFree ==
  ASSUME todo \in [Threads -> Seq(Call)], NEW ops \in {ReadCalls, WriteCalls}, NEW f, NEW cur,
         OneLoop(f, cur, ops), cur = NoLoop \/ f[cur].op # "idle"
  PROVE  ~Busy(ops)
  <1>1. ASSUME NEW u \in Threads, NEW c \in CallsOf(u), c.op \in ops PROVE FALSE
    <2>1. c \in Call
      BY DEF CallsOf
    <2>2. c.on \in Loops
      BY <1>1, <2>1 DEF Call
    <2>3. NoLoop \notin Loops
      BY BoundsAssumption DEF NoLoop, Loops
    <2> QED BY <1>1, <2>2, <2>3 DEF OneLoop
  <1> QED BY <1>1 DEF Busy

\* A new loop becomes current.
LEMMA LoopStarts ==
  ASSUME todo \in [Threads -> Seq(Call)], NEW t \in Threads, todo[t] # <<>>,
         NEW ops \in {ReadCalls, WriteCalls},
         NEW f \in [Loops -> LoopRec], OneLoop(f, NoLoop, ops), UNCHANGED socket,
         NEW l \in Loops, NEW a, a.on = l, Then(t, <<a>>), Now(t).op \notin ops
  PROVE  OneLoopNext([f EXCEPT ![l] = NewLoop(socket)], l, ops)
  <1> DEFINE g == [f EXCEPT ![l] = NewLoop(socket)]
  <1>1. ~Busy(ops)
    BY LoopFree
  <1>2. Sole(ops)' /\ Moves(t, {Now(t)}, {a}, {})
    <2>1. Sole(ops)
      BY DEF OneLoop
    <2> QED BY <1>1, <2>1, SoleReturn, ThenMoves
  <1>3. NoLoop \notin Loops
    BY BoundsAssumption DEF NoLoop, Loops
  <1>4. g[l].op = "idle" /\ g[l].sock = socket /\ \A k \in Loops \ {l} : g[k] = f[k]
    BY DEF NewLoop
  <1>5. \A k \in Loops : g[k].op = "idle"
    BY <1>3, <1>4 DEF OneLoop
  <1> HIDE DEF g
  <1>6. /\ \A c \in Below(t) : c.op \notin ops
        /\ \A u \in Threads \ {t} : \A c \in CallsOf(u) : c.op \notin ops
    <2>1. Below(t) \subseteq CallsOf(t)
      BY <1>2 DEF Moves
    <2> QED BY <1>1, <2>1 DEF Busy
  <1>7. OneLoopNext(g, l, ops)
    BY <1>2, <1>4, <1>5, <1>6, LoopChanged
  <1> QED BY <1>7 DEF g

\* The current loop stops.
LEMMA LoopStops ==
  ASSUME todo \in [Threads -> Seq(Call)], NEW t \in Threads, todo[t] # <<>>,
         NEW ops, NEW f, NEW cur, OneLoop(f, cur, ops), Now(t).op \in ops, Return(t)
  PROVE  OneLoopNext(f, NoLoop, ops)
  <1>1. Sole(ops)
    BY DEF OneLoop
  <1>2. Sole(ops)' /\ Moves(t, {Now(t)}, {}, {})
    BY <1>1, SoleReturn, ThenMoves
  <1>3. /\ \A c \in Below(t) : c.op \notin ops
        /\ \A u \in Threads \ {t} : \A c \in CallsOf(u) : c.op \notin ops
    BY <1>1, SoleNow
  <1>4. Now(t) \in CallsOf(t)
    BY <1>2 DEF Moves
  <1>5. \A l \in Loops : f[l].op = "idle"
    BY <1>4 DEF OneLoop
  <1> QED BY <1>2, <1>3, <1>5, LoopChanged

\* The operation of the current loop starts.
LEMMA LoopIssues ==
  ASSUME todo \in [Threads -> Seq(Call)], NEW t \in Threads, todo[t] # <<>>,
         NEW ops \in {ReadCalls, WriteCalls}, NEW f \in [Loops -> LoopRec], NEW cur,
         OneLoop(f, cur, ops), Now(t).op \in ops, Return(t), UNCHANGED socket,
         NEW r, r.sock = f[Now(t).on].sock
  PROVE  OneLoopNext([f EXCEPT ![Now(t).on] = r], cur, ops)
  <1> DEFINE g == [f EXCEPT ![Now(t).on] = r]
  <1>1. Sole(ops)
    BY DEF OneLoop
  <1>2. Sole(ops)' /\ Moves(t, {Now(t)}, {}, {})
    BY <1>1, SoleReturn, ThenMoves
  <1>3. /\ \A c \in Below(t) : c.op \notin ops
        /\ \A u \in Threads \ {t} : \A c \in CallsOf(u) : c.op \notin ops
    BY <1>1, SoleNow
  <1>4. Now(t).on = cur /\ cur \in Loops
    <2>1. Now(t) \in CallsOf(t) /\ Now(t) \in Call
      BY <1>2, NowIsCall DEF Moves
    <2> QED BY <2>1 DEF OneLoop, Call
  <1>5. g[cur].sock = f[cur].sock /\ \A l \in Loops \ {cur} : g[l] = f[l]
    BY <1>4
  <1> HIDE DEF g
  <1>6. (\A l \in Loops : g[l].op # "idle" => l = cur) /\ (cur # NoLoop => g[cur].sock = socket')
    BY <1>5 DEF OneLoop
  <1>7. OneLoopNext(g, cur, ops)
    BY <1>2, <1>3, <1>6, LoopChanged
  <1> QED BY <1>7 DEF g

\* The handler of the current loop's operation runs, and goes on with it.
LEMMA LoopHandled ==
  ASSUME todo \in [Threads -> Seq(Call)], NEW t \in Threads, todo[t] = <<>>,
         NEW ops \in {ReadCalls, WriteCalls}, NEW f \in [Loops -> LoopRec], NEW cur,
         OneLoop(f, cur, ops), UNCHANGED socket,
         NEW l \in Loops, f[l].op # "idle", NEW r, r.op = "idle", r.sock = f[l].sock,
         NEW S, NEW calls \in Seq(S), todo' = [todo EXCEPT ![t] = calls],
         \A j, k \in 1 .. Len(calls) : calls[j].op \in ops /\ calls[k].op \in ops => j = k,
         \A k \in 1 .. Len(calls) : calls[k].op \in ops => calls[k].on = l
  PROVE  OneLoopNext([f EXCEPT ![l] = r], cur, ops)
  <1> DEFINE g == [f EXCEPT ![l] = r]
  <1>1. Sole(ops) /\ l = cur /\ ~Busy(ops)
    BY LoopFree DEF OneLoop
  <1>2. Sole(ops)' /\ Moves(t, {}, {}, Range(calls))
    <2>1. Pushes(t, calls)
      BY DEF Pushes
    <2> QED BY <1>1, <2>1, SoleStep, BeginMoves
  <1>3. /\ \A c \in Below(t) : c.op \notin ops
        /\ \A u \in Threads \ {t} : \A c \in CallsOf(u) : c.op \notin ops
    <2>1. Below(t) \subseteq CallsOf(t)
      BY <1>2 DEF Moves
    <2> QED BY <1>1, <2>1 DEF Busy
  <1>4. g[cur].op = "idle" /\ g[cur].sock = f[cur].sock /\ \A k \in Loops \ {cur} : g[k] = f[k]
    BY <1>1
  <1> HIDE DEF g
  <1>5. (\A k \in Loops : g[k].op # "idle" => k = cur) /\ (cur # NoLoop => g[cur].sock = socket')
    BY <1>4 DEF OneLoop
  <1>6. \A c \in {} \cup Range(calls) : c.op \in ops => c.on = cur /\ g[cur].op = "idle"
    BY <1>1, <1>4 DEF Range
  <1>7. OneLoopNext(g, cur, ops)
    BY <1>2, <1>3, <1>5, <1>6, LoopChanged
  <1> QED BY <1>7 DEF g

\* The operation of the current loop completes.
LEMMA LoopCompletes ==
  ASSUME todo \in [Threads -> Seq(Call)], UNCHANGED <<todo, socket>>,
         NEW ops \in {ReadCalls, WriteCalls}, NEW f \in [Loops -> LoopRec], NEW cur,
         OneLoop(f, cur, ops), NEW l \in Loops, f[l].op # "idle", NEW r, r.sock = f[l].sock
  PROVE  OneLoopNext([f EXCEPT ![l] = r], cur, ops)
  <1> DEFINE g == [f EXCEPT ![l] = r]
  <1>1. Sole(ops) /\ l = cur /\ ~Busy(ops)
    BY LoopFree DEF OneLoop
  <1>2. Sole(ops)' /\ \A u \in Threads : CallsOf(u)' = CallsOf(u)
    BY <1>1, SoleSame DEF CallsOf
  <1>3. g[cur].sock = f[cur].sock /\ \A k \in Loops \ {cur} : g[k] = f[k]
    BY <1>1
  <1> HIDE DEF g
  <1>4. (\A k \in Loops : g[k].op # "idle" => k = cur) /\ (cur # NoLoop => g[cur].sock = socket')
    BY <1>3 DEF OneLoop
  <1>5. OneLoopNext(g, cur, ops)
    BY <1>1, <1>2, <1>4 DEF OneLoopNext, Busy
  <1> QED BY <1>5 DEF g

\* Neither a loop nor a thread moves.
LEMMA LoopLeft ==
  ASSUME UNCHANGED todo, NEW ops, NEW f, NEW cur, OneLoop(f, cur, ops),
         socket' = socket \/ cur = NoLoop
  PROVE  OneLoopNext(f, cur, ops)
  <1>1. Sole(ops)' /\ \A u \in Threads : CallsOf(u)' = CallsOf(u)
    BY SoleSame DEF CallsOf, OneLoop
  <1> QED BY <1>1 DEF OneLoop, OneLoopNext

\* A call that leaves the loops alone, or passes on the one it is about.
LEMMA LoopPass ==
  ASSUME todo \in [Threads -> Seq(Call)], NEW t \in Threads, todo[t] # <<>>,
         NEW ops, NEW f, NEW cur, OneLoop(f, cur, ops), socket' = socket \/ cur = NoLoop
  PROVE  /\ Return(t) => OneLoopNext(f, cur, ops)
         /\ \A a : /\ Then(t, <<a>>)
                   /\ a.op \in ops => Now(t).op \in ops /\ a.on = Now(t).on
                   => OneLoopNext(f, cur, ops)
         /\ \A a, b : /\ Then(t, <<a, b>>) /\ a.op \notin ops
                      /\ b.op \in ops => Now(t).op \in ops /\ b.on = Now(t).on
                      => OneLoopNext(f, cur, ops)
  <1>1. Sole(ops)
    BY DEF OneLoop
  <1>2. Now(t).op \in ops => Now(t).on = cur /\ f[cur].op = "idle"
    <2>1. Now(t) \in CallsOf(t)
      BY StackSplit
    <2> QED BY <2>1 DEF OneLoop
  <1>3. ASSUME Return(t) PROVE OneLoopNext(f, cur, ops)
    <2>1. Sole(ops)' /\ Moves(t, {Now(t)}, {}, {})
      BY <1>1, <1>3, SoleReturn, ThenMoves
    <2> QED BY <2>1, LoopSame
  <1>4. ASSUME NEW a, Then(t, <<a>>), a.op \in ops => Now(t).op \in ops /\ a.on = Now(t).on
        PROVE  OneLoopNext(f, cur, ops)
    <2>1. Sole(ops)' /\ Moves(t, {Now(t)}, {a}, {})
      BY <1>1, <1>4, SoleReturn, ThenMoves
    <2>2. \A c \in {a} \cup {} : c.op \in ops => c.on = cur /\ f[cur].op = "idle"
      BY <1>2, <1>4
    <2> QED BY <2>1, <2>2, LoopSame
  <1>5. ASSUME NEW a, NEW b, Then(t, <<a, b>>), a.op \notin ops,
               b.op \in ops => Now(t).op \in ops /\ b.on = Now(t).on
        PROVE  OneLoopNext(f, cur, ops)
    <2>1. Sole(ops)' /\ Moves(t, {Now(t)}, {}, {a, b})
      BY <1>1, <1>5, SoleReturn, ThenMoves
    <2>2. \A c \in {} \cup {a, b} : c.op \in ops => c.on = cur /\ f[cur].op = "idle"
      BY <1>2, <1>5
    <2> QED BY <2>1, <2>2, LoopSame
  <1> QED BY <1>3, <1>4, <1>5

\* The calls of the threads keep one read loop and one write loop.
LEMMA LoopsRun ==
  ASSUME CalmInv, NEW t \in Threads, Writing(t) \/ Reading(t) \/ Connecting(t)
  PROVE  OneLoopNext(rd', readCur', ReadCalls) /\ OneLoopNext(wr', writeCur', WriteCalls)
  <1> USE DEF itemVars, queueVars, connVars, loopVars, setupVars, netVars, budgetVars, outsideVars
  <1> DEFINE c == Now(t)
  <1>1. /\ todo \in [Threads -> Seq(Call)] /\ rd \in [Loops -> LoopRec] /\ wr \in [Loops -> LoopRec]
        /\ OneLoop(rd, readCur, ReadCalls) /\ OneLoop(wr, writeCur, WriteCalls)
    BY DEF CalmInv, WriteInv, TypeOK, WriteRec
  <1>2. ASSUME todo[t] # <<>>, UNCHANGED <<readCur, rd, writeCur, wr>>,
               \/ socket' = socket
               \/ readCur = NoLoop /\ writeCur = NoLoop,
               \/ Return(t)
               \/ \E a : a.op \notin ReadCalls \cup WriteCalls /\ Then(t, <<a>>)
        PROVE  OneLoopNext(rd, readCur, ReadCalls) /\ OneLoopNext(wr, writeCur, WriteCalls)
    <2>1. socket' = socket \/ readCur = NoLoop
      BY <1>2
    <2>2. socket' = socket \/ writeCur = NoLoop
      BY <1>2
    <2>3. OneLoopNext(rd, readCur, ReadCalls)
      BY <1>1, <1>2, <2>1, LoopPass
    <2>4. OneLoopNext(wr, writeCur, WriteCalls)
      BY <1>1, <1>2, <2>2, LoopPass
    <2> QED BY <2>3, <2>4
  <1>3. CASE Enqueue(t) \/ CheckConnected(t)
    <2>1. /\ todo[t] # <<>> /\ UNCHANGED <<readCur, rd, writeCur, wr>> /\ socket' = socket
          /\ Return(t) \/ Then(t, <<Plain("startWriting")>>)
      BY <1>3 DEF Enqueue, CheckConnected, At, Return
    <2>2. Plain("startWriting").op \notin ReadCalls \cup WriteCalls
      BY DEF Plain, ReadCalls, WriteCalls
    <2> QED BY <1>2, <2>1, <2>2
  <1>4. CASE FindByID(t) \/ RemoveByID(t) \/ MoveRequest(t) \/ Invoke(t)
    <2>1. todo[t] # <<>> /\ UNCHANGED <<readCur, rd, writeCur, wr>> /\ socket' = socket
      BY <1>4 DEF FindByID, RemoveByID, MoveRequest, Invoke, At
    <2>2. Return(t) \/ \E a : a.op \notin ReadCalls \cup WriteCalls /\ Then(t, <<a>>)
      BY <1>4 DEF FindByID, CompletedCalls, RemoveByID, MoveRequest, Invoke, Return, Plain, Item,
                  ReadCalls, WriteCalls
    <2> QED BY <1>2, <2>1, <2>2
  <1>5. CASE Connecting(t)
    <2>1. todo[t] # <<>> /\ UNCHANGED <<readCur, rd, writeCur, wr>> /\ Return(t)
      BY <1>5 DEF Connecting, InitSocket, StartSSLHandshake, FinishInitialization,
                  InsertAuthenticationRequests, SetConnected, OnFailure, At
    <2>2. socket' = socket \/ socket = NoSocket
      BY <1>5 DEF Connecting, InitSocket, StartSSLHandshake, FinishInitialization,
                  InsertAuthenticationRequests, SetConnected, OnFailure
    <2>3. socket = NoSocket => readCur = NoLoop /\ writeCur = NoLoop
      <3>1. helloed \subseteq Sockets
        BY DEF CalmInv, WriteInv, TypeOK
      <3>2. NoSocket \notin Sockets
        BY BoundsAssumption DEF NoSocket, Sockets
      <3> QED BY <3>1, <3>2 DEF CalmInv, HeaderFirst
    <2> QED BY <1>2, <2>1, <2>2, <2>3
  <1>6. CASE StartWriting(t)
    <2>1. /\ todo[t] # <<>> /\ c.op = "startWriting" /\ UNCHANGED <<readCur, rd, socket>>
          /\ \/ Return(t) /\ UNCHANGED <<writeCur, wr>>
             \/ writeCur = NoLoop /\ \E l \in Loops : /\ writeCur' = l
                                                      /\ wr' = [wr EXCEPT ![l] = NewLoop(socket)]
                                                      /\ Then(t, <<On("front", l, FALSE)>>)
      BY <1>6 DEF StartWriting, NoWriteLoop, At, Now
    <2>2. CASE Return(t) /\ UNCHANGED <<writeCur, wr>>
      BY <1>2, <2>1, <2>2
    <2>3. ASSUME NEW l \in Loops, writeCur = NoLoop, writeCur' = l,
                 wr' = [wr EXCEPT ![l] = NewLoop(socket)], Then(t, <<On("front", l, FALSE)>>)
          PROVE  OneLoopNext(rd', readCur', ReadCalls) /\ OneLoopNext(wr', writeCur', WriteCalls)
      <3> DEFINE a == On("front", l, FALSE)
      <3>1. a.op = "front" /\ a.on = l /\ Then(t, <<a>>)
        BY <2>3 DEF On
      <3> HIDE DEF a
      <3>2. OneLoopNext(rd, readCur, ReadCalls)
        BY <1>1, <2>1, <3>1, LoopPass DEF ReadCalls
      <3>3. OneLoop(wr, NoLoop, WriteCalls) /\ c.op \notin WriteCalls
        BY <1>1, <2>1, <2>3 DEF WriteCalls
      <3>4. OneLoopNext([wr EXCEPT ![l] = NewLoop(socket)], l, WriteCalls)
        BY <1>1, <2>1, <3>1, <3>3, LoopStarts
      <3> QED BY <2>1, <2>3, <3>2, <3>4
    <2> QED BY <2>1, <2>2, <2>3
  <1>7. CASE StartReading(t)
    <2>1. /\ todo[t] # <<>> /\ c.op = "startReading" /\ UNCHANGED <<writeCur, wr, socket>>
          /\ \/ Return(t) /\ UNCHANGED <<readCur, rd>>
             \/ readCur = NoLoop /\ \E l \in Loops : /\ readCur' = l
                                                     /\ rd' = [rd EXCEPT ![l] = NewLoop(socket)]
                                                     /\ Then(t, <<On("readNextBytes", l, FALSE)>>)
      BY <1>7 DEF StartReading, NoReadLoop, At, Now
    <2>2. CASE Return(t) /\ UNCHANGED <<readCur, rd>>
      BY <1>2, <2>1, <2>2
    <2>3. ASSUME NEW l \in Loops, readCur = NoLoop, readCur' = l,
                 rd' = [rd EXCEPT ![l] = NewLoop(socket)],
                 Then(t, <<On("readNextBytes", l, FALSE)>>)
          PROVE  OneLoopNext(rd', readCur', ReadCalls) /\ OneLoopNext(wr', writeCur', WriteCalls)
      <3> DEFINE a == On("readNextBytes", l, FALSE)
      <3>1. a.op = "readNextBytes" /\ a.on = l /\ Then(t, <<a>>)
        BY <2>3 DEF On
      <3> HIDE DEF a
      <3>2. OneLoopNext(wr, writeCur, WriteCalls)
        BY <1>1, <2>1, <3>1, LoopPass DEF WriteCalls
      <3>3. OneLoop(rd, NoLoop, ReadCalls) /\ c.op \notin ReadCalls
        BY <1>1, <2>1, <2>3 DEF ReadCalls
      <3>4. OneLoopNext([rd EXCEPT ![l] = NewLoop(socket)], l, ReadCalls)
        BY <1>1, <2>1, <3>1, <3>3, LoopStarts
      <3> QED BY <2>1, <2>3, <3>2, <3>4
    <2> QED BY <2>1, <2>2, <2>3
  <1>8. CASE Front(t)
    <2>1. /\ todo[t] # <<>> /\ c.op = "front" /\ UNCHANGED <<readCur, rd, wr, socket>>
          /\ \/ Return(t) /\ writeCur' \in {writeCur, NoLoop}
             \/ /\ Then(t, <<Send("addToStore", c.on, Head(sendQueue), c.held)>>)
                /\ UNCHANGED writeCur
      BY <1>8 DEF Front, At, Now
    <2>2. CASE Return(t) /\ UNCHANGED writeCur
      BY <1>2, <2>1, <2>2
    <2>3. CASE Return(t) /\ writeCur' = NoLoop
      <3>1. OneLoopNext(rd, readCur, ReadCalls)
        BY <1>1, <2>1, <2>3, LoopPass
      <3>2. OneLoopNext(wr, NoLoop, WriteCalls)
        BY <1>1, <2>1, <2>3, LoopStops DEF WriteCalls
      <3> QED BY <2>1, <2>3, <3>1, <3>2
    <2>4. CASE /\ Then(t, <<Send("addToStore", c.on, Head(sendQueue), c.held)>>)
               /\ UNCHANGED writeCur
      <3> DEFINE a == Send("addToStore", c.on, Head(sendQueue), c.held)
      <3>1. a.op = "addToStore" /\ a.on = c.on /\ Then(t, <<a>>)
        BY <2>4 DEF Send
      <3> HIDE DEF a
      <3>2. OneLoopNext(rd, readCur, ReadCalls)
        BY <1>1, <2>1, <3>1, LoopPass DEF ReadCalls
      <3>3. OneLoopNext(wr, writeCur, WriteCalls)
        BY <1>1, <2>1, <3>1, LoopPass DEF WriteCalls
      <3> QED BY <2>1, <2>4, <3>2, <3>3
    <2> QED BY <2>1, <2>2, <2>3, <2>4
  <1>9. CASE AddToStore(t)
    <2> DEFINE a == Send("removeFirst", c.on, c.id, c.held)
    <2>1. /\ todo[t] # <<>> /\ c.op = "addToStore"
          /\ UNCHANGED <<readCur, rd, writeCur, wr, socket>> /\ Then(t, <<a>>)
      BY <1>9 DEF AddToStore, At, Now
    <2>2. a.op = "removeFirst" /\ a.on = c.on
      BY DEF Send
    <2> HIDE DEF a
    <2>3. OneLoopNext(rd, readCur, ReadCalls)
      BY <1>1, <2>1, <2>2, LoopPass DEF ReadCalls
    <2>4. OneLoopNext(wr, writeCur, WriteCalls)
      BY <1>1, <2>1, <2>2, LoopPass DEF WriteCalls
    <2> QED BY <2>1, <2>3, <2>4
  <1>10. CASE RemoveFirst(t)
    <2> DEFINE a == Plain("startReading")
               b == Send("issueWrite", c.on, c.id, c.held)
    <2>1. /\ todo[t] # <<>> /\ c.op = "removeFirst"
          /\ UNCHANGED <<readCur, rd, writeCur, wr, socket>> /\ Then(t, <<a, b>>)
      BY <1>10 DEF RemoveFirst, WriteCallsFor, At, Now
    <2>2. a.op = "startReading" /\ b.op = "issueWrite" /\ b.on = c.on
      BY DEF Plain, Send
    <2> HIDE DEF a, b
    <2>3. OneLoopNext(rd, readCur, ReadCalls)
      BY <1>1, <2>1, <2>2, LoopPass DEF ReadCalls
    <2>4. OneLoopNext(wr, writeCur, WriteCalls)
      BY <1>1, <2>1, <2>2, LoopPass DEF WriteCalls
    <2> QED BY <2>1, <2>3, <2>4
  <1>11. CASE IssueWrite(t)
    <2> DEFINE r == Started(wr[c.on], <<c.id>>)
    <2>1. /\ todo[t] # <<>> /\ c.op = "issueWrite" /\ UNCHANGED <<readCur, rd, writeCur, socket>>
          /\ wr' = [wr EXCEPT ![c.on] = r] /\ Return(t)
      BY <1>11 DEF IssueWrite, At, Now
    <2>2. r.sock = wr[c.on].sock
      BY DEF Started
    <2> HIDE DEF r
    <2>3. OneLoopNext(rd, readCur, ReadCalls)
      BY <1>1, <2>1, LoopPass
    <2>4. OneLoopNext([wr EXCEPT ![c.on] = r], writeCur, WriteCalls)
      BY <1>1, <2>1, <2>2, LoopIssues DEF WriteCalls
    <2> QED BY <2>1, <2>3, <2>4
  <1>12. CASE ReadNextBytes(t)
    <2>1. /\ todo[t] # <<>> /\ c.op = "readNextBytes" /\ UNCHANGED <<writeCur, rd, wr, socket>>
          /\ \/ Return(t) /\ readCur' \in {readCur, NoLoop}
             \/ Then(t, <<On("issueRead", c.on, c.held)>>) /\ UNCHANGED readCur
      BY <1>12 DEF ReadNextBytes, At, Now
    <2>2. CASE Return(t) /\ UNCHANGED readCur
      BY <1>2, <2>1, <2>2
    <2>3. CASE Return(t) /\ readCur' = NoLoop
      <3>1. OneLoopNext(wr, writeCur, WriteCalls)
        BY <1>1, <2>1, <2>3, LoopPass
      <3>2. OneLoopNext(rd, NoLoop, ReadCalls)
        BY <1>1, <2>1, <2>3, LoopStops DEF ReadCalls
      <3> QED BY <2>1, <2>3, <3>1, <3>2
    <2>4. CASE Then(t, <<On("issueRead", c.on, c.held)>>) /\ UNCHANGED readCur
      <3> DEFINE a == On("issueRead", c.on, c.held)
      <3>1. a.op = "issueRead" /\ a.on = c.on /\ Then(t, <<a>>)
        BY <2>4 DEF On
      <3> HIDE DEF a
      <3>2. OneLoopNext(rd, readCur, ReadCalls)
        BY <1>1, <2>1, <3>1, LoopPass DEF ReadCalls
      <3>3. OneLoopNext(wr, writeCur, WriteCalls)
        BY <1>1, <2>1, <3>1, LoopPass DEF WriteCalls
      <3> QED BY <2>1, <2>4, <3>2, <3>3
    <2> QED BY <2>1, <2>2, <2>3, <2>4
  <1>13. CASE IssueRead(t)
    <2> DEFINE r == Started(rd[c.on], <<>>)
    <2>1. /\ todo[t] # <<>> /\ c.op = "issueRead" /\ UNCHANGED <<readCur, wr, writeCur, socket>>
          /\ rd' = [rd EXCEPT ![c.on] = r] /\ Return(t)
      BY <1>13 DEF IssueRead, At, Now
    <2>2. r.sock = rd[c.on].sock
      BY DEF Started
    <2> HIDE DEF r
    <2>3. OneLoopNext(wr, writeCur, WriteCalls)
      BY <1>1, <2>1, LoopPass
    <2>4. OneLoopNext([rd EXCEPT ![c.on] = r], readCur, ReadCalls)
      BY <1>1, <2>1, <2>2, LoopIssues DEF ReadCalls
    <2> QED BY <2>1, <2>3, <2>4
  <1> QED BY <1>3, <1>4, <1>5, <1>6, <1>7, <1>8, <1>9, <1>10, <1>11, <1>12, <1>13
          DEF Writing, Reading


\* An idle thread takes calls that have nothing to do with the loops.
LEMMA LoopBegin ==
  ASSUME todo \in [Threads -> Seq(Call)], NEW t \in Threads, todo[t] = <<>>,
         NEW ops, NEW f, NEW cur, OneLoop(f, cur, ops), UNCHANGED socket,
         NEW S, NEW calls \in Seq(S), todo' = [todo EXCEPT ![t] = calls],
         \A k \in 1 .. Len(calls) : calls[k].op \notin ops
  PROVE  OneLoopNext(f, cur, ops)
  <1>1. Sole(ops) /\ Pushes(t, calls)
    BY DEF OneLoop, Pushes
  <1>2. Sole(ops)' /\ Moves(t, {}, {}, Range(calls))
    BY <1>1, SoleStep, BeginMoves
  <1>3. \A c \in {} \cup Range(calls) : c.op \notin ops
    BY DEF Range
  <1> QED BY <1>2, <1>3, LoopSame

----------------------------------------------------------------------------
(* What handlers do when nothing fails.                                    *)

\* asyncReadCallback: the chunks that were read, then the loop.
LEMMA ReadHandlerCalls ==
  ASSUME CalmInv, NEW t \in Threads, NEW l \in Loops, ReadCallback(t, l)
  PROVE  /\ todo[t] = <<>> /\ rd[l].op = "ok"
         /\ \E S : \E calls \in Seq(S) :
              /\ todo' = [todo EXCEPT ![t] = calls]
              /\ \A k \in 1 .. Len(calls) :
                   /\ \/ calls[k].op = "findByID"
                      \/ k = Len(calls) /\ calls[k].op = "readNextBytes" /\ calls[k].on = l
                   /\ calls[k].err \notin Errors
                   /\ calls[k].op = "findByID" => calls[k].id \in Range(rd[l].data)
  <1> DEFINE data == rd[l].data
             found == [k \in 1 .. Len(data) |-> Item("findByID", data[k], "ok")]
             next == On("readNextBytes", l, TRUE)
             one == <<next>>
             calls == found \o one
             S == {Item("findByID", i, "ok") : i \in IDs} \cup {next}
  <1>1. todo[t] = <<>> /\ rd[l].op = "ok" /\ todo' = [todo EXCEPT ![t] = calls]
    BY DEF ReadCallback, Idle, CalmInv, Healthy
  <1>2. data \in Seq(IDs)
    BY DEF CalmInv, WriteInv, TypeOK, LoopRec
  <1>3. /\ next.op = "readNextBytes" /\ next.on = l /\ next.err \notin Errors
        /\ \A i : /\ Item("findByID", i, "ok").op = "findByID" /\ Item("findByID", i, "ok").id = i
                  /\ Item("findByID", i, "ok").err \notin Errors
    BY DEF On, Item, Errors
  <1> HIDE DEF next, data
  <1>4. /\ found \in Seq(S) /\ Len(found) = Len(data)
        /\ \A k \in 1 .. Len(found) : found[k] = Item("findByID", data[k], "ok")
    BY <1>2
  <1>5. one \in Seq(S) /\ Len(one) = 1 /\ one[1] = next
    OBVIOUS
  <1> HIDE DEF found, one, S
  <1>6. /\ calls \in Seq(S) /\ Len(calls) = Len(found) + 1 /\ Len(found) \in Nat
        /\ \A k \in 1 .. Len(found) + 1 :
             calls[k] = IF k <= Len(found) THEN found[k] ELSE one[k - Len(found)]
    BY <1>4, <1>5, ConcatProperties
  <1> HIDE DEF calls
  <1>7. ASSUME NEW k \in 1 .. Len(calls)
        PROVE  /\ \/ calls[k].op = "findByID"
                  \/ k = Len(calls) /\ calls[k].op = "readNextBytes" /\ calls[k].on = l
               /\ calls[k].err \notin Errors
               /\ calls[k].op = "findByID" => calls[k].id \in Range(data)
    <2>1. CASE k <= Len(found)
      <3>1. k \in 1 .. Len(found) + 1 /\ k \in 1 .. Len(found)
        BY <1>6, <2>1
      <3>2. calls[k] = found[k]
        BY <1>6, <2>1, <3>1
      <3>3. calls[k] = Item("findByID", data[k], "ok")
        BY <1>4, <3>1, <3>2
      <3>4. data[k] \in Range(data)
        <4>1. k \in DOMAIN data
          BY <1>2, <1>4, <3>1
        <4> QED BY <4>1 DEF Range
      <3> QED BY <1>3, <3>3, <3>4
    <2>2. CASE ~(k <= Len(found))
      <3>1. k - Len(found) = 1 /\ k = Len(calls)
        BY <1>6, <2>2
      <3> QED BY <1>3, <1>5, <1>6, <2>2, <3>1
    <2> QED BY <2>1, <2>2
  <1> QED BY <1>1, <1>6, <1>7 DEF data

\* asyncWriteCallback goes on with the next item.
LEMMA WriteHandlerCalls ==
  ASSUME CalmInv, NEW t \in Threads, NEW l \in Loops, WriteCallback(t, l)
  PROVE  /\ todo[t] = <<>> /\ wr[l].op = "ok" /\ sent' = sent \cup {Head(wr[l].data)}
         /\ \E a : /\ a.op = "front" /\ a.on = l /\ a.err \notin Errors
                   /\ todo' = [todo EXCEPT ![t] = <<a>>]
  <1> DEFINE a == On("front", l, TRUE)
  <1>1. /\ todo[t] = <<>> /\ wr[l].op = "ok" /\ sent' = sent \cup {Head(wr[l].data)}
        /\ todo' = [todo EXCEPT ![t] = <<a>>]
    BY DEF WriteCallback, WrittenCalls, Idle, CalmInv, Healthy
  <1>2. a.op = "front" /\ a.on = l /\ a.err \notin Errors
    BY DEF On, Errors
  <1> HIDE DEF a
  <1> QED BY <1>1, <1>2

\* The handlers of the setup: the next operation, or the established connection.
LEMMA SetupHandlerCalls ==
  ASSUME CalmInv, NEW t \in Threads, NEW n \in Sockets,
         \/ ResolveCallback(t, n) \/ AsyncConnectCallback(t, n)
         \/ HandshakeCallback(t, n) \/ HeaderCallback(t, n)
  PROVE  /\ todo[t] = <<>> /\ setup[n].kind # "none" /\ setup[n].res = "ok"
         /\ UNCHANGED <<socket, sock, helloed, attempts, permanentFailure, rd, wr, readCur, writeCur>>
         /\ connected' => connected
         /\ setup' = [setup EXCEPT ![n] = NoSetup]
         /\ \/ /\ setup[n].kind # "header"
               /\ \E a : /\ todo' = [todo EXCEPT ![t] = <<a>>] /\ a.op \in SetupCalls
                         /\ a.op # "initSocket" => setup[n].kind # "resolve"
                         /\ a.err \notin Errors
            \/ /\ setup[n].kind = "header"
               /\ todo' = [todo EXCEPT ![t] = <<Plain("insertAuth"), Plain("setConnected"),
                                                Plain("startWriting"), Plain("startReading")>>]
  <1>1. setup[n].res # "err" /\ setup[n].res \in {"pending", "ok", "err"}
    BY DEF CalmInv, Healthy, WriteInv, TypeOK, SetupRec
  <1>2. /\ todo[t] = <<>> /\ setup[n].kind # "none" /\ setup[n].res = "ok"
        /\ UNCHANGED <<socket, sock, helloed, attempts, permanentFailure, rd, wr, readCur, writeCur>>
        /\ setup' = [setup EXCEPT ![n] = NoSetup]
    BY <1>1 DEF ResolveCallback, AsyncConnectCallback, HandshakeCallback, HeaderCallback, Handles,
                Idle, netVars, loopVars
  <1>3. connected' => connected
    BY DEF ResolveCallback, AsyncConnectCallback, HandshakeCallback, HeaderCallback
  <1>4. CASE HeaderCallback(t, n)
    BY <1>2, <1>3, <1>4 DEF HeaderCallback, Handles
  <1>5. ASSUME NEW op \in SetupCalls, todo' = [todo EXCEPT ![t] = <<On(op, n, FALSE)>>],
               setup[n].kind # "header", op # "initSocket" => setup[n].kind # "resolve"
        PROVE  /\ setup[n].kind # "header"
               /\ \E a : /\ todo' = [todo EXCEPT ![t] = <<a>>] /\ a.op \in SetupCalls
                         /\ a.op # "initSocket" => setup[n].kind # "resolve"
                         /\ a.err \notin Errors
    <2> DEFINE a == On(op, n, FALSE)
    <2>1. a.op = op /\ a.err \notin Errors
      BY DEF On, Errors
    <2> HIDE DEF a
    <2> QED BY <1>5, <2>1 DEF a
  <1>6. CASE ResolveCallback(t, n)
    <2>1. todo' = [todo EXCEPT ![t] = <<On("initSocket", n, FALSE)>>] /\ setup[n].kind = "resolve"
      BY <1>2, <1>6 DEF ResolveCallback, Handles
    <2> QED BY <1>2, <1>3, <1>5, <2>1 DEF SetupCalls
  <1>7. CASE AsyncConnectCallback(t, n)
    <2> DEFINE op == IF Ssl THEN "handshake" ELSE "finishInit"
    <2>1. todo' = [todo EXCEPT ![t] = <<On(op, n, FALSE)>>] /\ setup[n].kind = "connect"
      BY <1>2, <1>7 DEF AsyncConnectCallback, Handles
    <2>2. op \in SetupCalls
      BY DEF SetupCalls
    <2> HIDE DEF op
    <2> QED BY <1>2, <1>3, <1>5, <2>1, <2>2
  <1>8. CASE HandshakeCallback(t, n)
    <2>1. todo' = [todo EXCEPT ![t] = <<On("finishInit", n, FALSE)>>] /\ setup[n].kind = "handshake"
      BY <1>2, <1>8 DEF HandshakeCallback, Handles
    <2> QED BY <1>2, <1>3, <1>5, <2>1 DEF SetupCalls
  <1> QED BY <1>4, <1>6, <1>7, <1>8


\* Handlers and sendRequest keep one read loop and one write loop.
LEMMA LoopsHandler ==
  ASSUME CalmInv, NEW t \in Threads,
         \/ SendRequest(t)
         \/ \E l \in Loops : ReadCallback(t, l) \/ WriteCallback(t, l)
         \/ \E n \in Sockets : \/ ResolveCallback(t, n) \/ AsyncConnectCallback(t, n)
                               \/ HandshakeCallback(t, n) \/ HeaderCallback(t, n)
  PROVE  OneLoopNext(rd', readCur', ReadCalls) /\ OneLoopNext(wr', writeCur', WriteCalls)
  <1> USE DEF itemVars, queueVars, connVars, loopVars, setupVars, netVars, budgetVars, outsideVars
  <1>1. /\ todo \in [Threads -> Seq(Call)] /\ rd \in [Loops -> LoopRec] /\ wr \in [Loops -> LoopRec]
        /\ OneLoop(rd, readCur, ReadCalls) /\ OneLoop(wr, writeCur, WriteCalls)
    BY DEF CalmInv, WriteInv, TypeOK, WriteRec
  <1>2. ASSUME NEW S, NEW calls \in Seq(S), todo[t] = <<>>, todo' = [todo EXCEPT ![t] = calls],
               UNCHANGED <<readCur, rd, writeCur, wr, socket>>,
               \A k \in 1 .. Len(calls) : calls[k].op \notin ReadCalls \cup WriteCalls
        PROVE  OneLoopNext(rd, readCur, ReadCalls) /\ OneLoopNext(wr, writeCur, WriteCalls)
    <2>1. OneLoopNext(rd, readCur, ReadCalls)
      BY <1>1, <1>2, LoopBegin
    <2>2. OneLoopNext(wr, writeCur, WriteCalls)
      BY <1>1, <1>2, LoopBegin
    <2> QED BY <2>1, <2>2
  <1>3. CASE SendRequest(t)
    <2> DEFINE a == Item("enqueue", nextID + 1, "none")
               b == Plain("checkConnected")
               S == {a, b}
               calls == <<a, b>>
    <2>1. /\ todo[t] = <<>> /\ todo' = [todo EXCEPT ![t] = calls]
          /\ UNCHANGED <<readCur, rd, writeCur, wr, socket>>
      BY <1>3 DEF SendRequest, SendCalls, Idle
    <2>2. a.op = "enqueue" /\ b.op = "checkConnected"
      BY DEF Item, Plain
    <2> HIDE DEF a, b
    <2>3. calls \in Seq(S) /\ \A k \in 1 .. Len(calls) : calls[k].op \notin ReadCalls \cup WriteCalls
      BY <2>2 DEF ReadCalls, WriteCalls
    <2> HIDE DEF S, calls
    <2> QED BY <1>2, <2>1, <2>3
  <1>4. ASSUME NEW l \in Loops, ReadCallback(t, l)
        PROVE  OneLoopNext(rd', readCur', ReadCalls) /\ OneLoopNext(wr', writeCur', WriteCalls)
    <2>1. PICK S : \E calls \in Seq(S) :
            /\ todo' = [todo EXCEPT ![t] = calls]
            /\ \A k \in 1 .. Len(calls) :
                 \/ calls[k].op = "findByID"
                 \/ k = Len(calls) /\ calls[k].op = "readNextBytes" /\ calls[k].on = l
      BY <1>4, ReadHandlerCalls
    <2>2. PICK calls \in Seq(S) :
            /\ todo' = [todo EXCEPT ![t] = calls]
            /\ \A k \in 1 .. Len(calls) :
                 \/ calls[k].op = "findByID"
                 \/ k = Len(calls) /\ calls[k].op = "readNextBytes" /\ calls[k].on = l
      BY <2>1
    <2> DEFINE r == [rd[l] EXCEPT !.op = "idle", !.armed = FALSE, !.data = <<>>]
    <2>3. rd' = [rd EXCEPT ![l] = r] /\ UNCHANGED <<readCur, writeCur, wr, socket>>
      BY <1>4 DEF ReadCallback
    <2>4. r.op = "idle" /\ r.sock = rd[l].sock
      BY <1>1 DEF LoopRec
    <2>5. todo[t] = <<>> /\ rd[l].op # "idle"
      BY <1>4, ReadHandlerCalls
    <2> HIDE DEF r
    <2>6. OneLoopNext([rd EXCEPT ![l] = r], readCur, ReadCalls)
      <3>1. \A k \in 1 .. Len(calls) : calls[k].op \in ReadCalls => k = Len(calls) /\ calls[k].on = l
        BY <2>2 DEF ReadCalls
      <3> QED BY <1>1, <2>2, <2>3, <2>4, <2>5, <3>1, LoopHandled
    <2>7. OneLoopNext(wr, writeCur, WriteCalls)
      <3>1. \A k \in 1 .. Len(calls) : calls[k].op \notin WriteCalls
        BY <2>2 DEF WriteCalls
      <3> QED BY <1>1, <2>2, <2>3, <2>5, <3>1, LoopBegin
    <2> QED BY <2>3, <2>6, <2>7
  <1>5. ASSUME NEW l \in Loops, WriteCallback(t, l)
        PROVE  OneLoopNext(rd', readCur', ReadCalls) /\ OneLoopNext(wr', writeCur', WriteCalls)
    <2>1. PICK a : a.op = "front" /\ a.on = l /\ todo' = [todo EXCEPT ![t] = <<a>>]
      BY <1>5, WriteHandlerCalls
    <2> DEFINE r == [wr[l] EXCEPT !.op = "idle", !.armed = FALSE, !.data = <<>>]
               calls == <<a>>
               S == {a}
    <2>2. wr' = [wr EXCEPT ![l] = r] /\ UNCHANGED <<readCur, writeCur, rd, socket>>
      BY <1>5 DEF WriteCallback
    <2>3. r.op = "idle" /\ r.sock = wr[l].sock
      BY <1>1 DEF LoopRec
    <2>4. todo[t] = <<>> /\ wr[l].op # "idle"
      BY <1>5, WriteHandlerCalls
    <2>5. calls \in Seq(S) /\ Len(calls) = 1 /\ calls[1] = a /\ todo' = [todo EXCEPT ![t] = calls]
      BY <2>1
    <2> HIDE DEF r, calls, S
    <2>6. OneLoopNext([wr EXCEPT ![l] = r], writeCur, WriteCalls)
      <3>1. \A k \in 1 .. Len(calls) : k = 1 /\ calls[k].on = l
        BY <2>1, <2>5
      <3> QED BY <1>1, <2>2, <2>3, <2>4, <2>5, <3>1, LoopHandled
    <2>7. OneLoopNext(rd, readCur, ReadCalls)
      <3>1. \A k \in 1 .. Len(calls) : calls[k].op \notin ReadCalls
        BY <2>1, <2>5 DEF ReadCalls
      <3> QED BY <1>1, <2>2, <2>4, <2>5, <3>1, LoopBegin
    <2> QED BY <2>2, <2>6, <2>7
  <1>6. ASSUME NEW n \in Sockets,
               \/ ResolveCallback(t, n) \/ AsyncConnectCallback(t, n)
               \/ HandshakeCallback(t, n) \/ HeaderCallback(t, n)
        PROVE  OneLoopNext(rd', readCur', ReadCalls) /\ OneLoopNext(wr', writeCur', WriteCalls)
    <2>1. /\ todo[t] = <<>> /\ UNCHANGED <<socket, rd, wr, readCur, writeCur>>
          /\ \/ \E a : todo' = [todo EXCEPT ![t] = <<a>>] /\ a.op \in SetupCalls
             \/ todo' = [todo EXCEPT ![t] = <<Plain("insertAuth"), Plain("setConnected"),
                                              Plain("startWriting"), Plain("startReading")>>]
      BY <1>6, SetupHandlerCalls
    <2>2. ASSUME NEW a, todo' = [todo EXCEPT ![t] = <<a>>], a.op \in SetupCalls
          PROVE  OneLoopNext(rd, readCur, ReadCalls) /\ OneLoopNext(wr, writeCur, WriteCalls)
      <3> DEFINE S == {a}
                 calls == <<a>>
      <3>1. calls \in Seq(S) /\ todo' = [todo EXCEPT ![t] = calls]
            /\ \A k \in 1 .. Len(calls) : calls[k].op \notin ReadCalls \cup WriteCalls
        BY <2>2 DEF ReadCalls, WriteCalls, SetupCalls
      <3> HIDE DEF S, calls
      <3> QED BY <1>2, <2>1, <3>1
    <2>3. ASSUME todo' = [todo EXCEPT ![t] = <<Plain("insertAuth"), Plain("setConnected"),
                                               Plain("startWriting"), Plain("startReading")>>]
          PROVE  OneLoopNext(rd, readCur, ReadCalls) /\ OneLoopNext(wr, writeCur, WriteCalls)
      <3> DEFINE a == Plain("insertAuth")
                 b == Plain("setConnected")
                 c == Plain("startWriting")
                 d == Plain("startReading")
                 S == {a, b, c, d}
                 calls == <<a, b, c, d>>
      <3>1. /\ a.op = "insertAuth" /\ b.op = "setConnected" /\ c.op = "startWriting"
            /\ d.op = "startReading" /\ todo' = [todo EXCEPT ![t] = calls]
        BY <2>3 DEF Plain
      <3> HIDE DEF a, b, c, d
      <3>2. calls \in Seq(S) /\ \A k \in 1 .. Len(calls) : calls[k].op \notin ReadCalls \cup WriteCalls
        BY <3>1 DEF ReadCalls, WriteCalls
      <3> HIDE DEF S, calls
      <3> QED BY <1>2, <2>1, <3>1, <3>2
    <2> QED BY <2>1, <2>2, <2>3
  <1> QED BY <1>3, <1>4, <1>5, <1>6

\* The io_service, the network and the server keep them.
LEMMA LoopsEnvironment ==
  ASSUME CalmInv, Completion \/ Server
  PROVE  OneLoopNext(rd', readCur', ReadCalls) /\ OneLoopNext(wr', writeCur', WriteCalls)
  <1> USE DEF itemVars, queueVars, connVars, loopVars, setupVars, netVars, budgetVars, outsideVars
  <1>1. /\ todo \in [Threads -> Seq(Call)] /\ rd \in [Loops -> LoopRec] /\ wr \in [Loops -> LoopRec]
        /\ OneLoop(rd, readCur, ReadCalls) /\ OneLoop(wr, writeCur, WriteCalls)
    BY DEF CalmInv, WriteInv, TypeOK, WriteRec
  <1>2. UNCHANGED <<todo, socket, readCur, writeCur>>
    BY DEF Completion, Server, WriteCompletes, WriteFails, ReadCompletes, ReadFails, SetupCompletes,
           Respond
  <1>3. OneLoopNext(rd, readCur, ReadCalls) /\ OneLoopNext(wr, writeCur, WriteCalls)
    BY <1>1, <1>2, LoopLeft
  <1>4. \/ UNCHANGED <<rd, wr>>
        \/ \E l \in Loops : \E r : /\ rd[l].op # "idle" /\ rd' = [rd EXCEPT ![l] = r]
                                   /\ r.sock = rd[l].sock /\ UNCHANGED wr
        \/ \E l \in Loops : \E r : /\ wr[l].op # "idle" /\ wr' = [wr EXCEPT ![l] = r]
                                   /\ r.sock = wr[l].sock /\ UNCHANGED rd
    <2>1. CASE Server \/ \E n \in Sockets : SetupCompletes(n)
      BY <2>1 DEF Server, Respond, SetupCompletes
    <2>2. ASSUME NEW l \in Loops, WriteCompletes(l) \/ WriteFails(l)
          PROVE  \E r : /\ wr[l].op # "idle" /\ wr' = [wr EXCEPT ![l] = r]
                        /\ r.sock = wr[l].sock /\ UNCHANGED rd
      <3>1. PICK x : wr' = [wr EXCEPT ![l].op = x] /\ wr[l].op # "idle" /\ UNCHANGED rd
        BY <2>2 DEF WriteCompletes, WriteFails
      <3> DEFINE r == [wr[l] EXCEPT !.op = x]
      <3>2. wr' = [wr EXCEPT ![l] = r] /\ r.sock = wr[l].sock
        BY <1>1, <3>1 DEF LoopRec
      <3> HIDE DEF r
      <3> QED BY <3>1, <3>2
    <2>3. ASSUME NEW l \in Loops, ReadCompletes(l) \/ ReadFails(l)
          PROVE  \E r : /\ rd[l].op # "idle" /\ rd' = [rd EXCEPT ![l] = r]
                        /\ r.sock = rd[l].sock /\ UNCHANGED wr
      <3>1. PICK x, d : /\ rd' = [rd EXCEPT ![l] = [@ EXCEPT !.op = x, !.data = d]]
                        /\ rd[l].op # "idle" /\ UNCHANGED wr
        <4>1. CASE ReadCompletes(l)
          BY <4>1 DEF ReadCompletes
        <4>2. CASE ReadFails(l)
          <5>1. rd' = [rd EXCEPT ![l] = [@ EXCEPT !.op = "err", !.data = rd[l].data]]
            BY <1>1, <4>2 DEF ReadFails, LoopRec
          <5> QED BY <4>2, <5>1 DEF ReadFails
        <4> QED BY <2>3, <4>1, <4>2
      <3> DEFINE r == [rd[l] EXCEPT !.op = x, !.data = d]
      <3>2. rd' = [rd EXCEPT ![l] = r] /\ r.sock = rd[l].sock
        BY <1>1, <3>1 DEF LoopRec
      <3> HIDE DEF r
      <3> QED BY <3>1, <3>2
    <2> QED BY <2>1, <2>2, <2>3 DEF Completion
  <1>5. ASSUME NEW l \in Loops, NEW r, rd[l].op # "idle", r.sock = rd[l].sock
        PROVE  OneLoopNext([rd EXCEPT ![l] = r], readCur, ReadCalls)
    BY <1>1, <1>2, <1>5, LoopCompletes
  <1>6. ASSUME NEW l \in Loops, NEW r, wr[l].op # "idle", r.sock = wr[l].sock
        PROVE  OneLoopNext([wr EXCEPT ![l] = r], writeCur, WriteCalls)
    BY <1>1, <1>2, <1>6, LoopCompletes
  <1> QED BY <1>2, <1>3, <1>4, <1>5, <1>6


----------------------------------------------------------------------------
(* Nothing fails.                                                          *)

\* A call that neither sets up a connection nor ends one, and that uses one
\* only after the header.
Sound(c) == /\ c.op \notin StopOps \cup SetupCalls /\ c.err \notin Errors
            /\ c.op \in UseOps => socket \in helloed

\* What the current call of a thread is like.
LEMMA CalmNow ==
  ASSUME CalmInv, NEW t \in Threads, todo[t] # <<>>
  PROVE  /\ Now(t) \in CallsOf(t) /\ Now(t).op \notin StopOps /\ Now(t).err \notin Errors
         /\ Now(t).op \in UseOps => socket \in helloed
  <1>1. Now(t) \in CallsOf(t)
    BY StackSplit DEF CalmInv, WriteInv, TypeOK
  <1>2. Now(t).op \in UseOps => Busy(UseOps)
    BY <1>1 DEF Busy
  <1> QED BY <1>1, <1>2 DEF CalmInv, Healthy, HeaderFirst

\* Nobody handles a failure or restarts the connection.
LEMMA NobodyFails ==
  ASSUME CalmInv, NEW t \in Threads
  PROVE  ~Restarting(t) /\ ~OnFailure(t)
  <1>1. ASSUME todo[t] # <<>>, Now(t).op \in StopOps PROVE FALSE
    BY <1>1, CalmNow
  <1> QED BY <1>1 DEF Restarting, RestartRead, RestartWrite, Restart, StopWriting, StopReading,
                      ShutdownSocket, CancelAll, ResolveAgain, OnFailure, At, Now, StopOps

\* The calls that a call makes.
LEMMA CalmRun ==
  ASSUME CalmInv, NEW t \in Threads, Writing(t) \/ Reading(t) \/ Connecting(t)
  PROVE  /\ todo[t] # <<>>
         /\ \E top, rest : Moves(t, {Now(t)}, top, rest) /\ \A c \in top \cup rest : Sound(c)
  <1> USE DEF itemVars, queueVars, connVars, loopVars, setupVars, netVars, budgetVars, outsideVars
  <1> DEFINE c == Now(t)
             U == StopOps \cup SetupCalls
  <1>1. todo[t] # <<>>
    BY DEF Writing, Reading, Connecting, Enqueue, CheckConnected, StartWriting, Front, AddToStore,
           RemoveFirst, IssueWrite, StartReading, ReadNextBytes, IssueRead, FindByID, RemoveByID,
           MoveRequest, Invoke, InitSocket, StartSSLHandshake, FinishInitialization,
           InsertAuthenticationRequests, SetConnected, OnFailure, At
  <1>2. c.op \notin StopOps /\ c.err \notin Errors /\ (c.op \in UseOps => socket \in helloed)
    BY <1>1, CalmNow
  <1>3. todo \in [Threads -> Seq(Call)] /\ (connected => socket \in helloed)
    BY DEF CalmInv, WriteInv, TypeOK, HeaderFirst
  <1>4. \/ Return(t)
        \/ \E a : Sound(a) /\ Then(t, <<a>>)
        \/ \E a, b : Sound(a) /\ Sound(b) /\ Then(t, <<a, b>>)
    <2>1. "none" \notin Errors /\ "ok" \notin Errors
      BY DEF Errors
    <2>2. CASE CheckConnected(t)
      <3>1. connected => Sound(Plain("startWriting"))
        BY <1>3, <2>1 DEF Sound, Plain, StopOps, SetupCalls
      <3> QED BY <2>2, <3>1 DEF CheckConnected, Return
    <2>3. CASE StartWriting(t)
      <3>1. \A l : Sound(On("front", l, FALSE))
        BY <1>2, <2>1, <2>3 DEF StartWriting, At, Now, UseOps, Sound, On, StopOps, SetupCalls
      <3> QED BY <2>3, <3>1 DEF StartWriting
    <2>4. CASE Front(t)
      <3>1. \A l, i, h : Sound(Send("addToStore", l, i, h))
        BY <1>2, <2>1, <2>4 DEF Front, At, Now, UseOps, WriteCalls, Sound, Send, StopOps, SetupCalls
      <3> QED BY <2>4, <3>1 DEF Front
    <2>5. CASE AddToStore(t)
      <3>1. \A l, i, h : Sound(Send("removeFirst", l, i, h))
        BY <1>2, <2>1, <2>5 DEF AddToStore, At, Now, UseOps, WriteCalls, Sound, Send, StopOps, SetupCalls
      <3> QED BY <2>5, <3>1 DEF AddToStore
    <2>6. CASE RemoveFirst(t)
      <3>1. Sound(Plain("startReading")) /\ \A l, i, h : Sound(Send("issueWrite", l, i, h))
        BY <1>2, <2>1, <2>6 DEF RemoveFirst, At, Now, UseOps, WriteCalls, Sound, Send, Plain, StopOps,
                                SetupCalls
      <3> QED BY <2>6, <3>1 DEF RemoveFirst, WriteCallsFor
    <2>7. CASE StartReading(t)
      <3>1. \A l : Sound(On("readNextBytes", l, FALSE))
        BY <1>2, <2>1, <2>7 DEF StartReading, At, Now, UseOps, Sound, On, StopOps, SetupCalls
      <3> QED BY <2>7, <3>1 DEF StartReading
    <2>8. CASE ReadNextBytes(t)
      <3>1. \A l, h : Sound(On("issueRead", l, h))
        BY <1>2, <2>1, <2>8 DEF ReadNextBytes, At, Now, UseOps, ReadCalls, Sound, On, StopOps, SetupCalls
      <3> QED BY <2>8, <3>1 DEF ReadNextBytes
    <2>9. CASE FindByID(t)
      <3>1. \A i : Sound(Item("removeByID", i, "ok"))
        BY <2>1 DEF UseOps, ReadCalls, WriteCalls, Sound, Item, StopOps, SetupCalls
      <3> QED BY <2>9, <3>1 DEF FindByID, CompletedCalls
    <2>10. CASE RemoveByID(t)
      <3>1. \A i : Sound(Item("moveRequest", i, c.err))
        BY <1>2 DEF UseOps, ReadCalls, WriteCalls, Sound, Item, StopOps, SetupCalls
      <3> QED BY <2>10, <3>1 DEF RemoveByID
    <2>11. CASE MoveRequest(t)
      <3>1. Sound([op |-> "invoke", on |-> 0, id |-> c.id, err |-> c.err, held |-> c.id \in owns])
        BY <1>2 DEF UseOps, ReadCalls, WriteCalls, Sound, StopOps, SetupCalls
      <3> QED BY <2>11, <3>1 DEF MoveRequest
    <2>12. CASE Invoke(t)
      BY <1>2, <2>12 DEF Invoke, Return
    <2>13. CASE Enqueue(t) \/ IssueWrite(t) \/ IssueRead(t) \/ Connecting(t)
      BY <2>13 DEF Enqueue, IssueWrite, IssueRead, Connecting, InitSocket, StartSSLHandshake,
                   FinishInitialization, InsertAuthenticationRequests, SetConnected, OnFailure
    <2> QED BY <2>2, <2>3, <2>4, <2>5, <2>6, <2>7, <2>8, <2>9, <2>10, <2>11, <2>12, <2>13
            DEF Writing, Reading
  <1>5. CASE Return(t)
    <2>1. Moves(t, {Now(t)}, {}, {})
      BY <1>1, <1>3, <1>5, ThenMoves
    <2> QED BY <1>1, <2>1
  <1>6. ASSUME NEW a, Sound(a), Then(t, <<a>>)
        PROVE  \E top, rest : Moves(t, {Now(t)}, top, rest) /\ \A d \in top \cup rest : Sound(d)
    <2>1. Moves(t, {Now(t)}, {a}, {}) /\ \A d \in {a} \cup {} : Sound(d)
      BY <1>1, <1>3, <1>6, ThenMoves
    <2> QED BY <2>1
  <1>7. ASSUME NEW a, NEW b, Sound(a), Sound(b), Then(t, <<a, b>>)
        PROVE  \E top, rest : Moves(t, {Now(t)}, top, rest) /\ \A d \in top \cup rest : Sound(d)
    <2>1. Moves(t, {Now(t)}, {}, {a, b}) /\ \A d \in {} \cup {a, b} : Sound(d)
      BY <1>1, <1>3, <1>7, ThenMoves
    <2> QED BY <2>1
  <1> QED BY <1>1, <1>4, <1>5, <1>6, <1>7

\* The calls of sendRequest and of the handlers of the loops.
LEMMA CalmBegin ==
  ASSUME CalmInv, NEW t \in Threads,
         SendRequest(t) \/ \E l \in Loops : ReadCallback(t, l) \/ WriteCallback(t, l)
  PROVE  \E top, rest : Moves(t, {}, top, rest) /\ \A c \in top \cup rest : Sound(c)
  <1> USE DEF StopOps, SetupCalls, UseOps, ReadCalls, WriteCalls
  <1>1. todo \in [Threads -> Seq(Call)]
    BY DEF CalmInv, WriteInv, TypeOK
  <1>2. NoLoop \notin Loops
    BY BoundsAssumption DEF NoLoop, Loops
  <1>3. CASE SendRequest(t)
    <2> DEFINE a == Item("enqueue", nextID + 1, "none")
               b == Plain("checkConnected")
    <2>1. todo[t] = <<>> /\ todo' = [todo EXCEPT ![t] = <<a, b>>]
      BY <1>3 DEF SendRequest, SendCalls, Idle
    <2>2. Sound(a) /\ Sound(b)
      BY DEF Sound, Item, Plain, Errors
    <2> HIDE DEF a, b
    <2>3. Moves(t, {}, {a}, {b}) /\ \A c \in {a} \cup {b} : Sound(c)
      BY <1>1, <2>1, <2>2, BeginMoves
    <2> QED BY <2>3
  <1>4. ASSUME NEW l \in Loops, ReadCallback(t, l)
        PROVE  \E top, rest : Moves(t, {}, top, rest) /\ \A c \in top \cup rest : Sound(c)
    <2>1. todo[t] = <<>> /\ rd[l].op = "ok"
      BY <1>4, ReadHandlerCalls
    <2>2. PICK S : \E calls \in Seq(S) :
            /\ todo' = [todo EXCEPT ![t] = calls]
            /\ \A k \in 1 .. Len(calls) : /\ calls[k].op \in {"findByID", "readNextBytes"}
                                          /\ calls[k].err \notin Errors
      BY <1>4, ReadHandlerCalls
    <2>3. PICK calls \in Seq(S) :
            /\ todo' = [todo EXCEPT ![t] = calls]
            /\ \A k \in 1 .. Len(calls) : /\ calls[k].op \in {"findByID", "readNextBytes"}
                                          /\ calls[k].err \notin Errors
      BY <2>2
    <2>4. socket \in helloed
      BY <1>2, <2>1 DEF CalmInv, OneLoop, HeaderFirst
    <2>5. \A c \in {} \cup Range(calls) : Sound(c)
      BY <2>3, <2>4 DEF Range, Sound
    <2>6. Moves(t, {}, {}, Range(calls))
      BY <1>1, <2>1, <2>3, BeginMoves
    <2> QED BY <2>5, <2>6
  <1>5. ASSUME NEW l \in Loops, WriteCallback(t, l)
        PROVE  \E top, rest : Moves(t, {}, top, rest) /\ \A c \in top \cup rest : Sound(c)
    <2>1. todo[t] = <<>> /\ wr[l].op = "ok"
      BY <1>5, WriteHandlerCalls
    <2>2. PICK a : a.op = "front" /\ a.err \notin Errors /\ todo' = [todo EXCEPT ![t] = <<a>>]
      BY <1>5, WriteHandlerCalls
    <2>3. socket \in helloed
      BY <1>2, <2>1 DEF CalmInv, OneLoop, HeaderFirst
    <2>4. Sound(a)
      BY <2>2, <2>3 DEF Sound
    <2>5. Moves(t, {}, {a}, {}) /\ \A c \in {a} \cup {} : Sound(c)
      BY <1>1, <2>1, <2>2, <2>4, BeginMoves
    <2> QED BY <2>5
  <1> QED BY <1>3, <1>4, <1>5


\* The setup of a connection is not disturbed.
LEMMA HeaderKept1 ==
  ASSUME CalmInv, UNCHANGED <<socket, helloed, sock, setup>>,
         Busy(SetupCalls)' => Busy(SetupCalls),
         Busy({"handshake", "finishInit"})' => Busy({"handshake", "finishInit"}),
         connected' \/ readCur' # NoLoop \/ writeCur' # NoLoop \/ Busy(UseOps)' => socket \in helloed
  PROVE  HeaderFirst'
  BY DEF CalmInv, HeaderFirst

\* Calls that neither set up a connection nor end one keep what is set up.
LEMMA SoundMoves ==
  ASSUME CalmInv, NEW t \in Threads, NEW old, NEW top, NEW rest, Moves(t, old, top, rest),
         \A c \in top \cup rest : Sound(c)
  PROVE  /\ \A u \in Threads : \A c \in CallsOf(u)' : c.op \notin StopOps /\ c.err \notin Errors
         /\ Busy(SetupCalls)' => Busy(SetupCalls)
         /\ Busy({"handshake", "finishInit"})' => Busy({"handshake", "finishInit"})
         /\ Busy(UseOps)' => socket \in helloed
  <1>1. \A u \in Threads : \A c \in CallsOf(u)' :
          \/ c \in CallsOf(u)
          \/ /\ c.op \notin StopOps /\ c.op \notin SetupCalls /\ c.err \notin Errors
             /\ c.op \in UseOps => socket \in helloed
    <2>1. \A u \in Threads : \A c \in CallsOf(u)' : c \in CallsOf(u) \/ c \in top \cup rest
      BY DEF Moves
    <2>2. \A c \in top \cup rest :
            /\ c.op \notin StopOps /\ c.op \notin SetupCalls /\ c.err \notin Errors
            /\ c.op \in UseOps => socket \in helloed
      BY DEF Sound
    <2> QED BY <2>1, <2>2
  <1>2. \A u \in Threads : \A c \in CallsOf(u)' : c.op \notin StopOps /\ c.err \notin Errors
    BY <1>1 DEF CalmInv, Healthy
  <1>3. (Busy(SetupCalls)' => Busy(SetupCalls))
        /\ (Busy({"handshake", "finishInit"})' => Busy({"handshake", "finishInit"}))
    BY <1>1 DEF Busy, SetupCalls
  <1>4. Busy(UseOps)' => socket \in helloed
    BY <1>1 DEF Busy, CalmInv, HeaderFirst
  <1> QED BY <1>2, <1>3, <1>4

\* The one attempt.
LEMMA OneAttempt ==
  ASSUME CalmInv
  PROVE  /\ \A n \in Sockets : n # 1 => setup[n].kind = "none" /\ ~BusyOn(SetupCalls, n)
         /\ setup[1].kind # "none" => ~Busy(SetupCalls)
         /\ 1 \in Sockets /\ NoSocket \notin Sockets /\ NoLoop \notin Loops
         /\ NoSocket \notin helloed
  <1>1. 1 \in Sockets /\ NoSocket \notin Sockets /\ NoLoop \notin Loops
    BY BoundsAssumption DEF Sockets, NoSocket, NoLoop, Loops
  <1>2. \A n \in Sockets : n # 1 => setup[n].kind = "none" /\ ~BusyOn(SetupCalls, n)
    <2>1. \A n \in Sockets : n # 1 => n > attempts
      BY DEF CalmInv, Healthy, Sockets
    <2> QED BY <2>1 DEF CalmInv, WriteInv, OnePlace
  <1>3. ASSUME Busy(SetupCalls), setup[1].kind # "none" PROVE FALSE
    <2>1. PICK t \in Threads : \E c \in CallsOf(t) : c.op \in SetupCalls
      BY <1>3 DEF Busy
    <2>2. PICK c \in CallsOf(t) : c.op \in SetupCalls
      BY <2>1
    <2>3. c \in Call
      BY DEF CallsOf, CalmInv, WriteInv, TypeOK
    <2>4. c.on \in Sockets /\ BusyOn(SetupCalls, c.on)
      BY <2>2, <2>3 DEF Call, BusyOn
    <2> QED BY <1>1, <1>2, <1>3, <2>4 DEF CalmInv, WriteInv, OnePlace
  <1>4. helloed \subseteq Sockets
    BY DEF CalmInv, WriteInv, TypeOK
  <1> QED BY <1>1, <1>2, <1>3, <1>4

\* A new operation of the attempt.
LEMMA BegunSetup ==
  ASSUME CalmInv, NEW n \in Sockets, n = 1, NEW kind, NEW s \in Sockets,
         Begin(n, kind, s), sock'[s] # "closed"
  PROVE  /\ setup'[1].kind = kind /\ setup'[1].sock = s /\ setup'[1].res = "pending"
         /\ \A m \in Sockets : m # 1 => setup'[m].kind = "none"
         /\ \A m \in Sockets : setup'[m].res # "err"
  <1>1. setup \in [Sockets -> SetupRec]
    BY DEF CalmInv, WriteInv, TypeOK
  <1>2. setup'[1] = [kind |-> kind, sock |-> s, res |-> "pending"]
        /\ \A m \in Sockets : m # 1 => setup'[m] = setup[m]
    BY <1>1 DEF Begin
  <1>3. \A m \in Sockets : m # 1 => setup[m].kind = "none"
    BY OneAttempt
  <1> QED BY <1>2, <1>3 DEF CalmInv, Healthy

\* initSocket, startSSLHandshake and finishInitialization.
LEMMA CalmSetupCall ==
  ASSUME CalmInv, NEW t \in Threads,
         InitSocket(t) \/ StartSSLHandshake(t) \/ FinishInitialization(t)
  PROVE  Healthy' /\ HeaderFirst'
  <1> USE DEF itemVars, queueVars, connVars, loopVars, setupVars, netVars, budgetVars, outsideVars
  <1> DEFINE n == Now(t).on
  <1>1. todo[t] # <<>> /\ Now(t).op \in SetupCalls
    BY DEF InitSocket, StartSSLHandshake, FinishInitialization, At, Now, SetupCalls
  <1>2. n \in Sockets /\ n = 1
    BY <1>1, SetupNow, OneAttempt DEF CalmInv
  <1>3. PICK top, rest : Moves(t, {Now(t)}, top, rest) /\ \A c \in top \cup rest : Sound(c)
    BY CalmRun DEF Connecting
  <1>4. socket \notin helloed
    BY <1>1, CalmNow DEF Busy, CalmInv, HeaderFirst
  <1>5. ~connected /\ readCur = NoLoop /\ writeCur = NoLoop /\ ~Busy(UseOps)'
    BY <1>3, <1>4, SoundMoves DEF CalmInv, HeaderFirst
  <1>6. sock \in [Sockets -> {"none", "open", "connected", "lost", "closed"}]
        /\ socket \in Sockets \cup {NoSocket}
    BY DEF CalmInv, WriteInv, TypeOK
  <1>7. UNCHANGED <<permanentFailure, attempts, rd, wr, helloed, connected, readCur, writeCur>>
    BY DEF InitSocket, StartSSLHandshake, FinishInitialization
  <1>8. CASE InitSocket(t)
    <2>1. socket' = 1 /\ sock' = [sock EXCEPT ![1] = "open"] /\ Begin(1, "connect", 1)
      BY <1>2, <1>8 DEF InitSocket
    <2>2. 1 \notin helloed
      <3>1. Unmade(n)
        BY <1>1, <1>8, SetupNow DEF CalmInv, InitSocket, At, Now
      <3> QED BY <1>2, <3>1 DEF CalmInv, WriteInv, Untouched
    <2>3. sock'[1] = "open" /\ \A s \in Sockets : s # 1 => sock'[s] = sock[s]
      BY <1>2, <1>6, <2>1
    <2>4. /\ setup'[1].kind = "connect" /\ setup'[1].sock = 1 /\ setup'[1].res = "pending"
          /\ \A m \in Sockets : m # 1 => setup'[m].kind = "none"
          /\ \A m \in Sockets : setup'[m].res # "err"
      BY <1>2, <2>1, <2>3, BegunSetup
    <2>5. Healthy'
      BY <1>3, <1>7, <2>3, <2>4, SoundMoves DEF Healthy, CalmInv
    <2>6. helloed \subseteq Sockets /\ 1 # NoSocket
      BY DEF CalmInv, WriteInv, TypeOK, NoSocket
    <2>7. \A s \in helloed' : sock'[s] = "connected"
      BY <1>7, <2>2, <2>3, <2>6 DEF CalmInv, HeaderFirst
    <2> QED BY <1>5, <1>7, <2>1, <2>2, <2>4, <2>5, <2>6, <2>7 DEF HeaderFirst
  <1>9. CASE StartSSLHandshake(t) \/ FinishInitialization(t)
    <2>1. PICK kind \in {"handshake", "header"} : Begin(1, kind, socket)
      BY <1>2, <1>9 DEF StartSSLHandshake, FinishInitialization
    <2>2. socket \in Sockets /\ socket # NoSocket /\ UNCHANGED <<socket, sock>>
      BY <1>6, <1>9 DEF StartSSLHandshake, FinishInitialization
    <2>3. sock'[socket] # "closed"
      BY <2>2 DEF CalmInv, Healthy
    <2>4. /\ setup'[1].kind = kind /\ setup'[1].sock = socket /\ setup'[1].res = "pending"
          /\ \A m \in Sockets : m # 1 => setup'[m].kind = "none"
          /\ \A m \in Sockets : setup'[m].res # "err"
      BY <1>2, <2>1, <2>2, <2>3, BegunSetup
    <2>5. Healthy'
      BY <1>3, <1>7, <2>2, <2>4, SoundMoves DEF Healthy, CalmInv
    <2>6. socket' \in {NoSocket, 1} /\ \A s \in helloed' : sock'[s] = "connected"
      BY <1>7, <2>2 DEF CalmInv, HeaderFirst
    <2> QED BY <1>4, <1>5, <1>7, <2>2, <2>4, <2>5, <2>6 DEF HeaderFirst
  <1> QED BY <1>8, <1>9

\* The handlers of the setup.
LEMMA CalmSetupHandler ==
  ASSUME CalmInv, NEW t \in Threads, NEW n \in Sockets,
         \/ ResolveCallback(t, n) \/ AsyncConnectCallback(t, n)
         \/ HandshakeCallback(t, n) \/ HeaderCallback(t, n)
  PROVE  Healthy' /\ HeaderFirst'
  <1>1. /\ todo[t] = <<>> /\ setup[n].kind # "none" /\ setup[n].res = "ok"
        /\ UNCHANGED <<socket, sock, helloed, attempts, permanentFailure, rd, wr, readCur, writeCur>>
        /\ connected' => connected
        /\ setup' = [setup EXCEPT ![n] = NoSetup]
    BY SetupHandlerCalls
  <1>2. setup \in [Sockets -> SetupRec] /\ todo \in [Threads -> Seq(Call)]
    BY DEF CalmInv, WriteInv, TypeOK
  <1>3. n = 1 /\ NoSocket \notin Sockets
    BY <1>1, OneAttempt
  <1>4. \A m \in Sockets : setup'[m].kind = "none" /\ setup'[m].res # "err"
    BY <1>1, <1>2, <1>3, OneAttempt DEF NoSetup, CalmInv, Healthy
  <1>5. ASSUME NEW a, todo' = [todo EXCEPT ![t] = <<a>>], a.op \in SetupCalls,
               a.op # "initSocket" => setup[n].kind # "resolve", a.err \notin Errors,
               setup[n].kind # "header"
        PROVE  Healthy' /\ HeaderFirst'
    <2>1. Moves(t, {}, {a}, {})
      BY <1>1, <1>2, <1>5, BeginMoves
    <2>2. \A u \in Threads : \A c \in CallsOf(u)' : c \in CallsOf(u) \/ c = a
      BY <2>1 DEF Moves
    <2>3. Healthy'
      BY <1>1, <1>4, <1>5, <2>2 DEF CalmInv, Healthy, StopOps, SetupCalls
    <2>4. socket \notin helloed
      BY <1>1, <1>5 DEF CalmInv, HeaderFirst
    <2>5. Busy(UseOps)' => Busy(UseOps)
      BY <1>5, <2>2 DEF Busy, UseOps, SetupCalls, ReadCalls, WriteCalls
    <2>6. ~(connected' \/ readCur' # NoLoop \/ writeCur' # NoLoop \/ Busy(UseOps)')
      BY <1>1, <2>4, <2>5 DEF CalmInv, HeaderFirst
    <2>7. Busy({"handshake", "finishInit"})' => socket # NoSocket
      <3>1. Busy({"handshake", "finishInit"})' =>
              Busy({"handshake", "finishInit"}) \/ a.op \in {"handshake", "finishInit"}
        BY <2>2 DEF Busy
      <3>2. setup[n].kind \in {"none", "resolve", "connect", "handshake", "header"}
            /\ (setup[n].kind \in {"connect", "handshake", "header"} => setup[n].sock \in Sockets)
        BY <1>2 DEF SetupRec
      <3>3. a.op \in {"handshake", "finishInit"} => socket \in Sockets
        BY <1>1, <1>5, <3>2 DEF CalmInv, HeaderFirst
      <3> QED BY <1>3, <3>1, <3>3 DEF CalmInv, HeaderFirst
    <2>8. socket \in {NoSocket, 1} /\ \A s \in helloed : sock[s] = "connected"
      BY DEF CalmInv, HeaderFirst
    <2> QED BY <1>1, <1>4, <2>3, <2>4, <2>6, <2>7, <2>8 DEF HeaderFirst
  <1>6. ASSUME setup[n].kind = "header",
               todo' = [todo EXCEPT ![t] = <<Plain("insertAuth"), Plain("setConnected"),
                                             Plain("startWriting"), Plain("startReading")>>]
        PROVE  Healthy' /\ HeaderFirst'
    <2>1. socket \in helloed
      BY <1>1, <1>6 DEF CalmInv, HeaderFirst
    <2> DEFINE a == Plain("insertAuth")
               b == Plain("setConnected")
               c == Plain("startWriting")
               d == Plain("startReading")
               S == {a, b, c, d}
               calls == <<a, b, c, d>>
    <2>2. Sound(a) /\ Sound(b) /\ Sound(c) /\ Sound(d)
      BY <2>1 DEF Sound, Plain, StopOps, SetupCalls, Errors
    <2>3. todo' = [todo EXCEPT ![t] = calls]
      BY <1>6
    <2> HIDE DEF a, b, c, d
    <2>4. calls \in Seq(S) /\ Range(calls) \subseteq S /\ \A x \in S : Sound(x)
      BY <2>2 DEF Range
    <2> HIDE DEF S, calls
    <2>5. Moves(t, {}, {}, Range(calls)) /\ \A x \in {} \cup Range(calls) : Sound(x)
      BY <1>1, <1>2, <2>3, <2>4, BeginMoves
    <2>6. /\ \A u \in Threads : \A x \in CallsOf(u)' : x.op \notin StopOps /\ x.err \notin Errors
          /\ Busy(SetupCalls)' => Busy(SetupCalls)
          /\ Busy({"handshake", "finishInit"})' => Busy({"handshake", "finishInit"})
      BY <2>5, SoundMoves
    <2>7. Healthy'
      BY <1>1, <1>4, <2>6 DEF CalmInv, Healthy
    <2>8. /\ socket \in {NoSocket, 1} /\ \A s \in helloed : sock[s] = "connected"
          /\ Busy(SetupCalls)' => socket \notin helloed
          /\ Busy({"handshake", "finishInit"})' => socket # NoSocket
      BY <2>6 DEF CalmInv, HeaderFirst
    <2> QED BY <1>1, <1>4, <2>1, <2>7, <2>8 DEF HeaderFirst
  <1> QED BY <1>5, <1>6, SetupHandlerCalls


\* The other calls of the threads.
LEMMA CalmCall ==
  ASSUME CalmInv, NEW t \in Threads,
         Writing(t) \/ Reading(t) \/ InsertAuthenticationRequests(t) \/ SetConnected(t)
  PROVE  Healthy' /\ HeaderFirst'
  <1> USE DEF itemVars, queueVars, connVars, loopVars, setupVars, netVars, budgetVars, outsideVars
  <1> DEFINE c == Now(t)
  <1>1. PICK top, rest : todo[t] # <<>> /\ Moves(t, {Now(t)}, top, rest)
                         /\ \A d \in top \cup rest : Sound(d)
    BY CalmRun DEF Connecting
  <1>2. /\ c \in CallsOf(t) /\ c.op \notin StopOps /\ c.err \notin Errors
        /\ c.op \in UseOps => socket \in helloed
    BY <1>1, CalmNow
  <1>3. UNCHANGED <<socket, helloed, sock, setup, attempts>>
    BY DEF Writing, Reading, Enqueue, CheckConnected, StartWriting, Front, AddToStore,
           RemoveFirst, IssueWrite, StartReading, ReadNextBytes, IssueRead, FindByID, RemoveByID,
           MoveRequest, Invoke, InsertAuthenticationRequests, SetConnected
  <1>4. ~permanentFailure'
    <2>1. CASE Invoke(t)
      BY <1>2, <2>1 DEF Invoke, CalmInv, Healthy
    <2>2. CASE ~Invoke(t)
      <3>1. UNCHANGED permanentFailure
        BY <2>2 DEF Writing, Reading, Enqueue, CheckConnected, StartWriting, Front, AddToStore,
               RemoveFirst, IssueWrite, StartReading, ReadNextBytes, IssueRead, FindByID, RemoveByID,
               MoveRequest, InsertAuthenticationRequests, SetConnected
      <3> QED BY <3>1 DEF CalmInv, Healthy
    <2> QED BY <2>1, <2>2
  <1>5. /\ rd \in [Loops -> LoopRec] /\ wr \in [Loops -> LoopRec]
        /\ \A l \in Loops : /\ rd[l].op # "err" /\ ~rd[l].expired
                            /\ wr[l].op # "err" /\ ~wr[l].expired
        /\ \A s \in Sockets : sock[s] # "closed"
    BY DEF CalmInv, WriteInv, TypeOK, Healthy, WriteRec
  <1>6. ASSUME NEW f \in [Loops -> LoopRec], \A l \in Loops : f[l].op # "err" /\ ~f[l].expired,
               NEW k \in Loops, NEW data, f[k].sock # NoSocket
        PROVE  Started(f[k], data).op # "err" /\ ~Started(f[k], data).expired
    <2>1. f[k].sock \in Sockets
      BY <1>6 DEF LoopRec
    <2> QED BY <1>5, <1>6, <2>1 DEF Started
  <1>7. ASSUME NEW s PROVE NewLoop(s).op # "err" /\ ~NewLoop(s).expired
    BY DEF NewLoop
  <1>8. \A l \in Loops : /\ rd'[l].op # "err" /\ ~rd'[l].expired
                         /\ wr'[l].op # "err" /\ ~wr'[l].expired
    <2>1. CASE IssueWrite(t)
      <3> DEFINE r == Started(wr[c.on], <<c.id>>)
      <3>1. wr' = [wr EXCEPT ![c.on] = r] /\ UNCHANGED rd /\ c.op = "issueWrite"
            /\ wr[c.on].sock # NoSocket
        BY <2>1 DEF IssueWrite, At, Now
      <3>2. c.on \in Loops
        <4>1. c \in Call
          BY <1>1, NowIsCall DEF CalmInv, WriteInv, TypeOK
        <4> QED BY <3>1, <4>1 DEF Call, WriteCalls
      <3>3. r.op # "err" /\ ~r.expired
        BY <1>5, <1>6, <3>1, <3>2
      <3> HIDE DEF r
      <3> QED BY <1>5, <3>1, <3>3
    <2>2. CASE IssueRead(t)
      <3> DEFINE r == Started(rd[c.on], <<>>)
      <3>1. rd' = [rd EXCEPT ![c.on] = r] /\ UNCHANGED wr /\ c.op = "issueRead"
            /\ rd[c.on].sock # NoSocket
        BY <2>2 DEF IssueRead, At, Now
      <3>2. c.on \in Loops
        <4>1. c \in Call
          BY <1>1, NowIsCall DEF CalmInv, WriteInv, TypeOK
        <4> QED BY <3>1, <4>1 DEF Call, ReadCalls
      <3>3. r.op # "err" /\ ~r.expired
        BY <1>5, <1>6, <3>1, <3>2
      <3> HIDE DEF r
      <3> QED BY <1>5, <3>1, <3>3
    <2>3. CASE StartWriting(t)
      <3>1. UNCHANGED rd /\ (UNCHANGED wr \/ \E l \in Loops : wr' = [wr EXCEPT ![l] = NewLoop(socket)])
        BY <2>3 DEF StartWriting
      <3> QED BY <1>5, <1>7, <3>1
    <2>4. CASE StartReading(t)
      <3>1. UNCHANGED wr /\ (UNCHANGED rd \/ \E l \in Loops : rd' = [rd EXCEPT ![l] = NewLoop(socket)])
        BY <2>4 DEF StartReading
      <3> QED BY <1>5, <1>7, <3>1
    <2>5. CASE ~(IssueWrite(t) \/ IssueRead(t) \/ StartWriting(t) \/ StartReading(t))
      <3>1. UNCHANGED <<rd, wr>>
        BY <2>5 DEF Writing, Reading, Enqueue, CheckConnected, Front, AddToStore,
               RemoveFirst, ReadNextBytes, FindByID, RemoveByID,
               MoveRequest, Invoke, InsertAuthenticationRequests, SetConnected
      <3> QED BY <1>5, <3>1
    <2> QED BY <2>1, <2>2, <2>3, <2>4, <2>5
  <1>9. connected' \/ readCur' # NoLoop \/ writeCur' # NoLoop \/ Busy(UseOps)' => socket \in helloed
    <2>1. CASE c.op \in UseOps
      BY <1>2, <2>1
    <2>2. CASE c.op \notin UseOps
      <3>1. UNCHANGED <<connected, readCur, writeCur>>
        BY <2>2 DEF Writing, Reading, Enqueue, CheckConnected, StartWriting, Front, AddToStore,
               RemoveFirst, IssueWrite, StartReading, ReadNextBytes, IssueRead, FindByID, RemoveByID,
               MoveRequest, Invoke, InsertAuthenticationRequests, SetConnected, At, Now,
               UseOps, ReadCalls, WriteCalls
      <3> QED BY <1>1, <3>1, SoundMoves DEF CalmInv, HeaderFirst
    <2> QED BY <2>1, <2>2
  <1>10. HeaderFirst'
    BY <1>1, <1>3, <1>9, SoundMoves, HeaderKept1
  <1>11. Healthy'
    BY <1>1, <1>3, <1>4, <1>8, SoundMoves DEF CalmInv, Healthy
  <1> QED BY <1>10, <1>11

\* sendRequest and the handlers of the loops.
LEMMA CalmHandler ==
  ASSUME CalmInv, NEW t \in Threads,
         SendRequest(t) \/ \E l \in Loops : ReadCallback(t, l) \/ WriteCallback(t, l)
  PROVE  Healthy' /\ HeaderFirst'
  <1> USE DEF itemVars, queueVars, connVars, loopVars, setupVars, netVars, budgetVars, outsideVars
  <1>1. PICK top, rest : Moves(t, {}, top, rest) /\ \A d \in top \cup rest : Sound(d)
    BY CalmBegin
  <1>2. UNCHANGED <<socket, helloed, sock, setup, attempts, permanentFailure, connected, readCur,
                    writeCur>>
    BY DEF SendRequest, ReadCallback, WriteCallback
  <1>3. /\ rd \in [Loops -> LoopRec] /\ wr \in [Loops -> LoopRec]
        /\ \A l \in Loops : /\ rd[l].op # "err" /\ ~rd[l].expired
                            /\ wr[l].op # "err" /\ ~wr[l].expired
    BY DEF CalmInv, WriteInv, TypeOK, Healthy, WriteRec
  <1>4. \A l \in Loops : /\ rd'[l].op # "err" /\ ~rd'[l].expired
                         /\ wr'[l].op # "err" /\ ~wr'[l].expired
    <2>1. CASE SendRequest(t)
      BY <1>3, <2>1 DEF SendRequest
    <2>2. ASSUME NEW l \in Loops, ReadCallback(t, l)
          PROVE  \A k \in Loops : /\ rd'[k].op # "err" /\ ~rd'[k].expired
                                  /\ wr'[k].op # "err" /\ ~wr'[k].expired
      <3> DEFINE r == [rd[l] EXCEPT !.op = "idle", !.armed = FALSE, !.data = <<>>]
      <3>1. rd' = [rd EXCEPT ![l] = r] /\ UNCHANGED wr
        BY <2>2 DEF ReadCallback
      <3>2. r.op = "idle" /\ ~r.expired
        BY <1>3 DEF LoopRec
      <3> HIDE DEF r
      <3> QED BY <1>3, <3>1, <3>2
    <2>3. ASSUME NEW l \in Loops, WriteCallback(t, l)
          PROVE  \A k \in Loops : /\ rd'[k].op # "err" /\ ~rd'[k].expired
                                  /\ wr'[k].op # "err" /\ ~wr'[k].expired
      <3> DEFINE r == [wr[l] EXCEPT !.op = "idle", !.armed = FALSE, !.data = <<>>]
      <3>1. wr' = [wr EXCEPT ![l] = r] /\ UNCHANGED rd
        BY <2>3 DEF WriteCallback
      <3>2. r.op = "idle" /\ ~r.expired
        BY <1>3 DEF LoopRec
      <3> HIDE DEF r
      <3> QED BY <1>3, <3>1, <3>2
    <2> QED BY <2>1, <2>2, <2>3
  <1>5. connected' \/ readCur' # NoLoop \/ writeCur' # NoLoop \/ Busy(UseOps)' => socket \in helloed
    BY <1>1, <1>2, SoundMoves DEF CalmInv, HeaderFirst
  <1>6. HeaderFirst'
    BY <1>1, <1>2, <1>5, SoundMoves, HeaderKept1
  <1>7. Healthy'
    BY <1>1, <1>2, <1>4, SoundMoves DEF CalmInv, Healthy
  <1> QED BY <1>6, <1>7

\* An operation that is under way is the current loop's, on the established connection.
LEMMA UnderWay ==
  ASSUME CalmInv, NEW l \in Loops
  PROVE  /\ rd[l].op # "idle" => l = readCur /\ rd[l].sock = socket /\ socket \in helloed
         /\ wr[l].op # "idle" => l = writeCur /\ wr[l].sock = socket /\ socket \in helloed
         /\ socket \in helloed => sock[socket] = "connected"
  <1>1. NoLoop \notin Loops
    BY OneAttempt
  <1> QED BY <1>1 DEF CalmInv, OneLoop, HeaderFirst

\* The io_service, the network and the server.
LEMMA CalmEnvironment ==
  ASSUME CalmInv, Completion \/ Server
  PROVE  Healthy' /\ HeaderFirst'
  <1> USE DEF itemVars, queueVars, connVars, loopVars, setupVars, netVars, budgetVars, outsideVars
  <1>1. UNCHANGED <<todo, socket, attempts, permanentFailure, connected, readCur, writeCur>>
    BY DEF Completion, Server, WriteCompletes, WriteFails, ReadCompletes, ReadFails, SetupCompletes,
           Respond
  <1>2. /\ \A u \in Threads : CallsOf(u)' = CallsOf(u)
        /\ \A ops : Busy(ops)' <=> Busy(ops)
    BY <1>1 DEF CallsOf, Busy
  <1>3. /\ rd \in [Loops -> LoopRec] /\ wr \in [Loops -> LoopRec]
        /\ \A l \in Loops : /\ rd[l].op # "err" /\ ~rd[l].expired
                            /\ wr[l].op # "err" /\ ~wr[l].expired
    BY DEF CalmInv, WriteInv, TypeOK, Healthy, WriteRec
  <1>4. ASSUME UNCHANGED <<helloed, sock, setup>>,
               \A l \in Loops : /\ rd'[l].op # "err" /\ ~rd'[l].expired
                                /\ wr'[l].op # "err" /\ ~wr'[l].expired
        PROVE  Healthy' /\ HeaderFirst'
    BY <1>1, <1>2, <1>4 DEF CalmInv, Healthy, HeaderFirst
  <1>5. ASSUME NEW l \in Loops, WriteFails(l) \/ ReadFails(l) PROVE FALSE
    BY <1>5, UnderWay DEF WriteFails, ReadFails
  <1>6. ASSUME NEW l \in Loops, WriteCompletes(l) PROVE Healthy' /\ HeaderFirst'
    <2>1. wr' = [wr EXCEPT ![l].op = "ok"] /\ UNCHANGED <<rd, helloed, sock, setup>>
      BY <1>6 DEF WriteCompletes
    <2>2. \A k \in Loops : wr'[k].op # "err" /\ ~wr'[k].expired
      BY <1>3, <2>1 DEF LoopRec
    <2> QED BY <1>3, <1>4, <2>1, <2>2
  <1>7. ASSUME NEW l \in Loops, ReadCompletes(l) PROVE Healthy' /\ HeaderFirst'
    <2>1. PICK d : rd' = [rd EXCEPT ![l] = [@ EXCEPT !.op = "ok", !.data = d]]
                   /\ UNCHANGED <<wr, helloed, sock, setup>>
      BY <1>7 DEF ReadCompletes
    <2>2. \A k \in Loops : rd'[k].op # "err" /\ ~rd'[k].expired
      BY <1>3, <2>1 DEF LoopRec
    <2> QED BY <1>3, <1>4, <2>1, <2>2
  <1>8. CASE Server
    BY <1>3, <1>4, <1>8 DEF Server, Respond
  <1>9. ASSUME NEW n \in Sockets, SetupCompletes(n) PROVE Healthy' /\ HeaderFirst'
    <2>1. setup \in [Sockets -> SetupRec] /\ helloed \subseteq Sockets
          /\ sock \in [Sockets -> {"none", "open", "connected", "lost", "closed"}]
      BY DEF CalmInv, WriteInv, TypeOK
    <2>2. n = 1 /\ ~Busy(SetupCalls) /\ UNCHANGED <<rd, wr>>
      BY <1>9, OneAttempt DEF SetupCompletes
    <2>3. /\ setup'[1].kind = setup[1].kind /\ setup'[1].sock = setup[1].sock /\ setup'[1].res = "ok"
          /\ \A m \in Sockets : m # 1 => setup'[m] = setup[m] /\ setup'[m].kind = "none"
      BY <1>9, <2>1, <2>2, OneAttempt DEF SetupCompletes, SetupRec
    <2>4. ~Busy({"handshake", "finishInit"})
      BY <2>2 DEF Busy, SetupCalls
    <2>5. setup[1].kind \in {"connect", "handshake", "header"} => setup[1].sock = socket /\ socket \in Sockets
      BY <2>1, <2>2 DEF CalmInv, HeaderFirst, SetupRec
    <2>6. /\ \A s \in Sockets : sock'[s] \in {sock[s], "connected"}
          /\ helloed \subseteq helloed'
          /\ setup[1].kind # "header" => helloed' = helloed
          /\ setup[1].kind = "header" => helloed' = helloed \cup {socket} /\ sock'[socket] = "connected"
      BY <1>9, <2>1, <2>2, <2>5 DEF SetupCompletes
    <2>7. Healthy'
      BY <1>1, <1>2, <2>2, <2>3, <2>6 DEF CalmInv, Healthy
    <2>8. socket \in {NoSocket, 1} /\ \A s \in helloed' : sock'[s] = "connected"
      <3>1. \A s \in helloed : sock'[s] = "connected"
        BY <2>1, <2>6 DEF CalmInv, HeaderFirst
      <3> QED BY <2>6, <3>1 DEF CalmInv, HeaderFirst
    <2>9. socket \in helloed' <=> setup'[1].kind = "header" /\ setup'[1].res = "ok"
      <3>1. setup[1].kind # "none" /\ 1 \in Sockets /\ setup[1].res # "ok"
        BY <1>9, <2>2 DEF SetupCompletes
      <3>2. socket \notin helloed
        BY <3>1 DEF CalmInv, HeaderFirst
      <3> QED BY <2>3, <2>6, <3>2
    <2>10. \A m \in Sockets :
             /\ setup'[m].kind \in {"connect", "handshake", "header"} => setup'[m].sock = socket
             /\ setup'[m].kind # "none" => (socket \in helloed' <=> setup'[m].kind = "header" /\ setup'[m].res = "ok")
      BY <2>3, <2>5, <2>9
    <2>11. connected \/ readCur # NoLoop \/ writeCur # NoLoop \/ Busy(UseOps) => socket \in helloed'
      BY <2>6 DEF CalmInv, HeaderFirst
    <2>12. HeaderFirst'
      BY <1>1, <1>2, <2>2, <2>4, <2>8, <2>10, <2>11 DEF HeaderFirst
    <2> QED BY <2>7, <2>12
  <1> QED BY <1>5, <1>6, <1>7, <1>8, <1>9 DEF Completion


\* Initially nothing is connected.
LEMMA CalmInit == Init => CalmInv
  <1>1. SUFFICES ASSUME Init PROVE CalmInv
    OBVIOUS
  <1>2. WriteInv /\ TypeOK
    BY <1>1, WriteInit, TypeInit
  <1>3. \A t \in Threads : todo[t] = <<>> /\ CallsOf(t) = {}
    BY <1>1 DEF Init, CallsOf
  <1>4. \A ops : ~Busy(ops) /\ Sole(ops)
    BY <1>3 DEF Busy, Sole
  <1>5. \A l \in Loops : /\ rd[l].op = "idle" /\ ~rd[l].expired
                         /\ wr[l].op = "idle" /\ ~wr[l].expired
    BY <1>1 DEF Init, NewLoop
  <1>6. \A n \in Sockets : /\ setup[n].kind \in {"none", "resolve"} /\ setup[n].res = "pending"
                           /\ sock[n] = "none"
    BY <1>1 DEF Init, NoSetup
  <1>7. Healthy
    BY <1>1, <1>3, <1>5, <1>6 DEF Init, Healthy
  <1>8. HeaderFirst
    BY <1>1, <1>4, <1>6 DEF Init, HeaderFirst
  <1>9. OneLoop(rd, readCur, ReadCalls) /\ OneLoop(wr, writeCur, WriteCalls)
    BY <1>1, <1>3, <1>4, <1>5 DEF Init, OneLoop
  <1> QED BY <1>2, <1>7, <1>8, <1>9 DEF CalmInv

\* Without faults and timeouts nothing fails and no deadline expires.
LEMMA NothingFails ==
  ASSUME MaxFaults = 0, MaxTimeouts = 0, CalmInv
  PROVE  /\ ~Fault /\ ~Expiry
         /\ \A t \in Threads, l \in Loops : ~ReadDeadline(t, l) /\ ~WriteDeadline(t, l)
  <1>1. faults \in 0 .. MaxFaults /\ timeouts \in 0 .. MaxTimeouts
        /\ setup \in [Sockets -> SetupRec]
    BY DEF CalmInv, WriteInv, TypeOK
  <1>2. ~(faults < MaxFaults) /\ ~(timeouts < MaxTimeouts)
    BY <1>1
  <1>3. ASSUME NEW n \in Sockets, SetupFails(n) PROVE FALSE
    <2>1. setup[n].kind \in {"handshake", "header"} /\ sock[setup[n].sock] = "lost"
      BY <1>2, <1>3 DEF SetupFails
    <2>2. setup[n].sock \in Sockets
      BY <1>1, <2>1 DEF SetupRec
    <2> QED BY <2>1, <2>2 DEF CalmInv, Healthy
  <1>4. ~Fault
    BY <1>2, <1>3 DEF Fault, ConnectionLost
  <1>5. ~Expiry
    BY <1>2 DEF Expiry, ReadExpires, WriteExpires, MayExpire
  <1>6. \A t \in Threads, l \in Loops : ~ReadDeadline(t, l) /\ ~WriteDeadline(t, l)
    BY DEF ReadDeadline, WriteDeadline, CalmInv, Healthy
  <1> QED BY <1>4, <1>5, <1>6

\* The steps of a connection that nothing disturbs.
CalmNext ==
  \/ \E t \in Threads : Writing(t) \/ Reading(t) \/ Connecting(t) \/ Dying(t)
  \/ \E t \in Threads : SendRequest(t)
  \/ \E t \in Threads : \E l \in Loops : ReadCallback(t, l) \/ WriteCallback(t, l)
  \/ \E t \in Threads : \E n \in Sockets : \/ ResolveCallback(t, n) \/ AsyncConnectCallback(t, n)
                                           \/ HandshakeCallback(t, n) \/ HeaderCallback(t, n)
  \/ Completion \/ Server

LEMMA OnlyCalmSteps ==
  ASSUME MaxFaults = 0, MaxTimeouts = 0, CalmInv, Next
  PROVE  CalmNext
  <1>1. \A t \in Threads : ~Restarting(t)
    BY NobodyFails
  <1>2. CASE \E t \in Users : SendRequest(t)
    BY <1>2 DEF CalmNext, Threads
  <1>3. CASE \E t \in Threads : Run(t)
    BY <1>1, <1>3 DEF CalmNext, Run
  <1>4. CASE \E t \in IoThreads : Dispatch(t)
    <2>1. PICK t \in Threads : Dispatch(t)
      BY <1>4 DEF Threads
    <2> QED BY <2>1, NothingFails DEF CalmNext, Dispatch
  <1>5. CASE Completion \/ Server
    BY <1>5 DEF CalmNext
  <1> QED BY <1>2, <1>3, <1>4, <1>5, NothingFails DEF Next

\* The invariant is inductive.
LEMMA CalmStep ==
  ASSUME MaxFaults = 0, MaxTimeouts = 0, CalmInv, [Next]_vars
  PROVE  CalmInv'
  <1> USE DEF itemVars, queueVars, connVars, loopVars, setupVars, netVars, budgetVars, outsideVars
  <1>1. WriteInv'
    BY WriteStep DEF CalmInv
  <1>2. ASSUME OneLoopNext(rd', readCur', ReadCalls), OneLoopNext(wr', writeCur', WriteCalls),
               Healthy', HeaderFirst'
        PROVE  CalmInv'
    <2>1. OneLoop(rd, readCur, ReadCalls)' /\ OneLoop(wr, writeCur, WriteCalls)'
      BY <1>2 DEF OneLoop, OneLoopNext
    <2> QED BY <1>1, <1>2, <2>1 DEF CalmInv
  <1>3. ASSUME UNCHANGED <<todo, permanentFailure, attempts, setup, sock, rd, wr, socket, helloed,
                           connected, readCur, writeCur>>
        PROVE  CalmInv'
    <2>1. /\ \A u \in Threads : CallsOf(u)' = CallsOf(u)
          /\ \A ops : (Busy(ops)' <=> Busy(ops)) /\ (Sole(ops)' <=> Sole(ops))
      BY <1>3 DEF CallsOf, Busy, Sole
    <2>2. Healthy' /\ HeaderFirst'
      BY <1>3, <2>1 DEF CalmInv, Healthy, HeaderFirst
    <2>3. OneLoop(rd, readCur, ReadCalls)' /\ OneLoop(wr, writeCur, WriteCalls)'
      BY <1>3, <2>1 DEF CalmInv, OneLoop
    <2> QED BY <1>1, <2>2, <2>3 DEF CalmInv
  <1>4. CASE UNCHANGED vars
    BY <1>3, <1>4 DEF vars
  <1>5. CASE Next
    <2>1. CalmNext
      BY <1>5, OnlyCalmSteps
    <2>2. ASSUME NEW t \in Threads, Writing(t) \/ Reading(t) \/ Connecting(t) PROVE CalmInv'
      <3>1. OneLoopNext(rd', readCur', ReadCalls) /\ OneLoopNext(wr', writeCur', WriteCalls)
        BY <2>2, LoopsRun
      <3>2. Healthy' /\ HeaderFirst'
        BY <2>2, NobodyFails, CalmCall, CalmSetupCall DEF Connecting
      <3> QED BY <1>2, <3>1, <3>2
    <2>3. ASSUME NEW t \in Threads, Dying(t) PROVE CalmInv'
      <3>1. \E why : Abort(why)
        BY <2>3 DEF Dying, DerefFreedLoop, DerefNullRequest, DerefNullSocket, AssertFails
      <3> QED BY <1>3, <3>1 DEF Abort
    <2>4. ASSUME NEW t \in Threads,
                 SendRequest(t) \/ \E l \in Loops : ReadCallback(t, l) \/ WriteCallback(t, l)
          PROVE  CalmInv'
      <3>1. OneLoopNext(rd', readCur', ReadCalls) /\ OneLoopNext(wr', writeCur', WriteCalls)
        BY <2>4, LoopsHandler
      <3>2. Healthy' /\ HeaderFirst'
        BY <2>4, CalmHandler
      <3> QED BY <1>2, <3>1, <3>2
    <2>5. ASSUME NEW t \in Threads, NEW n \in Sockets,
                 \/ ResolveCallback(t, n) \/ AsyncConnectCallback(t, n)
                 \/ HandshakeCallback(t, n) \/ HeaderCallback(t, n)
          PROVE  CalmInv'
      <3>1. OneLoopNext(rd', readCur', ReadCalls) /\ OneLoopNext(wr', writeCur', WriteCalls)
        BY <2>5, LoopsHandler
      <3>2. Healthy' /\ HeaderFirst'
        BY <2>5, CalmSetupHandler
      <3> QED BY <1>2, <3>1, <3>2
    <2>6. CASE Completion \/ Server
      <3>1. OneLoopNext(rd', readCur', ReadCalls) /\ OneLoopNext(wr', writeCur', WriteCalls)
        BY <2>6, LoopsEnvironment
      <3>2. Healthy' /\ HeaderFirst'
        BY <2>6, CalmEnvironment
      <3> QED BY <1>2, <3>1, <3>2
    <2> QED BY <2>1, <2>2, <2>3, <2>4, <2>5, <2>6 DEF CalmNext
  <1> QED BY <1>4, <1>5

LEMMA CalmAlways ==
  ASSUME MaxFaults = 0, MaxTimeouts = 0
  PROVE  Spec => []CalmInv
  <1>1. Init => CalmInv
    BY CalmInit
  <1>2. CalmInv /\ [Next]_vars => CalmInv'
    BY CalmStep
  <1> QED BY <1>1, <1>2, PTL DEF Spec

----------------------------------------------------------------------------
(* Theorems.                                                               *)

\* sendNextRequest: "make sure we are connected and handshake has been done".
\* While nothing fails a request is written only on a socket whose header
\* was written, for any number of threads and requests, with and without SSL
\* and authentication.
THEOREM HeaderBeforeRequests ==
  ASSUME MaxFaults = 0, MaxTimeouts = 0
  PROVE  Spec => []HandshakeFirst
  <1>1. CalmInv => HandshakeFirst
    BY UnderWay DEF HandshakeFirst
  <1> QED BY <1>1, CalmAlways, PTL

\* While nothing fails there is one write at a time on the socket: the write
\* loop's, and never together with the header's.
THEOREM WritesDoNotOverlap ==
  ASSUME MaxFaults = 0, MaxTimeouts = 0
  PROVE  Spec => []OneWriteAtATime
  <1>1. ASSUME CalmInv PROVE OneWriteAtATime
    <2>1. \A k, l \in Loops : wr[k].op = "pending" /\ wr[l].op = "pending" => k = l
      BY <1>1, UnderWay
    <2>2. ASSUME NEW l \in Loops, NEW n \in Sockets, wr[l].op = "pending",
                 setup[n].kind = "header", setup[n].res = "pending"
          PROVE  FALSE
      <3>1. socket \in helloed
        BY <1>1, <2>2, UnderWay
      <3> QED BY <1>1, <2>2, <3>1 DEF CalmInv, HeaderFirst
    <2> QED BY <2>1, <2>2 DEF OneWriteAtATime
  <1> QED BY <1>1, CalmAlways, PTL


----------------------------------------------------------------------------
(* The authentication request comes first.                                 *)

\* A step that establishes nothing new.
LEMMA AuthKept ==
  ASSUME CalmInv, AuthFirst, NEW t \in Threads, NEW old, NEW top, NEW rest,
         Moves(t, old, top, rest), \A c, d \in old : c = d,
         \A c \in top \cup rest : c.op \in EstablishOps => c.op = "startWriting" /\ connected,
         connected' => connected \/ \E c \in old : c.op = "setConnected",
         writeCur' # NoLoop => writeCur # NoLoop \/ \E c \in old : c.op = "startWriting",
         (\E n \in Sockets : setup'[n].kind # "none") =>
           (\E n \in Sockets : setup[n].kind # "none") \/ socket \notin helloed
  PROVE  AuthFirst'
  <1>1. \A u \in Threads : \A c \in CallsOf(u)' : c \in CallsOf(u) \/ c \in top \cup rest
    BY DEF Moves
  <1>2. old \subseteq CallsOf(t)
    BY DEF Moves
  <1>3. ASSUME NEW n \in Sockets, setup'[n].kind # "none"
        PROVE  ~connected' /\ writeCur' = NoLoop /\ ~Busy(EstablishOps)'
    <2>1. ~connected /\ writeCur = NoLoop /\ ~Busy(EstablishOps)
      <3>1. CASE \E m \in Sockets : setup[m].kind # "none"
        BY <3>1 DEF AuthFirst
      <3>2. CASE socket \notin helloed
        <4>1. ~connected /\ writeCur = NoLoop /\ ~Busy(UseOps)
          BY <3>2 DEF CalmInv, HeaderFirst
        <4> QED BY <4>1 DEF Busy, UseOps, EstablishOps
      <3> QED BY <1>3, <3>1, <3>2
    <2>2. \A c \in old : c.op \notin EstablishOps
      BY <1>2, <2>1 DEF Busy
    <2>3. ~connected' /\ writeCur' = NoLoop
      BY <2>1, <2>2 DEF EstablishOps
    <2> QED BY <1>1, <2>1, <2>3 DEF Busy
  <1>4. ASSUME NEW u \in Threads, NEW c \in CallsOf(u)', c.op = "insertAuth"
        PROVE  /\ ~connected' /\ writeCur' = NoLoop
               /\ \A v \in Threads : \A d \in CallsOf(v)' : d.op \in EstablishOps => v = u
               /\ \A d \in Below(u)' : d.op # "insertAuth"
    <2>1. c \in CallsOf(u) /\ c \notin top \cup rest
      BY <1>1, <1>4 DEF EstablishOps
    <2>2. /\ ~connected /\ writeCur = NoLoop
          /\ \A v \in Threads : \A d \in CallsOf(v) : d.op \in EstablishOps => v = u
          /\ \A d \in Below(u) : d.op # "insertAuth"
      BY <1>4, <2>1 DEF AuthFirst
    <2>3. u # t
      BY <1>4, <2>1, <2>2 DEF Moves
    <2>4. \A d \in old : d.op \notin EstablishOps
      BY <1>2, <2>2, <2>3
    <2>5. ~connected' /\ writeCur' = NoLoop
      BY <2>2, <2>4 DEF EstablishOps
    <2>6. \A v \in Threads : \A d \in CallsOf(v)' : d.op \in EstablishOps => v = u
      BY <1>1, <2>2
    <2>7. Below(u)' = Below(u)
      BY <2>3 DEF Moves
    <2> QED BY <2>2, <2>5, <2>6, <2>7
  <1> QED BY <1>3, <1>4 DEF AuthFirst

\* The calls of the threads.
LEMMA AuthRun ==
  ASSUME CalmInv, AuthFirst, NEW t \in Threads, Writing(t) \/ Reading(t) \/ Connecting(t)
  PROVE  AuthFirst'
  <1> USE DEF itemVars, queueVars, connVars, loopVars, setupVars, netVars, budgetVars, outsideVars
  <1> DEFINE c == Now(t)
  <1>1. todo[t] # <<>> /\ todo \in [Threads -> Seq(Call)]
    BY CalmRun DEF CalmInv, WriteInv, TypeOK
  <1>2. c \in CallsOf(t)
    BY <1>1, CalmNow
  <1>3. connected' => connected \/ c.op = "setConnected"
    BY DEF Writing, Reading, Connecting, Enqueue, CheckConnected, StartWriting, Front, AddToStore,
           RemoveFirst, IssueWrite, StartReading, ReadNextBytes, IssueRead, FindByID, RemoveByID,
           MoveRequest, Invoke, InitSocket, StartSSLHandshake, FinishInitialization,
           InsertAuthenticationRequests, SetConnected, OnFailure, At, Now
  <1>4. writeCur' # NoLoop => writeCur # NoLoop \/ c.op = "startWriting"
    BY DEF Writing, Reading, Connecting, Enqueue, CheckConnected, StartWriting, Front, AddToStore,
           RemoveFirst, IssueWrite, StartReading, ReadNextBytes, IssueRead, FindByID, RemoveByID,
           MoveRequest, Invoke, InitSocket, StartSSLHandshake, FinishInitialization,
           InsertAuthenticationRequests, SetConnected, OnFailure, At, Now
  <1>5. (\E n \in Sockets : setup'[n].kind # "none") =>
           (\E n \in Sockets : setup[n].kind # "none") \/ socket \notin helloed
    <2>1. CASE c.op \in SetupCalls
      <3>1. Busy(SetupCalls)
        BY <1>2, <2>1 DEF Busy
      <3> QED BY <3>1 DEF CalmInv, HeaderFirst
    <2>2. CASE c.op \notin SetupCalls
      <3>1. UNCHANGED setup
        BY <2>2 DEF Writing, Reading, Connecting, Enqueue, CheckConnected, StartWriting, Front,
           AddToStore, RemoveFirst, IssueWrite, StartReading, ReadNextBytes, IssueRead, FindByID,
           RemoveByID, MoveRequest, Invoke, InitSocket, StartSSLHandshake, FinishInitialization,
           InsertAuthenticationRequests, SetConnected, OnFailure, At, Now, SetupCalls
      <3> QED BY <3>1
    <2> QED BY <2>1, <2>2
  <1>6. \/ Return(t)
        \/ \E a : (a.op \in EstablishOps => a.op = "startWriting" /\ connected) /\ Then(t, <<a>>)
        \/ \E a, b : a.op \notin EstablishOps /\ b.op \notin EstablishOps /\ Then(t, <<a, b>>)
    <2>1. CASE CheckConnected(t)
      BY <2>1 DEF CheckConnected, Return, Plain
    <2>2. CASE RemoveFirst(t)
      BY <2>2 DEF RemoveFirst, WriteCallsFor, Plain, Send, EstablishOps
    <2>3. CASE \/ StartWriting(t) \/ Front(t) \/ AddToStore(t) \/ StartReading(t) \/ ReadNextBytes(t)
      BY <2>3 DEF StartWriting, Front, AddToStore, StartReading, ReadNextBytes, On, Send, EstablishOps
    <2>4. CASE FindByID(t) \/ RemoveByID(t) \/ MoveRequest(t) \/ Invoke(t)
      BY <2>4 DEF FindByID, CompletedCalls, RemoveByID, MoveRequest, Invoke, Return, Item, Plain,
                  EstablishOps
    <2>5. CASE Enqueue(t) \/ IssueWrite(t) \/ IssueRead(t) \/ Connecting(t)
      BY <2>5 DEF Enqueue, IssueWrite, IssueRead, Connecting, InitSocket, StartSSLHandshake,
                  FinishInitialization, InsertAuthenticationRequests, SetConnected, OnFailure
    <2> QED BY <2>1, <2>2, <2>3, <2>4, <2>5 DEF Writing, Reading
  <1>7. ASSUME NEW top, NEW rest, Moves(t, {c}, top, rest),
               \A d \in top \cup rest : d.op \in EstablishOps => d.op = "startWriting" /\ connected
        PROVE  AuthFirst'
    <2>1. \A d, e \in {c} : d = e
      OBVIOUS
    <2>2. connected' => connected \/ \E d \in {c} : d.op = "setConnected"
      BY <1>3
    <2>3. writeCur' # NoLoop => writeCur # NoLoop \/ \E d \in {c} : d.op = "startWriting"
      BY <1>4
    <2> QED BY <1>5, <1>7, <2>1, <2>2, <2>3, AuthKept
  <1>8. CASE Return(t)
    <2>1. Moves(t, {c}, {}, {})
      BY <1>1, <1>8, ThenMoves
    <2> QED BY <1>7, <2>1
  <1>9. ASSUME NEW a, a.op \in EstablishOps => a.op = "startWriting" /\ connected, Then(t, <<a>>)
        PROVE  AuthFirst'
    <2>1. /\ Moves(t, {c}, {a}, {})
          /\ \A d \in {a} \cup {} : d.op \in EstablishOps => d.op = "startWriting" /\ connected
      BY <1>1, <1>9, ThenMoves
    <2> QED BY <1>7, <2>1
  <1>10. ASSUME NEW a, NEW b, a.op \notin EstablishOps, b.op \notin EstablishOps, Then(t, <<a, b>>)
         PROVE  AuthFirst'
    <2>1. /\ Moves(t, {c}, {}, {a, b})
          /\ \A d \in {} \cup {a, b} : d.op \in EstablishOps => d.op = "startWriting" /\ connected
      BY <1>1, <1>10, ThenMoves
    <2> QED BY <1>7, <2>1
  <1> QED BY <1>6, <1>8, <1>9, <1>10

\* sendRequest and the handlers.
LEMMA AuthHandler ==
  ASSUME CalmInv, AuthFirst, NEW t \in Threads,
         \/ SendRequest(t)
         \/ \E l \in Loops : ReadCallback(t, l) \/ WriteCallback(t, l)
         \/ \E n \in Sockets : \/ ResolveCallback(t, n) \/ AsyncConnectCallback(t, n)
                               \/ HandshakeCallback(t, n) \/ HeaderCallback(t, n)
  PROVE  AuthFirst'
  <1> USE DEF itemVars, queueVars, connVars, loopVars, setupVars, netVars, budgetVars, outsideVars
  <1>1. todo \in [Threads -> Seq(Call)] /\ setup \in [Sockets -> SetupRec]
    BY DEF CalmInv, WriteInv, TypeOK
  <1>2. ASSUME NEW S, NEW calls \in Seq(S), todo[t] = <<>>, todo' = [todo EXCEPT ![t] = calls],
               \A k \in 1 .. Len(calls) : calls[k].op \notin EstablishOps,
               connected' => connected, UNCHANGED writeCur,
               (\E n \in Sockets : setup'[n].kind # "none") => \E n \in Sockets : setup[n].kind # "none"
        PROVE  AuthFirst'
    <2>1. Moves(t, {}, {}, Range(calls))
      BY <1>1, <1>2, BeginMoves
    <2>2. \A c \in {} \cup Range(calls) : c.op \notin EstablishOps
      BY <1>2 DEF Range
    <2> QED BY <1>2, <2>1, <2>2, AuthKept
  <1>3. CASE SendRequest(t)
    <2> DEFINE a == Item("enqueue", nextID + 1, "none")
               b == Plain("checkConnected")
               S == {a, b}
               calls == <<a, b>>
    <2>1. /\ todo[t] = <<>> /\ todo' = [todo EXCEPT ![t] = calls]
          /\ UNCHANGED <<connected, writeCur, setup>>
      BY <1>3 DEF SendRequest, SendCalls, Idle
    <2>2. a.op = "enqueue" /\ b.op = "checkConnected"
      BY DEF Item, Plain
    <2> HIDE DEF a, b
    <2>3. calls \in Seq(S) /\ \A k \in 1 .. Len(calls) : calls[k].op \notin EstablishOps
      BY <2>2 DEF EstablishOps
    <2> HIDE DEF S, calls
    <2> QED BY <1>2, <2>1, <2>3
  <1>4. ASSUME NEW l \in Loops, ReadCallback(t, l) PROVE AuthFirst'
    <2>1. todo[t] = <<>> /\ UNCHANGED <<connected, writeCur, setup>>
      BY <1>4 DEF ReadCallback, Idle
    <2>2. PICK S : \E calls \in Seq(S) :
            /\ todo' = [todo EXCEPT ![t] = calls]
            /\ \A k \in 1 .. Len(calls) : calls[k].op \in {"findByID", "readNextBytes"}
      BY <1>4, ReadHandlerCalls
    <2>3. PICK calls \in Seq(S) :
            /\ todo' = [todo EXCEPT ![t] = calls]
            /\ \A k \in 1 .. Len(calls) : calls[k].op \in {"findByID", "readNextBytes"}
      BY <2>2
    <2>4. \A k \in 1 .. Len(calls) : calls[k].op \notin EstablishOps
      BY <2>3 DEF EstablishOps
    <2> QED BY <1>2, <2>1, <2>3, <2>4
  <1>5. ASSUME NEW a, todo[t] = <<>>, todo' = [todo EXCEPT ![t] = <<a>>], a.op \notin EstablishOps,
               connected' => connected, UNCHANGED writeCur,
               (\E n \in Sockets : setup'[n].kind # "none") => \E n \in Sockets : setup[n].kind # "none"
        PROVE  AuthFirst'
    <2> DEFINE S == {a}
               calls == <<a>>
    <2>1. /\ calls \in Seq(S) /\ todo' = [todo EXCEPT ![t] = calls]
          /\ \A k \in 1 .. Len(calls) : calls[k].op \notin EstablishOps
      BY <1>5
    <2> HIDE DEF S, calls
    <2> QED BY <1>2, <1>5, <2>1
  <1>6. ASSUME NEW l \in Loops, WriteCallback(t, l) PROVE AuthFirst'
    <2>1. todo[t] = <<>> /\ UNCHANGED <<connected, writeCur, setup>>
      BY <1>6 DEF WriteCallback, Idle
    <2>2. PICK a : a.op = "front" /\ todo' = [todo EXCEPT ![t] = <<a>>]
      BY <1>6, WriteHandlerCalls
    <2>3. a.op \notin EstablishOps
      BY <2>2 DEF EstablishOps
    <2> QED BY <1>5, <2>1, <2>2, <2>3
  <1>7. ASSUME NEW n \in Sockets,
               \/ ResolveCallback(t, n) \/ AsyncConnectCallback(t, n)
               \/ HandshakeCallback(t, n) \/ HeaderCallback(t, n)
        PROVE  AuthFirst'
    <2>1. /\ todo[t] = <<>> /\ setup[n].kind # "none" /\ UNCHANGED writeCur
          /\ connected' => connected
          /\ setup' = [setup EXCEPT ![n] = NoSetup]
      BY <1>7, SetupHandlerCalls
    <2>2. ASSUME NEW a, todo' = [todo EXCEPT ![t] = <<a>>], a.op \in SetupCalls PROVE AuthFirst'
      <3>1. a.op \notin EstablishOps
        BY <2>2 DEF EstablishOps, SetupCalls
      <3> QED BY <1>5, <1>7, <2>1, <2>2, <3>1, SetupHandlerCalls
    <2>3. ASSUME todo' = [todo EXCEPT ![t] = <<Plain("insertAuth"), Plain("setConnected"),
                                               Plain("startWriting"), Plain("startReading")>>]
          PROVE  AuthFirst'
      <3>1. ~connected' /\ writeCur' = NoLoop /\ ~Busy(EstablishOps)
        BY <1>7, <2>1, SetupHandlerCalls DEF AuthFirst
      <3>2. \A m \in Sockets : setup'[m].kind = "none"
        <4>1. n = 1
          BY <2>1, OneAttempt
        <4> QED BY <1>1, <2>1, <4>1, OneAttempt DEF NoSetup
      <3> DEFINE a == Plain("insertAuth")
                 b == Plain("setConnected")
                 c == Plain("startWriting")
                 d == Plain("startReading")
                 S == {a, b, c, d}
                 calls == <<a, b, c, d>>
      <3>3. /\ a.op = "insertAuth" /\ b.op = "setConnected" /\ c.op = "startWriting"
            /\ d.op = "startReading" /\ todo' = [todo EXCEPT ![t] = calls]
        BY <2>3 DEF Plain
      <3> HIDE DEF a, b, c, d
      <3>4. calls \in Seq(S) /\ \A k \in 2 .. Len(calls) : calls[k].op # "insertAuth"
        BY <3>3
      <3> HIDE DEF S, calls
      <3>5. /\ Below(t)' = {calls[k] : k \in 2 .. Len(calls)}
            /\ \A u \in Threads \ {t} : CallsOf(u)' = CallsOf(u)
        BY <1>1, <2>1, <3>3, <3>4, StackHandler
      <3>6. \A x \in Below(t)' : x.op # "insertAuth"
        BY <3>4, <3>5
      <3>7. \A u \in Threads : \A x \in CallsOf(u)' : x.op \in EstablishOps => u = t
        BY <3>1, <3>5 DEF Busy
      <3>8. \A u \in Threads : \A x \in CallsOf(u)' : x.op = "insertAuth" =>
              /\ ~connected' /\ writeCur' = NoLoop
              /\ \A v \in Threads : \A y \in CallsOf(v)' : y.op \in EstablishOps => v = u
              /\ \A y \in Below(u)' : y.op # "insertAuth"
        BY <3>1, <3>6, <3>7 DEF EstablishOps
      <3> QED BY <3>2, <3>8 DEF AuthFirst
    <2> QED BY <1>7, <2>2, <2>3, SetupHandlerCalls
  <1> QED BY <1>3, <1>4, <1>6, <1>7

\* No thread moves, and the setup is where it was.
LEMMA AuthLeft ==
  ASSUME AuthFirst, UNCHANGED <<todo, connected, writeCur>>,
         \A n \in Sockets : setup'[n].kind = setup[n].kind
  PROVE  AuthFirst'
  <1>1. /\ \A u \in Threads : CallsOf(u)' = CallsOf(u) /\ Below(u)' = Below(u)
        /\ \A ops : Busy(ops)' <=> Busy(ops)
    BY DEF CallsOf, Below, Busy
  <1> QED BY <1>1 DEF AuthFirst

\* The io_service, the network and the server.
LEMMA AuthEnvironment ==
  ASSUME CalmInv, AuthFirst, Completion \/ Server
  PROVE  AuthFirst'
  <1> USE DEF itemVars, queueVars, connVars, loopVars, setupVars, netVars, budgetVars, outsideVars
  <1>1. UNCHANGED <<todo, connected, writeCur>>
    BY DEF Completion, Server, WriteCompletes, WriteFails, ReadCompletes, ReadFails, SetupCompletes,
           Respond
  <1>2. setup \in [Sockets -> SetupRec]
    BY DEF CalmInv, WriteInv, TypeOK
  <1>3. \A n \in Sockets : setup'[n].kind = setup[n].kind
    <2>1. UNCHANGED setup \/ \E n \in Sockets : setup' = [setup EXCEPT ![n].res = "ok"]
      BY DEF Completion, Server, WriteCompletes, WriteFails, ReadCompletes, ReadFails, SetupCompletes,
             Respond
    <2> QED BY <1>2, <2>1 DEF SetupRec
  <1> QED BY <1>1, <1>3, AuthLeft


\* The authentication request is put before the others while nobody takes
\* a request from the queue.
LEMMA KeptByInsertAuth ==
  ASSUME IndInv, TypeOK', NEW t \in Threads, InsertAuthenticationRequests(t), Auth, ~Busy(LockOps)
  PROVE  IndInv'
  <1> USE DEF itemVars, queueVars, connVars, loopVars, setupVars, netVars, budgetVars, outsideVars
  <1> DEFINE n == nextID + 1
             q == sendQueue
  <1>1. /\ todo[t] # <<>> /\ Now(t).op = "insertAuth" /\ Return(t)
        /\ UNCHANGED store /\ UNCHANGED <<rd, wr, wire, owed>>
        /\ nextID' = n /\ owns' = owns \cup {n} /\ nextID < MaxID /\ sendQueue' = <<n>> \o q
    BY DEF InsertAuthenticationRequests, NewItem, At, Now
  <1>2. nextID \in Nat /\ todo \in [Threads -> Seq(Call)] /\ q \in Seq(IDs)
    BY BoundsAssumption DEF IndInv, TypeOK
  <1>3. n \in IDs
    BY <1>1, <1>2, BoundsAssumption DEF IDs, MaxID
  <1>4. n \notin 1 .. nextID /\ 1 .. nextID' = 1 .. nextID \cup {n}
    BY <1>1, <1>2
  <1>5. Moves(t, {Now(t)}, {}, {})
    BY <1>1, <1>2, ThenMoves
  <1>6. ASSUME NEW ops \in SUBSET ItemCalls PROVE InCall(ops)' = InCall(ops)
    <2>1. Now(t).op \notin ops
      BY <1>1, <1>6 DEF ItemCalls
    <2>2. InCall(ops)' \subseteq InCall(ops) /\ InCall(ops) \subseteq InCall(ops)'
      BY <1>5, <2>1, InCallMoves
    <2> QED BY <2>2
  <1>7. /\ InCall({"enqueue"})' = InCall({"enqueue"})
        /\ InCall({"removeFirst"})' = InCall({"removeFirst"}) /\ InCall(LockOps)' = InCall(LockOps)
        /\ Handled' = Handled /\ InCall(MoveOps)' = InCall(MoveOps)
    BY <1>6 DEF ItemCalls, LockOps, MoveOps, Handled, HandledOps
  <1>8. OnTheWay' = OnTheWay
    BY <1>1 DEF OnTheWay
  <1> DEFINE one == <<n>>
  <1>9. one \in Seq(IDs) /\ Len(one) = 1 /\ one[1] = n /\ Range(one) = {n}
    BY <1>3 DEF Range
  <1> HIDE DEF n, q, one
  <1>10. /\ Len(q) \in Nat /\ DOMAIN (one \o q) = 1 .. Len(q) + 1 /\ (one \o q)[1] = n
         /\ \A k \in 2 .. Len(q) + 1 : k - 1 \in DOMAIN q /\ (one \o q)[k] = q[k - 1]
         /\ Range(one \o q) = {n} \cup Range(q)
    <2>1. /\ Len(q) \in Nat /\ DOMAIN q = 1 .. Len(q) /\ DOMAIN (one \o q) = 1 .. 1 + Len(q)
          /\ \A k \in 1 .. 1 + Len(q) : (one \o q)[k] = IF k <= 1 THEN one[k] ELSE q[k - 1]
      <3>1. Len(q) \in Nat /\ DOMAIN q = 1 .. Len(q)
        BY <1>2
      <3>2. /\ one \o q \in Seq(IDs) /\ Len(one \o q) = Len(one) + Len(q)
            /\ \A k \in 1 .. Len(one) + Len(q) :
                 (one \o q)[k] = IF k <= Len(one) THEN one[k] ELSE q[k - Len(one)]
        BY <1>2, <1>9, ConcatProperties
      <3>3. DOMAIN (one \o q) = 1 .. Len(one \o q)
        BY <3>2
      <3> QED BY <1>9, <3>1, <3>2, <3>3
    <2>2. Range(one \o q) = {n} \cup Range(q)
      BY <1>2, <1>9, RangeConcat
    <2>3. (one \o q)[1] = n
      BY <1>9, <2>1
    <2>4. \A k \in 2 .. Len(q) + 1 : k - 1 \in DOMAIN q /\ (one \o q)[k] = q[k - 1]
      BY <2>1
    <2> QED BY <2>1, <2>2, <2>3, <2>4
  <1>11. sendQueue' = one \o q /\ sendQueue = q
    BY <1>1 DEF one, q
  <1>12. Queued = Range(q) /\ Queued' = {n} \cup Queued
    <2>1. Queued = Range(sendQueue) /\ Queued' = Range(sendQueue')
      BY DEF Queued, Range
    <2> QED BY <1>10, <1>11, <2>1
  <1>13. Waiting' = Waiting \cup {n} /\ Travelling' = Travelling
    BY <1>7, <1>8, <1>12 DEF Waiting, Travelling
  <1>14. /\ n \notin Waiting /\ n \notin Queued /\ n \notin InCall({"enqueue"})
         /\ n \notin Travelling /\ n \notin store
    BY <1>4 DEF IndInv, Numbered, Waiting
  <1>15. Numbered'
    BY <1>1, <1>4, <1>7, <1>13 DEF IndInv, Numbered
  <1>16. Locked'
    <2>1. \A u \in Threads : \A c \in CallsOf(u)' : c \in CallsOf(u)
      BY <1>5 DEF Moves
    <2>2. \A u \in Threads : \A c \in CallsOf(u)' : c.op \notin LockOps
      BY <2>1 DEF Busy
    <2>3. \A u \in Threads : \A c \in Below(u)' : c.op \notin HeadOps
      BY <1>5 DEF Moves, IndInv, Locked
    <2> QED BY <2>2, <2>3 DEF Locked
  <1>17. QueuedOnce'
    <2>1. \A u, v \in Threads : \A c \in CallsOf(u)', d \in CallsOf(v)' :
            c.op = "enqueue" /\ d.op = "enqueue" /\ c.id = d.id => u = v
      BY <1>5 DEF Moves, IndInv, QueuedOnce
    <2>2. ASSUME NEW j \in 1 .. Len(q) + 1, NEW k \in 1 .. Len(q) + 1,
                 (one \o q)[j] = (one \o q)[k]
          PROVE  j = k
      <3>1. ASSUME NEW m \in 2 .. Len(q) + 1 PROVE (one \o q)[m] # n
        BY <1>10, <1>12, <1>14 DEF Range
      <3>2. CASE j = 1 \/ k = 1
        BY <1>10, <2>2, <3>1, <3>2
      <3>3. CASE j # 1 /\ k # 1
        <4>1. j \in 2 .. Len(q) + 1 /\ k \in 2 .. Len(q) + 1
          BY <1>10, <2>2, <3>3
        <4>2. q[j - 1] = q[k - 1] /\ j - 1 \in DOMAIN q /\ k - 1 \in DOMAIN q
          BY <1>10, <2>2, <4>1
        <4>3. j - 1 = k - 1
          BY <1>11, <4>2 DEF IndInv, QueuedOnce
        <4> QED BY <4>1, <4>3
      <3> QED BY <3>2, <3>3
    <2>3. \A j, k \in DOMAIN sendQueue' : sendQueue'[j] = sendQueue'[k] => j = k
      BY <1>10, <1>11, <2>2
    <2> QED BY <1>7, <1>12, <1>14, <2>1, <2>3 DEF IndInv, QueuedOnce
  <1>18. Separate'
    BY <1>1, <1>7, <1>13, <1>14 DEF IndInv, Separate
  <1>19. Ownership'
    BY <1>1, <1>7, <1>13, <1>14 DEF IndInv, Ownership
  <1> QED BY <1>15, <1>16, <1>17, <1>18, <1>19 DEF IndInv

----------------------------------------------------------------------------
(* An item is written once.                                                *)

\* The item that leaves the queue waits.
LEMMA LockedWaits ==
  ASSUME IndInv, NEW u \in Threads, NEW c \in CallsOf(u), c.op \in LockOps
  PROVE  c.id \in Waiting
  <1>1. sendQueue \in Seq(IDs) /\ sendQueue # <<>> /\ c.id = Head(sendQueue)
    BY DEF IndInv, TypeOK, Locked
  <1>2. Queued = Range(sendQueue)
    BY DEF Queued, Range
  <1> QED BY <1>1, <1>2, QueueOps DEF Waiting

\* What keeps the order of the stages of an item.
LEMMA StagedKept ==
  ASSUME IndInv, Staged, NEW t \in Threads, NEW old, NEW top, NEW rest, Moves(t, old, top, rest),
         \A c \in top \cup rest : c.op = "removeFirst" => c.id \in store',
         \A c \in top \cup rest : c.op = "issueWrite" =>
           c.id \in store' /\ c.id \notin sent' /\ c.id \notin Travelling,
         \A c \in top \cup rest : c.op \in LaterOps => c.id \in InCall(LaterOps) \cup OnTheWay,
         OnTheWay' \subseteq OnTheWay \/ ~Busy({"issueWrite"})',
         store \ InCall(LaterOps) \subseteq store',
         sent' \subseteq sent \cup OnTheWay,
         nextID' \in Nat, nextID' >= nextID,
         \A i \in Waiting' : i \in Waiting \/ i > nextID
  PROVE  Staged'
  <1>1. \A u \in Threads : \A c \in CallsOf(u)' : c \in CallsOf(u) \/ c \in top \cup rest
    BY DEF Moves
  <1>2. InCall(LaterOps) \subseteq Travelling /\ OnTheWay \subseteq Travelling
    BY DEF Travelling, Handled, LaterOps, InCall
  <1>3. nextID \in Nat /\ Travelling \subseteq 1 .. nextID /\ Waiting \cap Travelling = {}
    BY BoundsAssumption DEF IndInv, TypeOK, Numbered, Separate
  <1>4. sent' \subseteq 1 .. nextID'
    <2>1. 1 .. nextID \subseteq 1 .. nextID'
      BY <1>3
    <2> QED BY <1>2, <1>3, <2>1 DEF Staged
  <1>5. sent' \cap Waiting' = {}
    <2>1. ASSUME NEW i \in sent', i \in Waiting' PROVE FALSE
      <3>1. i \in 1 .. nextID /\ i \notin Waiting
        BY <1>2, <1>3, <2>1 DEF Staged
      <3> QED BY <1>3, <2>1, <3>1
    <2> QED BY <2>1
  <1>6. \A i \in InCall(LaterOps)' : i \in InCall(LaterOps) \cup OnTheWay
    BY InCallMoves
  <1>7. ASSUME NEW u \in Threads, NEW c \in CallsOf(u)', c.op = "removeFirst"
        PROVE  c.id \in store'
    <2>1. CASE c \in CallsOf(u)
      <3>1. c.id \in store /\ c.id \notin Travelling
        BY <1>3, <1>7, <2>1, LockedWaits DEF Staged, LockOps
      <3> QED BY <1>2, <3>1
    <2> QED BY <1>1, <1>7, <2>1
  <1>8. ASSUME NEW u \in Threads, NEW c \in CallsOf(u)', c.op = "issueWrite"
        PROVE  /\ c.id \in store' /\ c.id \notin sent' /\ c.id \notin OnTheWay'
               /\ c.id \notin InCall(LaterOps)'
    <2>1. OnTheWay' \subseteq OnTheWay
      BY <1>8 DEF Busy
    <2>2. CASE c \in CallsOf(u)
      <3>1. /\ c.id \in store /\ c.id \notin sent /\ c.id \notin OnTheWay
            /\ c.id \notin InCall(LaterOps)
        BY <1>8, <2>2 DEF Staged
      <3> QED BY <1>6, <2>1, <3>1
    <2>3. CASE c \in top \cup rest
      <3>1. c.id \in store' /\ c.id \notin sent' /\ c.id \notin Travelling
        BY <1>8, <2>3
      <3> QED BY <1>2, <1>6, <2>1, <3>1
    <2> QED BY <1>1, <2>2, <2>3
  <1> QED BY <1>4, <1>5, <1>7, <1>8 DEF Staged


\* A call that neither takes an item from the queue nor writes one.
LEMMA StagedCall ==
  ASSUME CalmInv, IndInv, Staged, NEW t \in Threads, todo[t] # <<>>,
         \/ Return(t)
         \/ \E a : /\ Then(t, <<a>>) /\ a.op \notin {"enqueue", "removeFirst", "issueWrite"}
                   /\ a.op \in LaterOps => a.id = Now(t).id /\ Now(t).op \in LaterOps,
         OnTheWay' \subseteq OnTheWay \/ ~Busy({"issueWrite"})',
         store \ InCall(LaterOps) \subseteq store', UNCHANGED sent,
         nextID' \in Nat, nextID' >= nextID,
         \A i \in Queued' : i \in Waiting \/ i > nextID
  PROVE  Staged'
  <1>1. todo \in [Threads -> Seq(Call)]
    BY DEF IndInv, TypeOK
  <1>2. Now(t).op \in LaterOps => Now(t).id \in InCall(LaterOps)
    <2>1. Now(t) \in Call /\ Now(t) \in CallsOf(t)
      BY <1>1, NowIsCall, StackSplit
    <2> QED BY <2>1 DEF InCall, LaterOps, HandledOps, Call, ItemCalls
  <1>3. ASSUME NEW top, NEW rest, Moves(t, {Now(t)}, top, rest),
               \A a \in top \cup rest :
                 /\ a.op \notin {"enqueue", "removeFirst", "issueWrite"}
                 /\ a.op \in LaterOps => a.id = Now(t).id /\ Now(t).op \in LaterOps
        PROVE  Staged'
    <2>1. InCall({"enqueue"})' \subseteq InCall({"enqueue"})
      BY <1>3, InCallMoves
    <2>2. \A i \in Waiting' : i \in Waiting \/ i > nextID
      BY <2>1 DEF Waiting
    <2>3. \A c \in top \cup rest : c.op \in LaterOps => c.id \in InCall(LaterOps) \cup OnTheWay
      BY <1>2, <1>3
    <2> QED BY <1>3, <2>2, <2>3, StagedKept
  <1>4. CASE Return(t)
    <2>1. Moves(t, {Now(t)}, {}, {})
      BY <1>1, <1>4, ThenMoves
    <2> QED BY <1>3, <2>1
  <1>5. ASSUME NEW a, Then(t, <<a>>), a.op \notin {"enqueue", "removeFirst", "issueWrite"},
               a.op \in LaterOps => a.id = Now(t).id /\ Now(t).op \in LaterOps
        PROVE  Staged'
    <2>1. Moves(t, {Now(t)}, {a}, {})
      BY <1>1, <1>5, ThenMoves
    <2>2. \A b \in {a} \cup {} : /\ b.op \notin {"enqueue", "removeFirst", "issueWrite"}
                                 /\ b.op \in LaterOps => b.id = Now(t).id /\ Now(t).op \in LaterOps
      BY <1>5
    <2> QED BY <1>3, <2>1, <2>2
  <1> QED BY <1>4, <1>5

\* The calls of the threads.
LEMMA StagedRun ==
  ASSUME CalmInv, IndInv, Staged, NEW t \in Threads, Writing(t) \/ Reading(t) \/ Connecting(t)
  PROVE  Staged'
  <1> USE DEF itemVars, queueVars, connVars, loopVars, setupVars, netVars, budgetVars, outsideVars
  <1> DEFINE c == Now(t)
  <1>1. /\ todo[t] # <<>> /\ todo \in [Threads -> Seq(Call)] /\ sendQueue \in Seq(IDs)
        /\ nextID \in Nat
    <2>1. todo[t] # <<>>
      BY CalmRun
    <2>2. todo \in [Threads -> Seq(Call)] /\ sendQueue \in Seq(IDs) /\ nextID \in 0 .. MaxID
      BY DEF IndInv, TypeOK
    <2> QED BY <2>1, <2>2
  <1>2. c \in CallsOf(t) /\ c \in Call
    BY <1>1, CalmNow, NowIsCall
  <1>3. OnTheWay' \subseteq OnTheWay \/ ~Busy({"issueWrite"})'
    <2>1. \/ OnTheWay' \subseteq OnTheWay
          \/ IssueWrite(t)
      BY RunTraffic DEF Run, IndInv
    <2>2. ASSUME IssueWrite(t) PROVE ~Busy({"issueWrite"})'
      <3>1. Return(t) /\ c.op = "issueWrite"
        BY <2>2 DEF IssueWrite, At, Now
      <3>2. Moves(t, {c}, {}, {})
        BY <1>1, <3>1, ThenMoves
      <3>3. Sole(WriteCalls) /\ c.op \in WriteCalls
        BY <3>1 DEF CalmInv, OneLoop, WriteCalls
      <3>4. /\ \A d \in Below(t) : d.op \notin WriteCalls
            /\ \A u \in Threads \ {t} : \A d \in CallsOf(u) : d.op \notin WriteCalls
        BY <1>1, <3>3, SoleNow
      <3>5. \A u \in Threads : \A d \in CallsOf(u)' : d.op \notin WriteCalls
        BY <3>2, <3>4 DEF Moves
      <3> QED BY <3>5 DEF Busy, WriteCalls
    <2> QED BY <2>1, <2>2
  <1>4. Queued = Range(sendQueue) /\ Queued' = Range(sendQueue')
    BY DEF Queued, Range
  <1>5. ASSUME \/ Return(t)
               \/ \E a : /\ Then(t, <<a>>) /\ a.op \notin {"enqueue", "removeFirst", "issueWrite"}
                         /\ a.op \in LaterOps => a.id = c.id /\ c.op \in LaterOps,
               UNCHANGED <<store, sent, nextID, sendQueue>>
        PROVE  Staged'
    <2>1. \A i \in Queued' : i \in Waiting \/ i > nextID
      BY <1>5 DEF Queued, Waiting
    <2>2. nextID' \in Nat /\ nextID' >= nextID
      BY <1>1, <1>5
    <2>3. store \ InCall(LaterOps) \subseteq store'
      BY <1>5
    <2>4. UNCHANGED sent
      BY <1>5
    <2> QED BY <1>1, <1>3, <1>5, <2>1, <2>2, <2>3, <2>4, StagedCall
  <1>6. CASE CheckConnected(t) \/ StartWriting(t) \/ Front(t) \/ StartReading(t) \/ ReadNextBytes(t)
    <2>1. UNCHANGED <<store, sent, nextID, sendQueue>>
      BY <1>6 DEF CheckConnected, StartWriting, Front, StartReading, ReadNextBytes
    <2> DEFINE next == {"startWriting", "front", "addToStore", "readNextBytes", "issueRead"}
    <2>2. \A l, i, h : /\ Plain("startWriting").op \in next /\ On("front", l, h).op \in next
                       /\ Send("addToStore", l, i, h).op \in next
                       /\ On("readNextBytes", l, h).op \in next /\ On("issueRead", l, h).op \in next
      BY DEF Plain, On, Send
    <2>3. Return(t) \/ \E a : Then(t, <<a>>) /\ a.op \in next
      <3> HIDE DEF next
      <3>1. CASE CheckConnected(t)
        BY <2>2, <3>1 DEF CheckConnected, Return
      <3>2. CASE StartWriting(t)
        BY <2>2, <3>2 DEF StartWriting
      <3>3. CASE Front(t)
        BY <2>2, <3>3 DEF Front
      <3>4. CASE StartReading(t)
        BY <2>2, <3>4 DEF StartReading
      <3>5. CASE ReadNextBytes(t)
        BY <2>2, <3>5 DEF ReadNextBytes
      <3> QED BY <1>6, <3>1, <3>2, <3>3, <3>4, <3>5
    <2> QED BY <1>5, <2>1, <2>3 DEF LaterOps, HandledOps
  <1>7. CASE IssueWrite(t) \/ IssueRead(t) \/ InitSocket(t) \/ StartSSLHandshake(t)
             \/ FinishInitialization(t) \/ SetConnected(t) \/ OnFailure(t)
    BY <1>5, <1>7 DEF IssueWrite, IssueRead, InitSocket, StartSSLHandshake, FinishInitialization,
                      SetConnected, OnFailure
  <1>8. CASE FindByID(t) \/ MoveRequest(t) \/ Invoke(t)
    <2>1. UNCHANGED <<store, sent, nextID, sendQueue>>
      BY <1>8 DEF FindByID, MoveRequest, Invoke
    <2>2. \/ Return(t)
          \/ \E a : /\ Then(t, <<a>>) /\ a.op \in {"removeByID", "invoke"} /\ a.id = c.id
                    /\ c.op \in LaterOps
          \/ \E a : Then(t, <<a>>) /\ a.op = "onFailure"
      <3>1. CASE FindByID(t)
        <4>1. \A i : Item("removeByID", i, "ok").op = "removeByID" /\ Item("removeByID", i, "ok").id = i
          BY DEF Item
        <4>2. c.op \in LaterOps
          BY <3>1 DEF FindByID, At, Now, LaterOps, HandledOps
        <4> QED BY <3>1, <4>1, <4>2 DEF FindByID, CompletedCalls
      <3>2. CASE MoveRequest(t)
        <4> DEFINE a == [op |-> "invoke", on |-> 0, id |-> c.id, err |-> c.err, held |-> c.id \in owns]
        <4>1. a.op = "invoke" /\ a.id = c.id
          OBVIOUS
        <4>2. Then(t, <<a>>) /\ c.op \in LaterOps
          BY <3>2 DEF MoveRequest, At, Now, LaterOps, HandledOps
        <4> HIDE DEF a
        <4> QED BY <4>1, <4>2
      <3>3. CASE Invoke(t)
        <4>1. Then(t, <<>>) \/ Then(t, <<Plain("onFailure")>>)
          BY <3>3 DEF Invoke
        <4>2. Plain("onFailure").op = "onFailure"
          BY DEF Plain
        <4> QED BY <4>1, <4>2 DEF Return
      <3> QED BY <1>8, <3>1, <3>2, <3>3
    <2> QED BY <1>5, <2>1, <2>2 DEF LaterOps, HandledOps
  <1>9. CASE RemoveByID(t)
    <2> DEFINE a == Item("moveRequest", c.id, c.err)
    <2>1. /\ UNCHANGED <<sent, nextID, sendQueue>> /\ store' = store \ {c.id} /\ Then(t, <<a>>)
          /\ c.op = "removeByID"
      BY <1>9 DEF RemoveByID, Without, At, Now
    <2>2. a.op = "moveRequest" /\ a.id = c.id
      BY DEF Item
    <2>3. c.id \in InCall(LaterOps) /\ c.op \in LaterOps
      BY <1>2, <2>1 DEF InCall, LaterOps, HandledOps, Call, ItemCalls
    <2>4. \A i \in Queued' : i \in Waiting \/ i > nextID
      BY <2>1 DEF Queued, Waiting
    <2> HIDE DEF a
    <2>5. store \ InCall(LaterOps) \subseteq store'
      BY <2>1, <2>3
    <2>6. nextID' \in Nat /\ nextID' >= nextID /\ UNCHANGED sent
      BY <1>1, <2>1
    <2>7. \E x : /\ Then(t, <<x>>) /\ x.op \notin {"enqueue", "removeFirst", "issueWrite"}
                 /\ x.op \in LaterOps => x.id = c.id /\ c.op \in LaterOps
      BY <2>1, <2>2, <2>3
    <2> QED BY <1>1, <1>3, <2>4, <2>5, <2>6, <2>7, StagedCall
  <1>10. CASE Enqueue(t)
    <2>1. /\ UNCHANGED <<store, sent, nextID>> /\ sendQueue' = Append(sendQueue, c.id) /\ Return(t)
          /\ c.op = "enqueue"
      BY <1>10 DEF Enqueue, At, Now
    <2>2. c.id \in IDs /\ c.id \in InCall({"enqueue"})
      BY <1>2, <2>1 DEF InCall, Call, ItemCalls
    <2>3. Queued' = Queued \cup {c.id}
      BY <1>1, <1>4, <2>1, <2>2, QueueOps
    <2>4. \A i \in Queued' : i \in Waiting
      BY <2>2, <2>3 DEF Waiting
    <2> QED BY <1>1, <1>3, <2>1, <2>4, StagedCall
  <1>11. CASE InsertAuthenticationRequests(t)
    <2>1. UNCHANGED <<store, sent>> /\ Return(t)
      BY <1>11 DEF InsertAuthenticationRequests
    <2>2. CASE UNCHANGED <<nextID, sendQueue>>
      BY <1>5, <2>1, <2>2
    <2>3. CASE NewItem /\ sendQueue' = <<nextID + 1>> \o sendQueue
      <3>1. nextID' = nextID + 1 /\ nextID + 1 \in IDs
        BY <1>1, <2>3, BoundsAssumption DEF NewItem, IDs, MaxID
      <3> DEFINE one == <<nextID + 1>>
      <3>2. one \in Seq(IDs) /\ Range(one) = {nextID + 1} /\ sendQueue' = one \o sendQueue
        BY <2>3, <3>1 DEF Range
      <3> HIDE DEF one
      <3>3. Queued' = {nextID + 1} \cup Queued
        BY <1>1, <1>4, <3>2, RangeConcat
      <3>4. \A i \in Queued' : i \in Waiting \/ i > nextID
        BY <1>1, <3>3 DEF Waiting
      <3>5. nextID' \in Nat /\ nextID' >= nextID
        BY <1>1, <3>1
      <3> QED BY <1>1, <1>3, <2>1, <3>4, <3>5, StagedCall
    <2> QED BY <1>11, <2>2, <2>3 DEF InsertAuthenticationRequests
  <1>12. CASE AddToStore(t)
    <2> DEFINE a == Send("removeFirst", c.on, c.id, c.held)
    <2>1. UNCHANGED <<sent, nextID, sendQueue>> /\ store' = store \cup {c.id} /\ Then(t, <<a>>)
      BY <1>12 DEF AddToStore
    <2>2. a.op = "removeFirst" /\ a.id = c.id
      BY DEF Send
    <2> HIDE DEF a
    <2>3. Moves(t, {c}, {a}, {})
      BY <1>1, <2>1, ThenMoves
    <2>4. InCall({"enqueue"})' \subseteq InCall({"enqueue"})
      BY <2>2, <2>3, InCallMoves
    <2>5. \A i \in Waiting' : i \in Waiting
      BY <2>1, <2>4 DEF Waiting, Queued
    <2>6. \A b \in {a} \cup {} : /\ b.op = "removeFirst" => b.id \in store'
                                 /\ b.op # "issueWrite" /\ b.op \notin LaterOps
      BY <2>1, <2>2 DEF LaterOps, HandledOps
    <2> QED BY <1>1, <1>3, <2>1, <2>3, <2>5, <2>6, StagedKept
  <1>13. CASE RemoveFirst(t)
    <2> DEFINE a == Plain("startReading")
               b == Send("issueWrite", c.on, c.id, c.held)
    <2>1. /\ UNCHANGED <<sent, nextID, store>> /\ sendQueue' = Tail(sendQueue)
          /\ Then(t, <<a, b>>) /\ c.op = "removeFirst" /\ sendQueue # <<>>
      BY <1>13 DEF RemoveFirst, WriteCallsFor, At, Now
    <2>2. a.op = "startReading" /\ b.op = "issueWrite" /\ b.id = c.id
      BY DEF Plain, Send
    <2> HIDE DEF a, b
    <2>3. Moves(t, {c}, {}, {a, b})
      BY <1>1, <2>1, ThenMoves
    <2>4. InCall({"enqueue"})' \subseteq InCall({"enqueue"})
      BY <2>2, <2>3, InCallMoves
    <2>5. Queued' \subseteq Queued
      BY <1>1, <1>4, <2>1, QueueOps
    <2>6. \A i \in Waiting' : i \in Waiting
      BY <2>4, <2>5 DEF Waiting
    <2>7. c.id \in store /\ c.id \in Waiting
      BY <1>2, <2>1, LockedWaits DEF Staged, LockOps
    <2>8. c.id \notin sent /\ c.id \notin Travelling
      BY <2>7 DEF Staged, IndInv, Separate
    <2>9. \A d \in {} \cup {a, b} :
            /\ d.op # "removeFirst" /\ d.op \notin LaterOps
            /\ d.op = "issueWrite" => d.id \in store' /\ d.id \notin sent' /\ d.id \notin Travelling
      BY <2>1, <2>2, <2>7, <2>8 DEF LaterOps, HandledOps
    <2>10. nextID' \in Nat /\ nextID' >= nextID
      BY <1>1, <2>1
    <2>11. store \ InCall(LaterOps) \subseteq store' /\ sent' \subseteq sent \cup OnTheWay
      BY <2>1
    <2> QED BY <1>3, <2>3, <2>6, <2>9, <2>10, <2>11, StagedKept
  <1> QED BY <1>6, <1>7, <1>8, <1>9, <1>10, <1>11, <1>12, <1>13 DEF Writing, Reading, Connecting


\* sendRequest numbers a new item; the handlers go on with items on the way.
LEMMA StagedHandler ==
  ASSUME CalmInv, IndInv, Staged, NEW t \in Threads,
         \/ SendRequest(t)
         \/ \E l \in Loops : ReadCallback(t, l) \/ WriteCallback(t, l)
         \/ \E n \in Sockets : \/ ResolveCallback(t, n) \/ AsyncConnectCallback(t, n)
                               \/ HandshakeCallback(t, n) \/ HeaderCallback(t, n)
  PROVE  Staged'
  <1> USE DEF itemVars, queueVars, connVars, loopVars, setupVars, netVars, budgetVars, outsideVars
  <1>1. todo \in [Threads -> Seq(Call)] /\ nextID \in 0 .. MaxID /\ nextID \in Nat
    BY DEF IndInv, TypeOK
  <1>2. ASSUME NEW S, NEW calls \in Seq(S), todo[t] = <<>>, todo' = [todo EXCEPT ![t] = calls],
               \A k \in 1 .. Len(calls) : calls[k].op \in ItemCalls =>
                 calls[k].op = "findByID" /\ calls[k].id \in OnTheWay,
               OnTheWay' \subseteq OnTheWay, UNCHANGED <<store, nextID, sendQueue>>,
               sent' \subseteq sent \cup OnTheWay
        PROVE  Staged'
    <2>1. Moves(t, {}, {}, Range(calls))
      BY <1>1, <1>2, BeginMoves
    <2>2. \A c \in {} \cup Range(calls) :
            c.op \in ItemCalls => c.op = "findByID" /\ c.id \in OnTheWay
      BY <1>2 DEF Range
    <2>3. \A c \in {} \cup Range(calls) :
            /\ c.op \notin {"enqueue", "removeFirst", "issueWrite"}
            /\ c.op \in LaterOps => c.id \in InCall(LaterOps) \cup OnTheWay
      BY <2>2 DEF LaterOps, HandledOps, ItemCalls
    <2>4. InCall({"enqueue"})' \subseteq InCall({"enqueue"})
      BY <2>1, <2>3, InCallMoves
    <2>5. \A i \in Waiting' : i \in Waiting
      BY <1>2, <2>4 DEF Waiting, Queued
    <2>6. nextID' \in Nat /\ nextID' >= nextID /\ store \ InCall(LaterOps) \subseteq store'
      BY <1>1, <1>2
    <2> HIDE DEF Range
    <2> QED BY <1>2, <2>1, <2>3, <2>5, <2>6, StagedKept
  <1>3. CASE SendRequest(t)
    <2> DEFINE n == nextID + 1
               a == Item("enqueue", n, "none")
               b == Plain("checkConnected")
               S == {a, b}
               calls == <<a, b>>
    <2>1. /\ todo[t] = <<>> /\ todo' = [todo EXCEPT ![t] = calls] /\ nextID' = n
          /\ UNCHANGED <<store, sent, sendQueue, rd, wr, wire, owed>>
      BY <1>3 DEF SendRequest, SendCalls, NewItem, Idle
    <2>2. a.op = "enqueue" /\ a.id = n /\ b.op = "checkConnected"
      BY DEF Item, Plain
    <2>3. nextID' \in Nat /\ nextID' >= nextID /\ n > nextID
      BY <1>1, <2>1
    <2> HIDE DEF a, b, n
    <2>4. calls \in Seq(S) /\ Range(calls) = S
      BY DEF Range
    <2> HIDE DEF calls
    <2>5. Moves(t, {}, {}, S)
      BY <1>1, <2>1, <2>4, BeginMoves
    <2>6. \A c \in {} \cup S : c.op \notin LaterOps \cup {"removeFirst", "issueWrite"}
      BY <2>2 DEF LaterOps, HandledOps
    <2>7. \A i \in Waiting' : i \in Waiting \/ i > nextID
      <3>1. \A i \in InCall({"enqueue"})' : i \in InCall({"enqueue"}) \/ i = n
        <4>1. \A u \in Threads : \A c \in CallsOf(u)' : c \in CallsOf(u) \/ c \in {a, b}
          BY <2>5 DEF Moves
        <4> QED BY <2>2, <4>1 DEF InCall
      <3> QED BY <2>1, <2>3, <3>1 DEF Waiting, Queued
    <2>8. /\ OnTheWay' \subseteq OnTheWay /\ store \ InCall(LaterOps) \subseteq store'
          /\ sent' \subseteq sent \cup OnTheWay
      BY <2>1, SameTraffic
    <2> HIDE DEF S
    <2> QED BY <2>3, <2>5, <2>6, <2>7, <2>8, StagedKept
  <1>4. ASSUME NEW l \in Loops, ReadCallback(t, l) PROVE Staged'
    <2>1. todo[t] = <<>> /\ UNCHANGED <<store, nextID, sendQueue, sent>>
      BY <1>4 DEF ReadCallback, Idle
    <2>2. OnTheWay' \subseteq OnTheWay
      BY <1>4, HandlerTraffic DEF IndInv
    <2>3. Range(rd[l].data) \subseteq OnTheWay
      <3>1. rd[l].data \in Seq(IDs)
        BY DEF IndInv, TypeOK, LoopRec
      <3>2. Range(rd[l].data) \subseteq IDs
        BY <3>1 DEF Range
      <3> QED BY <3>2 DEF OnTheWay
    <2>4. PICK S : \E calls \in Seq(S) :
            /\ todo' = [todo EXCEPT ![t] = calls]
            /\ \A k \in 1 .. Len(calls) : /\ calls[k].op \in {"findByID", "readNextBytes"}
                                          /\ calls[k].op = "findByID" => calls[k].id \in Range(rd[l].data)
      BY <1>4, ReadHandlerCalls
    <2>5. PICK calls \in Seq(S) :
            /\ todo' = [todo EXCEPT ![t] = calls]
            /\ \A k \in 1 .. Len(calls) : /\ calls[k].op \in {"findByID", "readNextBytes"}
                                          /\ calls[k].op = "findByID" => calls[k].id \in Range(rd[l].data)
      BY <2>4
    <2>6. \A k \in 1 .. Len(calls) : calls[k].op \in ItemCalls =>
            calls[k].op = "findByID" /\ calls[k].id \in OnTheWay
      BY <2>3, <2>5 DEF ItemCalls
    <2>7. sent' \subseteq sent \cup OnTheWay
      BY <2>1
    <2> QED BY <1>2, <2>1, <2>2, <2>5, <2>6, <2>7
  <1>5. ASSUME NEW a, todo[t] = <<>>, todo' = [todo EXCEPT ![t] = <<a>>], a.op \notin ItemCalls,
               OnTheWay' \subseteq OnTheWay, UNCHANGED <<store, nextID, sendQueue>>,
               sent' \subseteq sent \cup OnTheWay
        PROVE  Staged'
    <2> DEFINE S == {a}
               calls == <<a>>
    <2>1. calls \in Seq(S) /\ \A k \in 1 .. Len(calls) : calls[k].op \notin ItemCalls
      BY <1>5
    <2>2. todo' = [todo EXCEPT ![t] = calls]
      BY <1>5
    <2> HIDE DEF S, calls
    <2> QED BY <1>2, <1>5, <2>1, <2>2
  <1>6. ASSUME NEW l \in Loops, WriteCallback(t, l) PROVE Staged'
    <2>1. todo[t] = <<>> /\ UNCHANGED <<store, nextID, sendQueue>>
      BY <1>6 DEF WriteCallback, Idle
    <2>2. OnTheWay' \subseteq OnTheWay
      BY <1>6, HandlerTraffic DEF IndInv
    <2>3. wr[l].op = "ok" /\ sent' = sent \cup {Head(wr[l].data)}
      BY <1>6, WriteHandlerCalls
    <2>4. Head(wr[l].data) \in OnTheWay
      <3>1. wr[l].data \in Seq(IDs) /\ wr[l].data # <<>>
        BY <2>3 DEF IndInv, TypeOK, WriteRec, LoopRec
      <3>2. Head(wr[l].data) \in IDs /\ Head(wr[l].data) \in Range(wr[l].data)
        BY <3>1, QueueOps
      <3> QED BY <3>2 DEF OnTheWay
    <2>5. PICK a : a.op = "front" /\ todo' = [todo EXCEPT ![t] = <<a>>]
      BY <1>6, WriteHandlerCalls
    <2>6. a.op \notin ItemCalls /\ sent' \subseteq sent \cup OnTheWay
      BY <2>3, <2>4, <2>5 DEF ItemCalls
    <2> QED BY <1>5, <2>1, <2>2, <2>5, <2>6
  <1>7. ASSUME NEW n \in Sockets,
               \/ ResolveCallback(t, n) \/ AsyncConnectCallback(t, n)
               \/ HandshakeCallback(t, n) \/ HeaderCallback(t, n)
        PROVE  Staged'
    <2>1. todo[t] = <<>> /\ UNCHANGED <<store, nextID, sendQueue, sent, rd, wr, wire, owed>>
      BY <1>7 DEF ResolveCallback, AsyncConnectCallback, HandshakeCallback, HeaderCallback, Handles,
                  Idle
    <2>2. OnTheWay' \subseteq OnTheWay /\ sent' \subseteq sent \cup OnTheWay
      BY <2>1, SameTraffic
    <2>3. ASSUME NEW a, todo' = [todo EXCEPT ![t] = <<a>>], a.op \in SetupCalls PROVE Staged'
      <3>1. a.op \notin ItemCalls
        BY <2>3 DEF ItemCalls, SetupCalls
      <3> QED BY <1>5, <2>1, <2>2, <2>3, <3>1
    <2>4. ASSUME todo' = [todo EXCEPT ![t] = <<Plain("insertAuth"), Plain("setConnected"),
                                               Plain("startWriting"), Plain("startReading")>>]
          PROVE  Staged'
      <3> DEFINE a == Plain("insertAuth")
                 b == Plain("setConnected")
                 c == Plain("startWriting")
                 d == Plain("startReading")
                 S == {a, b, c, d}
                 calls == <<a, b, c, d>>
      <3>1. /\ a.op = "insertAuth" /\ b.op = "setConnected" /\ c.op = "startWriting"
            /\ d.op = "startReading" /\ todo' = [todo EXCEPT ![t] = calls]
        BY <2>4 DEF Plain
      <3> HIDE DEF a, b, c, d
      <3>2. calls \in Seq(S) /\ \A k \in 1 .. Len(calls) : calls[k].op \notin ItemCalls
        BY <3>1 DEF ItemCalls
      <3> HIDE DEF S, calls
      <3> QED BY <1>2, <2>1, <2>2, <3>1, <3>2
    <2> QED BY <1>7, <2>3, <2>4, SetupHandlerCalls
  <1> QED BY <1>3, <1>4, <1>6, <1>7

\* The io_service, the network and the server move no call, and nobody moves
\* in a step that changes nothing of an item.
LEMMA StagedLeft ==
  ASSUME IndInv, Staged, UNCHANGED <<todo, store, sent, sendQueue, nextID>>,
         OnTheWay' \subseteq OnTheWay
  PROVE  Staged'
  <1>1. \A u \in Threads : CallsOf(u)' = CallsOf(u)
    BY DEF CallsOf
  <1>2. \A ops : InCall(ops)' = InCall(ops)
    BY <1>1 DEF InCall
  <1>3. Waiting' = Waiting
    BY <1>2 DEF Waiting, Queued
  <1> QED BY <1>1, <1>2, <1>3 DEF Staged


----------------------------------------------------------------------------
(* The process survives.                                                   *)

\* What the code asserts, or dereferences, is there.
LEMMA NobodyDies ==
  ASSUME NeverDiesInv, NEW t \in Threads
  PROVE  ~Dying(t)
  <1> DEFINE c == Now(t)
  <1>1. ASSUME todo[t] # <<>>
        PROVE  /\ c \in CallsOf(t) /\ c \in Call /\ c.op \notin StopOps
               /\ c.op \in ReadCalls => c.on = readCur /\ c.on \in Loops
               /\ c.op \in WriteCalls => c.on = writeCur /\ c.on \in Loops
    <2>1. c \in CallsOf(t) /\ c.op \notin StopOps
      BY <1>1, CalmNow DEF NeverDiesInv
    <2>2. c \in Call
      BY <1>1, NowIsCall DEF NeverDiesInv, IndInv, TypeOK
    <2>3. c.op \in ReadCalls \cup WriteCalls => c.on \in Loops
      BY <2>2 DEF Call
    <2> QED BY <2>1, <2>2, <2>3 DEF NeverDiesInv, CalmInv, OneLoop
  <1>2. ~DerefFreedLoop(t)
    BY <1>1 DEF DerefFreedLoop, At, Now, Freed, ReadCalls, WriteCalls
  <1>3. ASSUME At(t, "issueWrite") PROVE c.id \notin sent /\ c.id \in owns
    <2>1. c \in CallsOf(t) /\ c.op = "issueWrite"
      BY <1>1, <1>3 DEF At, Now
    <2> QED BY <2>1 DEF NeverDiesInv, Staged, IndInv, Ownership
  <1>4. ~DerefNullRequest(t)
    <2>1. store \subseteq owns
      BY DEF NeverDiesInv, IndInv, Ownership
    <2> QED BY <1>3, <2>1 DEF DerefNullRequest
  <1>5. ~DerefNullSocket(t)
    <2>1. ASSUME todo[t] # <<>>, c.op \in UseOps PROVE socket # NoSocket
      BY <2>1, CalmNow, OneAttempt DEF NeverDiesInv
    <2>2. NoLoop \notin Loops
      BY OneAttempt DEF NeverDiesInv
    <2>3. ASSUME At(t, "issueWrite") PROVE wr[c.on].sock # NoSocket
      <3>1. todo[t] # <<>> /\ c.op \in WriteCalls /\ c.op \in UseOps
        BY <2>3 DEF At, Now, WriteCalls, UseOps
      <3> QED BY <1>1, <2>1, <2>2, <3>1 DEF NeverDiesInv, CalmInv, OneLoop
    <2>4. ASSUME At(t, "issueRead") PROVE rd[c.on].sock # NoSocket
      <3>1. todo[t] # <<>> /\ c.op \in ReadCalls /\ c.op \in UseOps
        BY <2>4 DEF At, Now, ReadCalls, UseOps
      <3> QED BY <1>1, <2>1, <2>2, <3>1 DEF NeverDiesInv, CalmInv, OneLoop
    <2>5. ASSUME At(t, "handshake") \/ At(t, "finishInit") PROVE socket # NoSocket
      <3>1. Busy({"handshake", "finishInit"})
        BY <1>1, <2>5 DEF At, Now, Busy
      <3> QED BY <3>1 DEF NeverDiesInv, CalmInv, HeaderFirst
    <2> QED BY <2>3, <2>4, <2>5 DEF DerefNullSocket
  <1>6. ~AssertFails(t)
    <2>1. ~At(t, "restart")
      BY <1>1 DEF At, Now, StopOps
    <2>2. ASSUME At(t, "initSocket") PROVE socket = NoSocket
      <3>1. c \in CallsOf(t) /\ c.op = "initSocket" /\ c.on \in Sockets
        BY <1>1, <2>2 DEF At, Now, Call, SetupCalls
      <3>2. BusyOn({"initSocket"}, c.on) /\ BusyOn(SetupCalls, c.on)
        BY <3>1 DEF BusyOn, SetupCalls
      <3>3. c.on = 1
        BY <3>1, <3>2, OneAttempt DEF NeverDiesInv
      <3>4. socket # 1
        BY <3>1, <3>2, <3>3 DEF NeverDiesInv, CalmInv, WriteInv, Untouched, Unmade
      <3> QED BY <3>4 DEF NeverDiesInv, CalmInv, HeaderFirst
    <2> QED BY <1>3, <2>1, <2>2 DEF AssertFails
  <1> QED BY <1>2, <1>4, <1>5, <1>6 DEF Dying

\* The authentication request joins the queue while no loop takes from it.
LEMMA StoreStep ==
  ASSUME CalmInv, IndInv, AuthFirst, [Next]_vars
  PROVE  IndInv'
  <1>1. CASE ~Auth \/ \A t \in Threads : ~InsertAuthenticationRequests(t)
    BY <1>1, IndKept
  <1>2. ASSUME NEW t \in Threads, Auth, InsertAuthenticationRequests(t) PROVE IndInv'
    <2>1. TypeOK' /\ todo \in [Threads -> Seq(Call)]
      BY TypeStep DEF IndInv, TypeOK
    <2>2. todo[t] # <<>> /\ Now(t).op = "insertAuth"
      BY <1>2 DEF InsertAuthenticationRequests, At, Now
    <2>3. Now(t) \in CallsOf(t)
      BY <2>2, CalmNow
    <2>4. writeCur = NoLoop
      BY <2>2, <2>3 DEF AuthFirst
    <2>5. ~Busy(WriteCalls)
      BY <2>1, <2>4, LoopFree DEF CalmInv
    <2>6. ~Busy(LockOps)
      BY <2>5 DEF Busy, WriteCalls, LockOps
    <2> QED BY <1>2, <2>1, <2>6, KeptByInsertAuth
  <1> QED BY <1>1, <1>2

LEMMA NeverDiesInit == Init => NeverDiesInv
  <1>1. SUFFICES ASSUME Init PROVE NeverDiesInv
    OBVIOUS
  <1>2. CalmInv /\ IndInv
    BY <1>1, CalmInit, IndInit
  <1>3. \A t \in Threads : CallsOf(t) = {}
    BY <1>1 DEF Init, CallsOf
  <1>4. ~Busy(EstablishOps)
    BY <1>3 DEF Busy
  <1>5. AuthFirst
    BY <1>1, <1>3, <1>4 DEF AuthFirst, Init
  <1>6. Staged
    BY <1>1, <1>3 DEF Staged, Init
  <1>7. NeverDies
    BY <1>1 DEF Init, NeverDies
  <1> QED BY <1>2, <1>5, <1>6, <1>7 DEF NeverDiesInv

\* The invariant is inductive.
LEMMA NeverDiesStep ==
  ASSUME MaxFaults = 0, MaxTimeouts = 0, NeverDiesInv, [Next]_vars
  PROVE  NeverDiesInv'
  <1> USE DEF itemVars, queueVars, connVars, loopVars, setupVars, netVars, budgetVars, outsideVars
  <1>1. CalmInv /\ IndInv /\ AuthFirst /\ Staged /\ NeverDies
    BY DEF NeverDiesInv
  <1>2. CalmInv' /\ IndInv'
    BY <1>1, CalmStep, StoreStep
  <1>3. CASE UNCHANGED vars
    <2>1. UNCHANGED <<todo, store, sent, sendQueue, nextID, rd, wr, wire, owed, connected, writeCur,
                      setup, crash>>
      BY <1>3 DEF vars
    <2>2. AuthFirst'
      BY <1>1, <2>1, AuthLeft
    <2>3. Staged'
      BY <1>1, <2>1, SameTraffic, StagedLeft
    <2> QED BY <1>1, <1>2, <2>1, <2>2, <2>3 DEF NeverDiesInv, NeverDies
  <1>4. CASE Next
    <2>1. CalmNext
      BY <1>1, <1>4, OnlyCalmSteps
    <2>2. ASSUME NEW t \in Threads, Dying(t) PROVE FALSE
      BY <2>2, NobodyDies
    <2>3. ASSUME NEW t \in Threads, Writing(t) \/ Reading(t) \/ Connecting(t)
          PROVE  AuthFirst' /\ Staged' /\ UNCHANGED crash
      <3>1. UNCHANGED crash
        BY <2>3 DEF Writing, Reading, Connecting, Enqueue, CheckConnected, StartWriting, Front,
           AddToStore, RemoveFirst, IssueWrite, StartReading, ReadNextBytes, IssueRead, FindByID,
           RemoveByID, MoveRequest, Invoke, InitSocket, StartSSLHandshake, FinishInitialization,
           InsertAuthenticationRequests, SetConnected, OnFailure
      <3> QED BY <1>1, <2>3, <3>1, AuthRun, StagedRun
    <2>4. ASSUME NEW t \in Threads,
                 \/ SendRequest(t)
                 \/ \E l \in Loops : ReadCallback(t, l) \/ WriteCallback(t, l)
                 \/ \E n \in Sockets : \/ ResolveCallback(t, n) \/ AsyncConnectCallback(t, n)
                                       \/ HandshakeCallback(t, n) \/ HeaderCallback(t, n)
          PROVE  AuthFirst' /\ Staged' /\ UNCHANGED crash
      <3>1. UNCHANGED crash
        BY <2>4 DEF SendRequest, ReadCallback, WriteCallback, ResolveCallback, AsyncConnectCallback,
                    HandshakeCallback, HeaderCallback, Handles
      <3> QED BY <1>1, <2>4, <3>1, AuthHandler, StagedHandler
    <2>5. ASSUME Completion \/ Server PROVE AuthFirst' /\ Staged' /\ UNCHANGED crash
      <3>1. UNCHANGED <<sent, crash>>
        BY <2>5 DEF Completion, Server, WriteCompletes, WriteFails, ReadCompletes, ReadFails,
                    SetupCompletes, Respond
      <3>2. Staged'
        BY <1>1, <2>5, <3>1, EnvironmentTraffic, StagedLeft DEF IndInv
      <3> QED BY <1>1, <2>5, <3>1, <3>2, AuthEnvironment
    <2>6. AuthFirst' /\ Staged' /\ UNCHANGED crash
      BY <2>1, <2>2, <2>3, <2>4, <2>5 DEF CalmNext
    <2> QED BY <1>1, <1>2, <2>6 DEF NeverDiesInv, NeverDies
  <1> QED BY <1>3, <1>4

\* While the network and the server do not fail and no deadline expires, no
\* assert of the connection fails and nothing is dereferenced that is not
\* there: not the raw pointers to the loops that startReading and
\* startWriting hand out, not _socket, and not the request of an item that
\* another thread may be about to move out, on any number of threads, with
\* or without SSL and authentication.
THEOREM ProcessSurvives ==
  ASSUME MaxFaults = 0, MaxTimeouts = 0
  PROVE  Spec => []NeverDies
  <1>1. Init => NeverDiesInv
    BY NeverDiesInit
  <1>2. NeverDiesInv /\ [Next]_vars => NeverDiesInv'
    BY NeverDiesStep
  <1>3. NeverDiesInv => NeverDies
    BY DEF NeverDiesInv
  <1> QED BY <1>1, <1>2, <1>3, PTL DEF Spec

\* Under the same conditions minimumTimeout finds the request of every stored
\* item also on a connection that authenticates: the authentication request
\* is put before the others while no write loop takes from the queue.
THEOREM StoreOwnedWithAuthentication ==
  ASSUME MaxFaults = 0, MaxTimeouts = 0
  PROVE  Spec => []StoreOwnsRequest
  <1>1. Init => NeverDiesInv
    BY NeverDiesInit
  <1>2. NeverDiesInv /\ [Next]_vars => NeverDiesInv'
    BY NeverDiesStep
  <1>3. NeverDiesInv => StoreOwnsRequest
    BY DEF NeverDiesInv, IndInv, Ownership, StoreOwnsRequest
  <1> QED BY <1>1, <1>2, <1>3, PTL DEF Spec

\* Under the same conditions the callback of every item, authentication
\* requests included, is called with the request it was enqueued with.
THEOREM HandedBackWithAuthentication ==
  ASSUME MaxFaults = 0, MaxTimeouts = 0
  PROVE  Spec => []HandedBack
  <1>1. Init => NeverDiesInv /\ HandInv
    BY NeverDiesInit, HandInit
  <1>2. NeverDiesInv /\ HandInv /\ [Next]_vars => NeverDiesInv' /\ HandInv'
    <2>1. NeverDiesInv /\ [Next]_vars => NeverDiesInv' /\ IndInv'
      BY NeverDiesStep DEF NeverDiesInv
    <2> QED BY <2>1, HandStep
  <1>3. HandInv => HandedBack
    BY DEF HandInv, Given, HandedBack, Answered
  <1> QED BY <1>1, <1>2, <1>3, PTL DEF Spec

----------------------------------------------------------------------------
(* No request is written before the authentication request.                *)

\* A step of one thread that keeps every part of the invariant.
LEMMA LeadsKept ==
  ASSUME AuthLeads, NEW t \in Threads, NEW old, NEW top, NEW rest, Moves(t, old, top, rest),
         UNCHANGED authIDs, sent \subseteq sent', \A c \in old : c.op # "insertAuth",
         Unwritten =>
           /\ authIDs = {} =>
                /\ ~connected' /\ writeCur' = NoLoop
                /\ \A c \in top \cup rest : c.op \notin {"setConnected", "startWriting"}
           /\ \A c \in top \cup rest : c.op \in HandOverOps => c.id \in authIDs
           /\ \A l \in Loops : wr'[l].op # "idle" => Head(wr'[l].data) \in authIDs
           /\ AuthNext'
  PROVE  AuthLeads'
  <1> SUFFICES ASSUME Unwritten'
               PROVE  /\ authIDs = {} => NotBegun'
                      /\ \A u \in Threads : \A c \in CallsOf(u)' :
                           c.op \in HandOverOps => c.id \in authIDs
                      /\ \A l \in Loops : wr'[l].op # "idle" => Head(wr'[l].data) \in authIDs
                      /\ AuthNext'
    BY DEF AuthLeads
  <1>1. Unwritten
    BY DEF Unwritten
  <1>2. /\ \A u \in Threads : \A c \in CallsOf(u)' : c \in CallsOf(u) \/ (u = t /\ c \in top \cup rest)
        /\ \A u \in Threads : \A c \in CallsOf(u) : c \in CallsOf(u)' \/ c \in old
    BY DEF Moves
  <1>3. ASSUME authIDs = {} PROVE NotBegun'
    <2>1. NotBegun
      BY <1>1, <1>3 DEF AuthLeads
    <2>2. ASSUME NEW u \in Threads, NEW c \in CallsOf(u)', c.op \in {"setConnected", "startWriting"}
          PROVE  \E d \in CallsOf(u)' : d.op = "insertAuth"
      <3>1. c \in CallsOf(u)
        BY <1>1, <1>2, <1>3, <2>2
      <3>2. PICK d \in CallsOf(u) : d.op = "insertAuth"
        BY <2>1, <2>2, <3>1 DEF NotBegun
      <3> QED BY <1>2, <3>2
    <2>3. ~connected' /\ writeCur' = NoLoop
      BY <1>1, <1>3
    <2> QED BY <2>2, <2>3 DEF NotBegun
  <1>4. \A u \in Threads : \A c \in CallsOf(u)' : c.op \in HandOverOps => c.id \in authIDs
    BY <1>1, <1>2 DEF AuthLeads
  <1> QED BY <1>1, <1>3, <1>4

\* A step of one thread that leaves the queue and the writes alone.
LEMMA LeadsQuiet ==
  ASSUME AuthLeads, NEW t \in Threads, NEW old, NEW top, NEW rest, Moves(t, old, top, rest),
         UNCHANGED <<authIDs, sent, sendQueue, wr>>,
         \A c \in old : c.op \notin {"insertAuth", "issueWrite"},
         Unwritten =>
           /\ authIDs = {} =>
                /\ ~connected' /\ writeCur' = NoLoop
                /\ \A c \in top \cup rest : c.op \notin {"setConnected", "startWriting"}
           /\ \A c \in top \cup rest : c.op \in HandOverOps => c.id \in authIDs
  PROVE  AuthLeads'
  <1>1. Busy({"issueWrite"}) => Busy({"issueWrite"})'
    BY DEF Busy, Moves
  <1>2. Unwritten => AuthNext'
    BY <1>1 DEF AuthLeads, AuthNext
  <1>3. Unwritten => \A l \in Loops : wr'[l].op # "idle" => Head(wr'[l].data) \in authIDs
    BY DEF AuthLeads
  <1> QED BY <1>2, <1>3, LeadsKept

\* Before the authentication request is queued, the calls that would start
\* the write loop are below the one that queues it, and no loop runs.
LEMMA LeadsBegun ==
  ASSUME CalmInv, AuthFirst, AuthLeads, Unwritten, NEW t \in Threads, todo[t] # <<>>,
         Now(t).op \in {"setConnected", "startWriting"} \cup WriteCalls
  PROVE  authIDs # {}
  <1> SUFFICES ASSUME authIDs = {} PROVE FALSE
    OBVIOUS
  <1>1. NotBegun
    BY DEF AuthLeads
  <1>2. todo \in [Threads -> Seq(Call)] /\ Now(t) \in CallsOf(t)
    BY CalmNow DEF CalmInv, WriteInv, TypeOK
  <1>3. CASE Now(t).op \in WriteCalls
    <2>1. ~Busy(WriteCalls)
      BY <1>1, <1>2, LoopFree DEF CalmInv, NotBegun
    <2> QED BY <1>2, <1>3, <2>1 DEF Busy
  <1>4. CASE Now(t).op \in {"setConnected", "startWriting"}
    <2>1. PICK d \in CallsOf(t) : d.op = "insertAuth"
      BY <1>1, <1>2, <1>4 DEF NotBegun
    <2>2. d \in Below(t)
      BY <1>2, <1>4, <2>1, StackSplit
    <2> QED BY <2>1, <2>2 DEF AuthFirst
  <1> QED BY <1>3, <1>4

\* The calls of the threads.
LEMMA LeadsRun ==
  ASSUME CalmInv, AuthFirst, AuthLeads, NEW t \in Threads,
         Writing(t) \/ Reading(t) \/ Connecting(t)
  PROVE  AuthLeads'
  <1> USE DEF itemVars, queueVars, connVars, loopVars, setupVars, netVars, budgetVars, outsideVars
  <1> DEFINE c == Now(t)
             Starts == {"setConnected", "startWriting"}
             Led == \A l \in Loops : wr'[l].op # "idle" => Head(wr'[l].data) \in authIDs
  <1>1. /\ todo[t] # <<>> /\ todo \in [Threads -> Seq(Call)] /\ sendQueue \in Seq(IDs)
        /\ wr \in [Loops -> WriteRec] /\ c \in CallsOf(t) /\ c \in Call
    BY CalmRun, CalmNow, NowIsCall DEF CalmInv, WriteInv, TypeOK
  <1>2. /\ Unwritten => Busy({"issueWrite"}) \/ authIDs = {} \/ (\E l \in Loops : wr[l].op # "idle")
                         \/ (sendQueue # <<>> /\ Head(sendQueue) \in authIDs)
        /\ Unwritten => \A l \in Loops : wr[l].op # "idle" => Head(wr[l].data) \in authIDs
        /\ Unwritten /\ c.op \in HandOverOps => c.id \in authIDs
        /\ Unwritten /\ authIDs = {} => ~connected /\ writeCur = NoLoop
        /\ Unwritten /\ c.op \in Starts \cup WriteCalls => authIDs # {}
    BY <1>1, LeadsBegun DEF AuthLeads, AuthNext, NotBegun
  <1>3. /\ Return(t) => Moves(t, {c}, {}, {})
        /\ \A a : Then(t, <<a>>) => Moves(t, {c}, {a}, {})
        /\ \A a, b : Then(t, <<a, b>>) => Moves(t, {c}, {}, {a, b})
    BY <1>1, ThenMoves
  <1>4. ASSUME UNCHANGED <<authIDs, sent, sendQueue, wr, connected, writeCur>>,
               c.op \notin {"insertAuth", "issueWrite"},
               Return(t) \/ \E a : a.op \notin Starts \cup HandOverOps /\ Then(t, <<a>>)
        PROVE  AuthLeads'
    BY <1>2, <1>3, <1>4, LeadsQuiet
  <1>5. CASE StartReading(t) \/ ReadNextBytes(t) \/ IssueRead(t) \/ FindByID(t) \/ RemoveByID(t)
               \/ MoveRequest(t) \/ Invoke(t)
    <2>1. /\ UNCHANGED <<authIDs, sent, sendQueue, wr, connected, writeCur>>
          /\ c.op \notin {"insertAuth", "issueWrite"}
      BY <1>5 DEF StartReading, ReadNextBytes, IssueRead, FindByID, RemoveByID, MoveRequest, Invoke, At, Now
    <2>2. Return(t) \/ \E a : a.op \notin Starts \cup HandOverOps /\ Then(t, <<a>>)
      BY <1>5 DEF StartReading, ReadNextBytes, IssueRead, FindByID, CompletedCalls, RemoveByID, MoveRequest,
                  Invoke, Return, On, Item, Plain, HandOverOps
    <2> QED BY <1>4, <2>1, <2>2
  <1>6. CASE InitSocket(t) \/ StartSSLHandshake(t) \/ FinishInitialization(t) \/ OnFailure(t)
    BY <1>4, <1>6 DEF InitSocket, StartSSLHandshake, FinishInitialization, OnFailure, At, Now
  <1>7. CASE CheckConnected(t)
    <2>1. /\ UNCHANGED <<authIDs, sent, sendQueue, wr, connected, writeCur>> /\ c.op = "checkConnected"
          /\ Return(t) \/ (connected /\ Then(t, <<Plain("startWriting")>>))
      BY <1>7 DEF CheckConnected, Return, At, Now
    <2>2. ASSUME NEW a, a.op = "startWriting", connected, Then(t, <<a>>) PROVE AuthLeads'
      <3>1. Moves(t, {c}, {a}, {}) /\ \A d \in {a} \cup {} : d.op \notin HandOverOps
        BY <1>3, <2>2 DEF HandOverOps
      <3>2. /\ UNCHANGED <<authIDs, sent, sendQueue, wr>>
            /\ \A d \in {c} : d.op \notin {"insertAuth", "issueWrite"}
            /\ Unwritten => authIDs # {}
        BY <1>2, <2>1, <2>2
      <3> QED BY <3>1, <3>2, LeadsQuiet
    <2>3. Plain("startWriting").op = "startWriting"
      BY DEF Plain
    <2>4. c.op \notin {"insertAuth", "issueWrite"}
      BY <2>1
    <2> QED BY <1>4, <2>1, <2>2, <2>3, <2>4
  <1>8. CASE Enqueue(t)
    <2>1. /\ UNCHANGED <<authIDs, sent, wr, connected, writeCur>> /\ c.op = "enqueue" /\ Return(t)
          /\ sendQueue' = Append(sendQueue, c.id)
      BY <1>8 DEF Enqueue, At, Now
    <2>2. sendQueue # <<>> => sendQueue' # <<>> /\ Head(sendQueue') = Head(sendQueue)
      BY <1>1, <2>1
    <2>3. Busy({"issueWrite"}) => Busy({"issueWrite"})'
      BY <1>3, <2>1 DEF Busy, Moves
    <2>4. Unwritten => AuthNext'
      BY <1>2, <2>1, <2>2, <2>3 DEF AuthNext
    <2>5. \A d \in {c} : d.op # "insertAuth"
      BY <2>1
    <2> QED BY <1>2, <1>3, <2>1, <2>4, <2>5, LeadsKept
  <1>9. CASE StartWriting(t)
    <2>1. CASE Return(t) /\ UNCHANGED <<authIDs, sent, sendQueue, wr, connected, writeCur>>
      BY <1>4, <1>9, <2>1 DEF StartWriting, At, Now
    <2>2. ASSUME NEW l \in Loops, wr' = [wr EXCEPT ![l] = NewLoop(socket)], wr[l].op = "idle",
                 UNCHANGED <<authIDs, sent, sendQueue, connected>>, c.op = "startWriting",
                 NEW a, a.op = "front", Then(t, <<a>>)
          PROVE  AuthLeads'
      <3>1. \A k \in Loops : wr'[k].op # "idle" => wr'[k] = wr[k]
        BY <1>1, <2>2 DEF NewLoop
      <3>2. \A k \in Loops : wr[k].op # "idle" => wr'[k] = wr[k]
        BY <1>1, <2>2
      <3>3. Busy({"issueWrite"}) => Busy({"issueWrite"})'
        BY <1>3, <2>2 DEF Busy, Moves
      <3>4. Unwritten => AuthNext' /\ Led
        BY <1>2, <2>2, <3>1, <3>2, <3>3 DEF AuthNext
      <3>5. /\ Moves(t, {c}, {a}, {}) /\ \A d \in {c} : d.op # "insertAuth"
            /\ \A d \in {a} \cup {} : d.op \notin HandOverOps
            /\ Unwritten => authIDs # {}
        BY <1>2, <1>3, <2>2 DEF HandOverOps
      <3> QED BY <2>2, <3>4, <3>5, LeadsKept
    <2>3. \A l : On("front", l, FALSE).op = "front"
      BY DEF On
    <2>4. c.op = "startWriting" /\ UNCHANGED <<authIDs, sent, sendQueue, connected>>
      BY <1>9 DEF StartWriting, At, Now
    <2>5. CASE Return(t) /\ UNCHANGED <<writeCur, wr>>
      BY <2>1, <2>4, <2>5
    <2>6. CASE \E l \in Loops : /\ NextLoop(l, wr, writeCur, WriteCalls)
                               /\ wr' = [wr EXCEPT ![l] = NewLoop(socket)]
                               /\ Then(t, <<On("front", l, FALSE)>>)
      BY <2>2, <2>3, <2>4, <2>6 DEF NextLoop, Unused
    <2> QED BY <1>9, <2>5, <2>6 DEF StartWriting
  <1>10. CASE AddToStore(t)
    <2> DEFINE a == Send("removeFirst", c.on, c.id, c.held)
    <2>1. /\ UNCHANGED <<authIDs, sent, sendQueue, wr, connected, writeCur>> /\ c.op = "addToStore"
          /\ Then(t, <<a>>) /\ a.op = "removeFirst" /\ a.id = c.id
      BY <1>10 DEF AddToStore, At, Now, Send
    <2> HIDE DEF a
    <2>2. /\ Moves(t, {c}, {a}, {}) /\ \A d \in {a} \cup {} : d.op = "removeFirst" /\ d.id = c.id
          /\ \A d \in {c} : d.op \notin {"insertAuth", "issueWrite"}
      BY <1>3, <2>1
    <2>3. Unwritten => c.id \in authIDs /\ authIDs # {}
      BY <1>2, <2>1 DEF HandOverOps, WriteCalls
    <2> QED BY <2>1, <2>2, <2>3, LeadsQuiet
  <1>11. CASE Front(t)
    <2>1. UNCHANGED <<authIDs, sent, sendQueue, wr, connected>> /\ c.op = "front"
      BY <1>11 DEF Front, At, Now
    <2>2. CASE Return(t) /\ writeCur' \in {writeCur, NoLoop}
      <3>1. /\ Moves(t, {c}, {}, {}) /\ \A d \in {c} : d.op \notin {"insertAuth", "issueWrite"}
            /\ Unwritten => authIDs # {}
        BY <1>2, <1>3, <2>1, <2>2 DEF WriteCalls
      <3> QED BY <2>1, <3>1, LeadsQuiet
    <2>3. ASSUME sendQueue # <<>>, NEW a, a.op = "addToStore", a.id = Head(sendQueue), Then(t, <<a>>)
          PROVE  AuthLeads'
      <3>1. /\ Moves(t, {c}, {a}, {}) /\ \A d \in {a} \cup {} : d.op = "addToStore" /\ d.id = Head(sendQueue)
            /\ \A d \in {c} : d.op \notin {"insertAuth", "issueWrite"}
        BY <1>3, <2>1, <2>3
      <3>2. Sole(WriteCalls) /\ c.op \in WriteCalls
        BY <2>1 DEF CalmInv, OneLoop, WriteCalls
      <3>3. ~Busy({"issueWrite"})
        <4>1. /\ \A d \in Below(t) : d.op \notin WriteCalls
              /\ \A u \in Threads \ {t} : \A d \in CallsOf(u) : d.op \notin WriteCalls
          BY <1>1, <3>2, SoleNow
        <4>2. CallsOf(t) = {c} \cup Below(t)
          BY <1>1, StackSplit
        <4> QED BY <2>1, <4>1, <4>2 DEF Busy, WriteCalls
      <3>4. \A l \in Loops : wr[l].op = "idle"
        BY <1>1, <3>2 DEF CalmInv, OneLoop
      <3>5. Unwritten => authIDs # {} /\ Head(sendQueue) \in authIDs
        BY <1>2, <3>2, <3>3, <3>4
      <3> QED BY <2>1, <3>1, <3>5, LeadsQuiet
    <2>4. LET a == Send("addToStore", c.on, Head(sendQueue), c.held)
          IN  a.op = "addToStore" /\ a.id = Head(sendQueue)
      BY DEF Send
    <2>5. \/ Return(t) /\ writeCur' \in {writeCur, NoLoop}
          \/ sendQueue # <<>> /\ Then(t, <<Send("addToStore", c.on, Head(sendQueue), c.held)>>)
      BY <1>11 DEF Front
    <2> QED BY <2>2, <2>3, <2>4, <2>5
  <1>12. CASE RemoveFirst(t)
    <2> DEFINE a == Plain("startReading")
               b == Send("issueWrite", c.on, c.id, c.held)
    <2>1. /\ UNCHANGED <<authIDs, sent, wr, connected, writeCur>> /\ c.op = "removeFirst"
          /\ Then(t, <<a, b>>)
          /\ a.op = "startReading" /\ b.op = "issueWrite" /\ b.id = c.id
      BY <1>12 DEF RemoveFirst, WriteCallsFor, At, Now, Plain, Send
    <2> HIDE DEF a, b
    <2>2. /\ Moves(t, {c}, {}, {a, b}) /\ \A d \in {c} : d.op # "insertAuth"
          /\ \A d \in {} \cup {a, b} : d.op = "startReading" \/ (d.op = "issueWrite" /\ d.id = c.id)
      BY <1>3, <2>1
    <2>3. Busy({"issueWrite"})'
      BY <2>1, <2>2 DEF Busy, Moves
    <2>4. Unwritten => AuthNext' /\ c.id \in authIDs /\ authIDs # {}
      BY <1>2, <2>1, <2>3 DEF AuthNext, HandOverOps, WriteCalls
    <2>5. \A d \in {} \cup {a, b} : d.op \notin Starts /\ (d.op \in HandOverOps => d.id = c.id)
      BY <2>2 DEF HandOverOps
    <2> QED BY <1>2, <2>1, <2>2, <2>4, <2>5, LeadsKept
  <1>13. CASE IssueWrite(t)
    <2> DEFINE r == Started(wr[c.on], <<c.id>>)
    <2>1. /\ UNCHANGED <<authIDs, sent, sendQueue, connected, writeCur>> /\ c.op = "issueWrite"
          /\ Return(t) /\ wr' = [wr EXCEPT ![c.on] = r] /\ r.op # "idle" /\ r.data = <<c.id>>
      BY <1>13 DEF IssueWrite, At, Now, Started
    <2> HIDE DEF r
    <2>2. c.on \in Loops /\ Head(r.data) = c.id
      BY <1>1, <2>1 DEF Call, WriteCalls
    <2>3. Unwritten => c.id \in authIDs /\ authIDs # {}
      BY <1>2, <2>1 DEF HandOverOps, WriteCalls
    <2>4. Unwritten => AuthNext' /\ Led
      BY <1>1, <1>2, <2>1, <2>2, <2>3 DEF AuthNext
    <2>5. Moves(t, {c}, {}, {}) /\ \A d \in {c} : d.op # "insertAuth"
      BY <1>3, <2>1
    <2> QED BY <2>1, <2>3, <2>4, <2>5, LeadsKept
  <1>14. CASE SetConnected(t)
    <2>1. /\ UNCHANGED <<authIDs, sent, sendQueue, wr, writeCur>> /\ c.op = "setConnected" /\ Return(t)
      BY <1>14 DEF SetConnected, At, Now
    <2>2. /\ Moves(t, {c}, {}, {}) /\ \A d \in {c} : d.op \notin {"insertAuth", "issueWrite"}
          /\ Unwritten => authIDs # {}
      BY <1>2, <1>3, <2>1
    <2> QED BY <2>1, <2>2, LeadsQuiet
  <1>15. CASE InsertAuthenticationRequests(t)
    <2> DEFINE n == nextID + 1
               q == sendQueue
    <2> SUFFICES ASSUME Unwritten' PROVE AuthLeads'
      BY DEF AuthLeads
    <2>1. /\ UNCHANGED <<sent, wr>> /\ Return(t)
          /\ authIDs' = authIDs \cup {n} /\ sendQueue' = <<n>> \o q
      BY <1>15 DEF InsertAuthenticationRequests, Unwritten
    <2>2. Unwritten /\ n \in authIDs' /\ authIDs \subseteq authIDs'
      BY <2>1 DEF Unwritten
    <2> HIDE DEF n
    <2>3. sendQueue' # <<>> /\ Head(sendQueue') = n
      BY <1>1, <2>1
    <2>4. AuthNext'
      BY <2>2, <2>3 DEF AuthNext
    <2>5. \A u \in Threads : \A d \in CallsOf(u)' : d.op \in HandOverOps => d.id \in authIDs'
      BY <1>3, <2>1, <2>2 DEF AuthLeads, Moves
    <2>6. \A l \in Loops : wr'[l].op # "idle" => Head(wr'[l].data) \in authIDs'
      BY <1>2, <2>1, <2>2
    <2> QED BY <2>2, <2>4, <2>5, <2>6 DEF AuthLeads
  <1> QED BY <1>5, <1>6, <1>7, <1>8, <1>9, <1>10, <1>11, <1>12, <1>13, <1>14, <1>15
          DEF Writing, Reading, Connecting

\* sendRequest and the handlers.
LEMMA LeadsHandler ==
  ASSUME CalmInv, AuthFirst, AuthLeads, NEW t \in Threads,
         \/ SendRequest(t)
         \/ \E l \in Loops : ReadCallback(t, l) \/ WriteCallback(t, l)
         \/ \E n \in Sockets : \/ ResolveCallback(t, n) \/ AsyncConnectCallback(t, n)
                               \/ HandshakeCallback(t, n) \/ HeaderCallback(t, n)
  PROVE  AuthLeads'
  <1> USE DEF itemVars, queueVars, connVars, loopVars, setupVars, netVars, budgetVars, outsideVars
  <1> DEFINE Starts == {"setConnected", "startWriting"}
  <1>1. todo \in [Threads -> Seq(Call)]
    BY DEF CalmInv, WriteInv, TypeOK
  <1>2. ASSUME NEW S, NEW calls \in Seq(S), todo[t] = <<>>, todo' = [todo EXCEPT ![t] = calls],
               \A k \in 1 .. Len(calls) : calls[k].op \notin Starts \cup HandOverOps,
               connected' => connected, UNCHANGED <<authIDs, sent, sendQueue, wr, writeCur>>
        PROVE  AuthLeads'
    <2>1. Moves(t, {}, {}, Range(calls))
      BY <1>1, <1>2, BeginMoves
    <2>2. \A c \in {} \cup Range(calls) : c.op \notin Starts \cup HandOverOps
      BY <1>2 DEF Range
    <2>3. Unwritten /\ authIDs = {} => ~connected' /\ writeCur' = NoLoop
      BY <1>2 DEF AuthLeads, NotBegun
    <2>4. \A c \in {} : c.op \notin {"insertAuth", "issueWrite"}
      OBVIOUS
    <2> QED BY <1>2, <2>1, <2>2, <2>3, <2>4, LeadsQuiet
  <1>3. CASE SendRequest(t)
    <2> DEFINE a == Item("enqueue", nextID + 1, "none")
               b == Plain("checkConnected")
               S == {a, b}
               calls == <<a, b>>
    <2>1. /\ todo[t] = <<>> /\ todo' = [todo EXCEPT ![t] = calls]
          /\ UNCHANGED <<authIDs, sent, sendQueue, wr, connected, writeCur>>
      BY <1>3 DEF SendRequest, SendCalls, Idle
    <2>2. a.op = "enqueue" /\ b.op = "checkConnected"
      BY DEF Item, Plain
    <2> HIDE DEF a, b
    <2>3. calls \in Seq(S) /\ \A k \in 1 .. Len(calls) : calls[k].op \notin Starts \cup HandOverOps
      BY <2>2 DEF HandOverOps
    <2> HIDE DEF S, calls
    <2> QED BY <1>2, <2>1, <2>3
  <1>4. ASSUME NEW l \in Loops, ReadCallback(t, l) PROVE AuthLeads'
    <2>1. todo[t] = <<>>
      BY <1>4, ReadHandlerCalls
    <2>5. UNCHANGED <<authIDs, sent, sendQueue, wr, connected, writeCur>>
      BY <1>4 DEF ReadCallback
    <2>2. PICK S : \E calls \in Seq(S) :
            /\ todo' = [todo EXCEPT ![t] = calls]
            /\ \A k \in 1 .. Len(calls) : calls[k].op \in {"findByID", "readNextBytes"}
      BY <1>4, ReadHandlerCalls
    <2>3. PICK calls \in Seq(S) :
            /\ todo' = [todo EXCEPT ![t] = calls]
            /\ \A k \in 1 .. Len(calls) : calls[k].op \in {"findByID", "readNextBytes"}
      BY <2>2
    <2>4. \A k \in 1 .. Len(calls) : calls[k].op \notin Starts \cup HandOverOps
      BY <2>3 DEF HandOverOps
    <2> QED BY <1>2, <2>1, <2>3, <2>4, <2>5
  \* A request was written: by the invariant, an authentication request.
  <1>5. ASSUME NEW l \in Loops, WriteCallback(t, l) PROVE AuthLeads'
    <2>1. wr[l].op = "ok" /\ sent' = sent \cup {Head(wr[l].data)} 
      BY <1>5, WriteHandlerCalls
    <2>2. UNCHANGED authIDs
      BY <1>5 DEF WriteCallback
    <2>3. Unwritten => Head(wr[l].data) \in authIDs
      BY <2>1 DEF AuthLeads
    <2> QED BY <2>1, <2>2, <2>3 DEF AuthLeads, Unwritten
  <1>6. ASSUME NEW n \in Sockets,
               \/ ResolveCallback(t, n) \/ AsyncConnectCallback(t, n)
               \/ HandshakeCallback(t, n) \/ HeaderCallback(t, n)
        PROVE  AuthLeads'
    <2>1. /\ todo[t] = <<>> /\ setup[n].kind # "none" /\ UNCHANGED <<wr, writeCur>>
          /\ connected' => connected
          /\ UNCHANGED <<authIDs, sent, sendQueue>>
      BY <1>6, SetupHandlerCalls DEF ResolveCallback, AsyncConnectCallback, HandshakeCallback,
                                     HeaderCallback, Handles
    <2>2. ASSUME NEW a, todo' = [todo EXCEPT ![t] = <<a>>], a.op \in SetupCalls PROVE AuthLeads'
      <3> DEFINE S == {a}
                 calls == <<a>>
      <3>1. /\ calls \in Seq(S) /\ todo' = [todo EXCEPT ![t] = calls]
            /\ \A k \in 1 .. Len(calls) : calls[k].op \notin Starts \cup HandOverOps
        BY <2>2 DEF SetupCalls, HandOverOps
      <3> HIDE DEF S, calls
      <3> QED BY <1>2, <2>1, <3>1
    <2>3. ASSUME todo' = [todo EXCEPT ![t] = <<Plain("insertAuth"), Plain("setConnected"),
                                               Plain("startWriting"), Plain("startReading")>>]
          PROVE  AuthLeads'
      <3> DEFINE a == Plain("insertAuth")
                 b == Plain("setConnected")
                 c == Plain("startWriting")
                 d == Plain("startReading")
                 S == {a, b, c, d}
                 calls == <<a, b, c, d>>
      <3>1. /\ a.op = "insertAuth" /\ b.op = "setConnected" /\ c.op = "startWriting"
            /\ d.op = "startReading" /\ todo' = [todo EXCEPT ![t] = calls]
        BY <2>3 DEF Plain
      <3> HIDE DEF a, b, c, d
      <3>2. calls \in Seq(S) /\ Range(calls) = {a, b, c, d}
        BY DEF Range
      <3> HIDE DEF S, calls
      <3>3. /\ CallsOf(t)' = {a, b, c, d} /\ CallsOf(t) = {}
            /\ \A u \in Threads \ {t} : CallsOf(u)' = CallsOf(u)
        BY <1>1, <2>1, <3>1, <3>2, StackHandler
      <3> SUFFICES ASSUME Unwritten' PROVE AuthLeads'
        BY DEF AuthLeads
      <3>4. Unwritten
        BY <2>1 DEF Unwritten
      <3>5. authIDs = {} => NotBegun'
        <4>1. authIDs = {} => NotBegun
          BY <3>4 DEF AuthLeads
        <4>2. \E x \in CallsOf(t)' : x.op = "insertAuth"
          BY <3>1, <3>3
        <4> QED BY <2>1, <3>3, <4>1, <4>2 DEF NotBegun
      <3>6. \A u \in Threads : \A x \in CallsOf(u)' : x.op \in HandOverOps => x.id \in authIDs
        BY <3>1, <3>3, <3>4 DEF AuthLeads, HandOverOps
      <3>7. AuthNext'
        <4>1. Busy({"issueWrite"}) => Busy({"issueWrite"})'
          BY <3>3 DEF Busy
        <4> QED BY <2>1, <3>4, <4>1 DEF AuthLeads, AuthNext
      <3> QED BY <2>1, <3>4, <3>5, <3>6, <3>7 DEF AuthLeads
    <2> QED BY <1>6, <2>2, <2>3, SetupHandlerCalls
  <1> QED BY <1>3, <1>4, <1>5, <1>6

\* No thread moves, and the writes are under way as they were.
LEMMA LeadsLeft ==
  ASSUME AuthLeads, UNCHANGED <<todo, authIDs, sent, sendQueue, connected, writeCur>>,
         \A l \in Loops : (wr'[l].op = "idle" <=> wr[l].op = "idle") /\ wr'[l].data = wr[l].data
  PROVE  AuthLeads'
  <1>1. /\ \A u \in Threads : CallsOf(u)' = CallsOf(u)
        /\ Busy({"issueWrite"})' <=> Busy({"issueWrite"})
    BY DEF CallsOf, Busy
  <1>2. (Unwritten' <=> Unwritten) /\ (NotBegun' <=> NotBegun)
    BY <1>1 DEF Unwritten, NotBegun
  <1> QED BY <1>1, <1>2 DEF AuthLeads, AuthNext

\* The io_service, the network and the server.
LEMMA LeadsEnvironment ==
  ASSUME CalmInv, AuthLeads, Completion \/ Server
  PROVE  AuthLeads'
  <1> USE DEF itemVars, queueVars, connVars, loopVars, setupVars, netVars, budgetVars, outsideVars
  <1>1. UNCHANGED <<todo, authIDs, sent, sendQueue, connected, writeCur>>
    <2>1. ASSUME NEW l \in Loops,
                 WriteCompletes(l) \/ WriteFails(l) \/ ReadCompletes(l) \/ ReadFails(l)
          PROVE  UNCHANGED <<todo, authIDs, sent, sendQueue, connected, writeCur>>
      BY <2>1 DEF WriteCompletes, WriteFails, ReadCompletes, ReadFails
    <2>2. ASSUME NEW n \in Sockets, SetupCompletes(n)
          PROVE  UNCHANGED <<todo, authIDs, sent, sendQueue, connected, writeCur>>
      BY <2>2 DEF SetupCompletes
    <2>3. ASSUME NEW i \in IDs, Respond(i)
          PROVE  UNCHANGED <<todo, authIDs, sent, sendQueue, connected, writeCur>>
      BY <2>3 DEF Respond
    <2> QED BY <2>1, <2>2, <2>3 DEF Completion, Server
  <1>2. wr \in [Loops -> WriteRec]
    BY DEF CalmInv, WriteInv, TypeOK
  <1>3. \/ UNCHANGED wr
        \/ \E l \in Loops, op \in {"ok", "err"} : wr[l].op = "pending" /\ wr' = [wr EXCEPT ![l].op = op]
    <2>1. ASSUME NEW l \in Loops, WriteCompletes(l) \/ WriteFails(l)
          PROVE  \E op \in {"ok", "err"} : wr[l].op = "pending" /\ wr' = [wr EXCEPT ![l].op = op]
      BY <2>1 DEF WriteCompletes, WriteFails
    <2>2. ASSUME NEW l \in Loops, ReadCompletes(l) \/ ReadFails(l) PROVE UNCHANGED wr
      BY <2>2 DEF ReadCompletes, ReadFails
    <2>3. ASSUME NEW n \in Sockets, SetupCompletes(n) PROVE UNCHANGED wr
      BY <2>3 DEF SetupCompletes
    <2>4. ASSUME NEW i \in IDs, Respond(i) PROVE UNCHANGED wr
      BY <2>4 DEF Respond
    <2> QED BY <2>1, <2>2, <2>3, <2>4 DEF Completion, Server
  <1>4. \A l \in Loops : (wr'[l].op = "idle" <=> wr[l].op = "idle") /\ wr'[l].data = wr[l].data
    <2>1. ASSUME NEW k \in Loops, NEW op \in {"ok", "err"}, wr[k].op = "pending",
                 wr' = [wr EXCEPT ![k].op = op]
          PROVE  \A l \in Loops : (wr'[l].op = "idle" <=> wr[l].op = "idle") /\ wr'[l].data = wr[l].data
      <3>1. wr'[k] = [wr[k] EXCEPT !.op = op] /\ \A l \in Loops \ {k} : wr'[l] = wr[l]
        BY <1>2, <2>1
      <3>2. wr'[k].op = op /\ wr'[k].data = wr[k].data
        BY <1>2, <3>1 DEF WriteRec, LoopRec
      <3> QED BY <2>1, <3>1, <3>2
    <2> QED BY <1>3, <2>1
  <1> QED BY <1>1, <1>4, LeadsLeft

\* The invariant is inductive.
LEMMA LeadsStep ==
  ASSUME MaxFaults = 0, MaxTimeouts = 0, NeverDiesInv, AuthLeads, [Next]_vars
  PROVE  AuthLeads'
  <1>1. CalmInv /\ AuthFirst
    BY DEF NeverDiesInv
  <1>2. CASE UNCHANGED vars
    <2>1. UNCHANGED <<todo, authIDs, sent, sendQueue, connected, writeCur, wr>>
      BY <1>2 DEF vars, itemVars, queueVars, connVars, loopVars
    <2> QED BY <2>1, LeadsLeft
  <1>3. CASE Next
    <2>1. CalmNext
      BY <1>1, <1>3, OnlyCalmSteps
    <2>2. \A t \in Threads : ~Dying(t)
      BY NobodyDies
    <2> QED BY <1>1, <2>1, <2>2, LeadsRun, LeadsHandler, LeadsEnvironment DEF CalmNext
  <1> QED BY <1>2, <1>3

\* While nothing fails, no request is written before the authentication
\* request was, on any number of threads and for requests that are sent at
\* any moment of the setup: it is put before what was queued so far while
\* nobody can start a write loop, and the loop takes the first of the queue.
THEOREM AuthenticationPrecedes ==
  ASSUME MaxFaults = 0, MaxTimeouts = 0
  PROVE  Spec => []AuthenticatesFirst
  <1>1. Init => NeverDiesInv /\ AuthLeads
    <2> SUFFICES ASSUME Init PROVE AuthLeads
      BY NeverDiesInit
    <2>1. /\ \A t \in Threads : CallsOf(t) = {}
          /\ authIDs = {} /\ ~connected /\ writeCur = NoLoop /\ \A l \in Loops : wr[l].op = "idle"
      BY DEF Init, CallsOf, NewLoop
    <2> QED BY <2>1 DEF AuthLeads, AuthNext, NotBegun
  <1>2. NeverDiesInv /\ AuthLeads /\ [Next]_vars => NeverDiesInv' /\ AuthLeads'
    BY NeverDiesStep, LeadsStep
  <1>3. AuthLeads => AuthenticatesFirst
    BY DEF AuthLeads, Unwritten, AuthenticatesFirst
  <1> QED BY <1>1, <1>2, <1>3, PTL DEF Spec
=============================================================================
