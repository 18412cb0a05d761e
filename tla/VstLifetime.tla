---------------------------- MODULE VstLifetime ----------------------------
(***************************************************************************)
(* The lifetime of a VstConnection and of the EventLoopService it runs on: *)
(* users drop their shared_ptr to the connection, the last reference runs  *)
(* the destructor, and the owner of the service waits for its threads.     *)
(*                                                                         *)
(* A connection and its current loops hold shared_ptrs to each other, and  *)
(* every handler holds one to its loop or to the connection: only when the *)
(* loops have stopped by themselves can the connection be destroyed.       *)
(***************************************************************************)
EXTENDS VstSystem

VARIABLES
  holding,  \* the users that have a shared_ptr to the connection
  exists,   \* the destructor of the connection has not run
  service   \* EventLoopService: "working" or "stopped"

lifeVars == <<holding, exists, service>>
allVars  == <<vars, lifeVars>>

LifeInit == Init /\ holding = Users /\ exists = TRUE /\ service = "working"

\* An operation in progress, a timer or a queued handler: each holds a
\* shared_ptr to the connection or to a loop of it, and is work for the
\* io_service.
Work ==
  \/ \E l \in Loops : \/ rd[l].op # "idle" \/ rd[l].armed \/ rd[l].expired
                      \/ wr[l].op # "idle" \/ wr[l].armed \/ wr[l].expired
  \/ \E n \in Sockets : setup[n].kind # "none"

\* What keeps the connection alive: users, calls in progress, work, its own
\* current loops, and the callback of an authentication request.
Referenced ==
  \/ holding # {}
  \/ \E t \in Threads : todo[t] # <<>>
  \/ Work
  \/ readCur # NoLoop \/ writeCur # NoLoop
  \/ authIDs \cap (Queued \cup store) # {}

\* A user drops its reference.
Release(t) ==
  /\ t \in holding /\ Idle(t)
  /\ holding' = holding \ {t}
  /\ UNCHANGED <<vars, exists, service>>

\* Whoever dropped the last reference runs the destructor: shutdownConnection,
\* after the resolver, which has nothing to cancel any more.
Destroy(t) ==
  /\ exists /\ ~Referenced /\ Alive
  /\ exists' = FALSE
  /\ todo' = [todo EXCEPT ![t] = ShutdownCalls("CanceledDuringReset")]
  /\ UNCHANGED <<itemVars, queueVars, connVars, loopVars, outsideVars, holding, service>>

\* The destructor of EventLoopService, which its owner calls after it dropped
\* the connection: without the work object, the threads end when they have
\* nothing left to do, and join_all returns.
Joined ==
  /\ Alive /\ holding = {} /\ service = "working"
  /\ ~Work /\ Resting /\ ~(exists /\ ~Referenced)
  /\ service' = "stopped"
  /\ UNCHANGED <<vars, holding, exists>>

LifeNext ==
  \/ \E t \in holding : SendRequest(t) /\ UNCHANGED lifeVars
  \/ (\E t \in Threads : Run(t)) /\ UNCHANGED lifeVars
  \/ (\E t \in IoThreads : Dispatch(t)) /\ UNCHANGED lifeVars
  \/ (Completion \/ Expiry \/ Server \/ Fault) /\ UNCHANGED lifeVars
  \/ \E t \in Users : Release(t)
  \/ \E t \in Threads : Destroy(t)
  \/ Joined

\* An operation of the setup that is in progress on a lost connection fails.
LostSetupFails ==
  \E n \in Sockets : setup[n].sock # NoSocket /\ sock[setup[n].sock] = "lost" /\ SetupFails(n)

(* As FairSpec: threads, the io_service, the kernel and timers go on.      *)
(* Nothing is assumed of the server, nor of when users release.            *)
LifeSpec ==
  /\ LifeInit /\ [][LifeNext]_allVars
  /\ \A t \in Threads : WF_allVars(Run(t) /\ UNCHANGED lifeVars)
  /\ \A t \in IoThreads : WF_allVars(Dispatch(t) /\ UNCHANGED lifeVars)
  /\ WF_allVars(Completion /\ UNCHANGED lifeVars)
  /\ WF_allVars(LostSetupFails /\ UNCHANGED lifeVars)
  /\ WF_allVars(Expiry /\ UNCHANGED lifeVars)
  /\ WF_allVars(\E t \in Threads : Destroy(t))
  /\ WF_allVars(Joined)

----------------------------------------------------------------------------
(* Properties.                                                             *)

\* A request in the message store keeps the connection alive: when users
\* drop it, its loops go on until everything that was sent is answered, and
\* the destructor finds nothing to cancel.
DestroyedDrained == [][exists /\ ~exists' => store = {}]_allVars

\* The cycle of connection and loops is always broken: when the threads of
\* the service have run out of work, a connection that users dropped was
\* destroyed.
NothingLeaks == service = "stopped" => ~exists

\* The destructor of EventLoopService returns: connections that users have
\* dropped run out of work, whatever the server and the network do; unless
\* the process died meanwhile.
ServiceStops == holding = {} ~> (service = "stopped" \/ crash # "no")
============================================================================
