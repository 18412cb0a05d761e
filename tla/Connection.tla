----------------------------- MODULE Connection -----------------------------
(***************************************************************************)
(* What a Connection promises its users (include/fuerte/connection.h),     *)
(* whatever the protocol: sendRequest accepts a request, and its callback  *)
(* is called once, with the response or with an error.  VstConnection and  *)
(* HttpConnection implement it.                                            *)
(***************************************************************************)
CONSTANTS
  Requests,  \* the requests that users may send
  Results,   \* what a callback can be called with
  NoResult   \* a callback that was not called yet

VARIABLES
  pending,   \* the requests that the connection is responsible for
  result     \* per request: what its callback was called with

vars == <<pending, result>>

Init ==
  /\ pending = {}
  /\ result = [r \in Requests |-> NoResult]

\* sendRequest: the connection takes the request.
Accept(r) ==
  /\ r \notin pending /\ result[r] = NoResult
  /\ pending' = pending \cup {r}
  /\ UNCHANGED result

\* The callbacks of the requests in rs are called with res; it is one request
\* as a rule, and all that are in flight when the connection is shut down.
Answer(rs, res) ==
  /\ rs # {} /\ rs \subseteq pending
  /\ pending' = pending \ rs
  /\ result' = [r \in Requests |-> IF r \in rs THEN res ELSE result[r]]

Next ==
  \/ \E r \in Requests : Accept(r)
  \/ \E rs \in SUBSET Requests, res \in Results : Answer(rs, res)

\* A request is neither lost nor answered twice.
Spec == Init /\ [][Next]_vars

\* "When a response is received or an error occurs, the corresponding
\* callback is called": and one of the two always happens.
EveryRequestAnswered == \A r \in Requests : r \in pending ~> result[r] # NoResult
=============================================================================
