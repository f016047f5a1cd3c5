-------------------------- MODULE RequestLifecycle --------------------------
(***************************************************************************)
(* What a client is promised about the service requests they place: a      *)
(* request is searched for, is then either engaged with one craftsman or   *)
(* closed, and once closed stays closed; a client has one open request at  *)
(* a time.  Nothing is said of sockets, timers, SQL or of the steps a job  *)
(* goes through while it is engaged.  ServiceRequests (the table) and      *)
(* MatchingLoop (the whole matching gateway) are shown to implement it.    *)
(***************************************************************************)

CONSTANTS
  Requests,     \* request ids
  Clients,
  Craftsmen,
  ClientOf,     \* the client each request id belongs to
  NoCraftsman   \* "no craftsman yet"

VARIABLES
  phase,        \* phase[r]: where request r stands
  worker        \* worker[r]: the craftsman engaged on r, or NoCraftsman

lifecycleVars == <<phase, worker>>

OpenPhases == {"searching", "engaged"}

Init ==
  /\ phase  = [r \in Requests |-> "none"]
  /\ worker = [r \in Requests |-> NoCraftsman]

\* A client without an open request places r.
Place(r) ==
  /\ phase[r] = "none"
  /\ \A q \in Requests : ClientOf[q] = ClientOf[r] => phase[q] \notin OpenPhases
  /\ phase' = [phase EXCEPT ![r] = "searching"]
  /\ UNCHANGED worker

\* The search for r ends with craftsman k.
Engage(r, k) ==
  /\ phase[r] = "searching"
  /\ phase'  = [phase EXCEPT ![r] = "engaged"]
  /\ worker' = [worker EXCEPT ![r] = k]

\* The open requests of S close together: one by one in normal life, several
\* at once when the server restarts or an administrator resets an account.
Close(S) ==
  /\ \A r \in S : phase[r] \in OpenPhases
  /\ phase' = [r \in Requests |-> IF r \in S THEN "closed" ELSE phase[r]]
  /\ UNCHANGED worker

Next ==
  \/ \E r \in Requests : Place(r)
  \/ \E r \in Requests, k \in Craftsmen : Engage(r, k)
  \/ \E S \in SUBSET Requests : Close(S)

SafeSpec == Init /\ [][Next]_lifecycleVars

\* Liveness: no client is left watching a search that never ends.
SearchEnds == \A r \in Requests : phase[r] = "searching" ~> phase[r] # "searching"
=============================================================================
