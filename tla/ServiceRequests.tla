--------------------------- MODULE ServiceRequests ---------------------------
(***************************************************************************)
(* The service_requests table and the SQL statements MatchingService runs  *)
(* against it (backend/src/matching/matching.service.ts).  Every statement *)
(* is one compare-and-swap UPDATE (or an INSERT under a partial unique     *)
(* index), so each is one atomic action: its WHERE clause is the guard,    *)
(* its SET clause the effect.  A statement that matches no row changes     *)
(* nothing and is the stuttering step.                                     *)
(*                                                                         *)
(* A row is its status and its craftsman_id; the id fixes the client.      *)
(* Position, category, radius and time stamps are left out.                *)
(***************************************************************************)

CONSTANTS
  Requests,     \* request ids (rows there can be)
  Clients,
  Craftsmen,
  ClientOf,     \* client_id of each row
  NoCraftsman   \* SQL NULL in craftsman_id

\* A user has one role; NULL is nobody's id.
ASSUME RequestConstants ==
  /\ ClientOf \in [Requests -> Clients]
  /\ Clients \cap Craftsmen = {}
  /\ NoCraftsman \notin Craftsmen \cup Clients

VARIABLES
  status,       \* status[r], "none" while the row does not exist
  craftsman     \* craftsman[r], the craftsman_id column

requestVars == <<status, craftsman>>

\* ACTIVE_REQUEST_STATUSES, also the predicate of the unique index
\* service_requests_one_active_per_client.
Active == {"pending", "assigned", "in_progress", "awaiting_client_confirmation"}
Closed == {"completed", "cancelled", "expired"}
Statuses == Active \cup Closed \cup {"none"}

Init ==
  /\ status    = [r \in Requests |-> "none"]
  /\ craftsman = [r \in Requests |-> NoCraftsman]

\* Mutant: the INSERT without the unique index.
CreateWithoutIndex(r) ==
  /\ status[r] = "none"
  /\ status' = [status EXCEPT ![r] = "pending"]
  /\ UNCHANGED craftsman

\* The INSERT, refused by the unique index (23505, null to the caller) while
\* the client has an active row.
CreateServiceRequest(r) ==
  /\ status[r] = "none"
  /\ \A q \in Requests : ClientOf[q] = ClientOf[r] => status[q] \notin Active
  /\ status' = [status EXCEPT ![r] = "pending"]
  /\ UNCHANGED craftsman

\* Mutant: the assignment without its comparison.
AssignWithoutSwap(r, k) ==
  /\ status[r] # "none"
  /\ status'    = [status EXCEPT ![r] = "assigned"]
  /\ craftsman' = [craftsman EXCEPT ![r] = k]

\* The compare-and-swap that makes the first accept win.
TryAssign(r, k) ==
  /\ status[r] = "pending"
  /\ status'    = [status EXCEPT ![r] = "assigned"]
  /\ craftsman' = [craftsman EXCEPT ![r] = k]

ExpireRequest(r) ==
  /\ status[r] = "pending"
  /\ status' = [status EXCEPT ![r] = "expired"]
  /\ UNCHANGED craftsman

\* The bootstrap statement: every pending row at once.
ExpireOrphanedPendingRequests ==
  /\ status' = [r \in Requests |->
                  IF status[r] = "pending" THEN "expired" ELSE status[r]]
  /\ UNCHANGED craftsman

\* transitionJob: scoped to the craftsman's own row and its prior status.
TransitionJob(r, k, from, to) ==
  /\ craftsman[r] = k
  /\ status[r] \in from
  /\ status' = [status EXCEPT ![r] = to]
  /\ UNCHANGED craftsman

\* Mutants: a status the column does not have, and a craftsman who backs out
\* putting the request back on the market.
CompleteJobMisspelt(r, k) == TransitionJob(r, k, {"in_progress"}, "awaiting_confirmation")
CancelJobReopens(r, k) == TransitionJob(r, k, {"assigned", "in_progress"}, "pending")

StartJob(r, k)    == TransitionJob(r, k, {"assigned"}, "in_progress")
CompleteJob(r, k) ==
  TransitionJob(r, k, {"in_progress"}, "awaiting_client_confirmation")
CancelJob(r, k)   == TransitionJob(r, k, {"assigned", "in_progress"}, "cancelled")

\* The client's half of mutual completion.
ConfirmCompletion(r) ==
  /\ status[r] = "awaiting_client_confirmation"
  /\ status' = [status EXCEPT ![r] = "completed"]
  /\ UNCHANGED craftsman

CancelByClient(r) ==
  /\ status[r] \in {"pending", "assigned"}
  /\ status' = [status EXCEPT ![r] = "cancelled"]
  /\ UNCHANGED craftsman

\* Every active row the user is a party to, on either side.
PartyTo(u) == {r \in Requests : ClientOf[r] = u \/ craftsman[r] = u}

AdminCancelActiveRequests(u) ==
  /\ status' = [r \in Requests |->
                  IF r \in PartyTo(u) /\ status[r] \in Active
                  THEN "cancelled" ELSE status[r]]
  /\ UNCHANGED craftsman

Next ==
  \/ \E r \in Requests :
       \/ CreateServiceRequest(r)
       \/ ExpireRequest(r)
       \/ ConfirmCompletion(r)
       \/ CancelByClient(r)
  \/ \E r \in Requests, k \in Craftsmen :
       \/ TryAssign(r, k)
       \/ StartJob(r, k)
       \/ CompleteJob(r, k)
       \/ CancelJob(r, k)
  \/ ExpireOrphanedPendingRequests
  \/ \E u \in Clients \cup Craftsmen : AdminCancelActiveRequests(u)

Spec == Init /\ [][Next]_requestVars

-----------------------------------------------------------------------------
TypeOK ==
  /\ status    \in [Requests -> Statuses]
  /\ craftsman \in [Requests -> Craftsmen \cup {NoCraftsman}]

(***************************************************************************)
(* A client never has two requests in flight, whatever double taps, two    *)
(* devices or cancellations do: what the partial unique index is for       *)
(* (matching.service.ts:34-37), kept by every UPDATE as well since none of *)
(* them brings a closed row back.                                          *)
(***************************************************************************)
OneActivePerClient ==
  \A q, r \in Requests :
    /\ ClientOf[q] = ClientOf[r]
    /\ status[q] \in Active
    /\ status[r] \in Active
    => q = r

(***************************************************************************)
(* A row that is past pending and was worked on has its craftsman, a row   *)
(* nobody accepted has none: what the non-null craftsman_id every caller   *)
(* of startJob, confirmCompletion and submitRating relies on.              *)
(***************************************************************************)
CraftsmanFollowsStatus ==
  \A r \in Requests :
    /\ status[r] \in (Active \ {"pending"}) \cup {"completed"} =>
         craftsman[r] # NoCraftsman
    /\ status[r] \in {"none", "pending", "expired"} => craftsman[r] = NoCraftsman

(***************************************************************************)
(* Both halves at once: what the matching code takes for granted of every  *)
(* row it reads (matching.service.ts:34-37, 186-189).                      *)
(***************************************************************************)
RowsConsistent == OneActivePerClient /\ CraftsmanFollowsStatus

(***************************************************************************)
(* No interleaving of the statements hands an assigned request to another  *)
(* craftsman or reopens a closed one: the comparisons in the WHERE clauses *)
(* are all that stands against it (matching.service.ts:186-189, 230-237).  *)
(***************************************************************************)
HistoryIsFinal ==
  [][\A r \in Requests :
       /\ craftsman[r] # NoCraftsman => craftsman'[r] = craftsman[r]
       /\ status[r] \in Closed => status'[r] = status[r]]_requestVars

-----------------------------------------------------------------------------
(***************************************************************************)
(* The table implements the lifecycle the client is promised: a job is     *)
(* engaged from assignment to the client's confirmation.                   *)
(***************************************************************************)
Phase == [r \in Requests |->
            CASE status[r] = "none"    -> "none"
              [] status[r] = "pending" -> "searching"
              [] status[r] \in Closed  -> "closed"
              [] OTHER                 -> "engaged"]

Lifecycle == INSTANCE RequestLifecycle WITH phase <- Phase, worker <- craftsman

ImplementsLifecycle == Lifecycle!SafeSpec
=============================================================================
