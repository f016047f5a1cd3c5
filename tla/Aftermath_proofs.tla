---------------------------- MODULE Aftermath_proofs ----------------------------
(***************************************************************************)
(* The request table and what surrounds it, for any sets of requests,      *)
(* users and handlers under way.  First the table by itself: its           *)
(* invariants, and that it implements RequestLifecycle.  Then deletion,    *)
(* ratings and direct contacts: the three share the table and nothing      *)
(* else, so each has an invariant of its own, inductive beside that of the *)
(* table.                                                                  *)
(***************************************************************************)
EXTENDS Aftermath, TLAPS, FiniteSetTheorems, SequenceTheorems

-----------------------------------------------------------------------------
(* The table.  Its invariants strengthen one another:                      *)
(* CraftsmanFollowsStatus needs the types, HistoryIsFinal and the          *)
(* refinement need all three.                                              *)
TableInv == TypeOK /\ CraftsmanFollowsStatus /\ OneActivePerClient

\* The statuses and the two named groups of them, spelled out once.
LEMMA StatusSets ==
  /\ Active \subseteq Statuses
  /\ Closed \subseteq Statuses
  /\ Active \cap Closed = {}
  /\ "none" \notin Active \cup Closed
  /\ {"pending", "assigned", "in_progress", "awaiting_client_confirmation"} = Active
  /\ {"completed", "cancelled", "expired"} = Closed
  /\ \A s \in Statuses : s \in Active \/ s \in Closed \/ s = "none"
BY DEF Statuses, Active, Closed

\* An empty table satisfies every invariant.
LEMMA InitTable == Init => TableInv
BY DEF Init, TableInv, TypeOK, CraftsmanFollowsStatus, OneActivePerClient,
       Statuses, Active, Closed

\* Every statement that touches one row sets its status and, for TryAssign
\* alone, its craftsman: the shape all single-row cases share.
LEMMA RowUpdate ==
  ASSUME TableInv, NEW r \in Requests, NEW s \in Statuses,
         NEW k \in Craftsmen \cup {NoCraftsman},
         status' = [status EXCEPT ![r] = s],
         craftsman' = [craftsman EXCEPT ![r] = k],
         s \in (Active \ {"pending"}) \cup {"completed"} => k # NoCraftsman,
         s \in {"none", "pending", "expired"} => k = NoCraftsman,
         s \in Active =>
           \A q \in Requests : ClientOf[q] = ClientOf[r] /\ status[q] \in Active => q = r
  PROVE  TableInv'
<1>1. TypeOK'
  BY DEF TableInv, TypeOK
<1>2. CraftsmanFollowsStatus'
  BY DEF TableInv, TypeOK, CraftsmanFollowsStatus
<1>3. OneActivePerClient'
  BY DEF TableInv, TypeOK, OneActivePerClient
<1>. QED
  BY <1>1, <1>2, <1>3 DEF TableInv

\* The statements that touch many rows close some of them and keep every
\* craftsman.
LEMMA RowsClosed ==
  ASSUME TableInv, NEW R \in SUBSET Requests, NEW s \in {"cancelled", "expired"},
         status' = [r \in Requests |-> IF r \in R THEN s ELSE status[r]],
         s = "expired" => \A r \in R : status[r] = "pending",
         UNCHANGED craftsman
  PROVE  TableInv'
<1>1. TypeOK'
  BY StatusSets DEF TableInv, TypeOK, Closed
<1>2. CraftsmanFollowsStatus'
  BY DEF TableInv, TypeOK, CraftsmanFollowsStatus, Active
<1>3. OneActivePerClient'
  BY DEF TableInv, TypeOK, OneActivePerClient, Active
<1>. QED
  BY <1>1, <1>2, <1>3 DEF TableInv

LEMMA SameCraftsman ==
  ASSUME TypeOK, NEW r \in Requests, UNCHANGED craftsman
  PROVE  /\ craftsman' = [craftsman EXCEPT ![r] = craftsman[r]]
         /\ craftsman[r] \in Craftsmen \cup {NoCraftsman}
BY DEF TypeOK

\* Each statement keeps the table's invariants.
LEMMA NextTable == TableInv /\ [Next]_requestVars => TableInv'
<1>. SUFFICES ASSUME TableInv, [Next]_requestVars PROVE TableInv'
  OBVIOUS
<1>0. TypeOK
  BY DEF TableInv
<1>1. ASSUME NEW r \in Requests, CreateServiceRequest(r) PROVE TableInv'
  <2>1. craftsman[r] = NoCraftsman
    BY <1>1 DEF TableInv, CraftsmanFollowsStatus, CreateServiceRequest
  <2>. QED
    BY <1>0, <1>1, <2>1, RowUpdate, SameCraftsman
    DEF CreateServiceRequest, Statuses, Active
<1>2. ASSUME NEW r \in Requests, ExpireRequest(r) PROVE TableInv'
  <2>1. craftsman[r] = NoCraftsman
    BY <1>2 DEF TableInv, CraftsmanFollowsStatus, ExpireRequest
  <2>. QED
    BY <1>0, <1>2, <2>1, RowUpdate, SameCraftsman
    DEF ExpireRequest, Statuses, Active, Closed
<1>3. ASSUME NEW r \in Requests, ConfirmCompletion(r) PROVE TableInv'
  <2>1. craftsman[r] # NoCraftsman
    BY <1>3 DEF TableInv, CraftsmanFollowsStatus, ConfirmCompletion, Active
  <2>. QED
    BY <1>0, <1>3, <2>1, RowUpdate, SameCraftsman
    DEF ConfirmCompletion, Statuses, Active, Closed
<1>4. ASSUME NEW r \in Requests, CancelByClient(r) PROVE TableInv'
  BY <1>0, <1>4, RowUpdate, SameCraftsman
  DEF CancelByClient, Statuses, Active, Closed
<1>5. ASSUME NEW r \in Requests, NEW k \in Craftsmen, TryAssign(r, k) PROVE TableInv'
  <2>1. k # NoCraftsman
    BY RequestConstants
  <2>2. \A q \in Requests : ClientOf[q] = ClientOf[r] /\ status[q] \in Active => q = r
    BY <1>5 DEF TableInv, OneActivePerClient, TryAssign, Active
  <2>. QED
    BY <1>5, <2>1, <2>2, RowUpdate DEF TryAssign, Statuses, Active
<1>6. ASSUME NEW r \in Requests, NEW k \in Craftsmen,
             StartJob(r, k) \/ CompleteJob(r, k) \/ CancelJob(r, k)
      PROVE  TableInv'
  <2>1. k # NoCraftsman /\ craftsman[r] = k
    BY <1>6, RequestConstants DEF StartJob, CompleteJob, CancelJob, TransitionJob
  <2>2. \A q \in Requests : ClientOf[q] = ClientOf[r] /\ status[q] \in Active => q = r
    BY <1>6 DEF TableInv, OneActivePerClient, StartJob, CompleteJob, CancelJob,
                TransitionJob, Active
  <2>3. PICK s \in {"in_progress", "awaiting_client_confirmation", "cancelled"} :
          status' = [status EXCEPT ![r] = s] /\ UNCHANGED craftsman
    BY <1>6 DEF StartJob, CompleteJob, CancelJob, TransitionJob
  <2>. QED
    BY <1>0, <2>1, <2>2, <2>3, RowUpdate, SameCraftsman DEF Statuses, Active, Closed
<1>7. CASE ExpireOrphanedPendingRequests
  <2>. DEFINE R == {r \in Requests : status[r] = "pending"}
  <2>1. status' = [r \in Requests |-> IF r \in R THEN "expired" ELSE status[r]]
    BY <1>7 DEF ExpireOrphanedPendingRequests
  <2>. QED
    BY <1>7, <2>1, RowsClosed DEF ExpireOrphanedPendingRequests
<1>8. ASSUME NEW u \in Clients \cup Craftsmen, AdminCancelActiveRequests(u) PROVE TableInv'
  <2>. DEFINE R == {r \in Requests : r \in PartyTo(u) /\ status[r] \in Active}
  <2>1. status' = [r \in Requests |-> IF r \in R THEN "cancelled" ELSE status[r]]
    BY <1>8 DEF AdminCancelActiveRequests
  <2>. QED
    BY <1>8, <2>1, RowsClosed DEF AdminCancelActiveRequests
<1>9. CASE UNCHANGED requestVars
  BY <1>9 DEF TableInv, TypeOK, CraftsmanFollowsStatus, OneActivePerClient, requestVars
<1>. QED
  BY <1>1, <1>2, <1>3, <1>4, <1>5, <1>6, <1>7, <1>8, <1>9 DEF Next

\* The table always has its types, names a craftsman exactly on the rows that
\* were assigned, and holds one active request per client
\* (matching.service.ts:34-37).
THEOREM TableInvariant == Spec => []TypeOK /\ []RowsConsistent
<1>1. Spec => []TableInv
  BY InitTable, NextTable, PTL DEF Spec
<1>2. TableInv => TypeOK /\ RowsConsistent
  BY DEF TableInv, RowsConsistent
<1>. QED
  BY <1>1, <1>2, PTL

-----------------------------------------------------------------------------
\* No statement hands an assigned row to another craftsman or reopens a closed
\* one (matching.service.ts:186-189, 230-237).
THEOREM HistoryTheorem == Spec => HistoryIsFinal
<1>. DEFINE Final == \A r \in Requests :
                       /\ craftsman[r] # NoCraftsman => craftsman'[r] = craftsman[r]
                       /\ status[r] \in Closed => status'[r] = status[r]
<1>1. TableInv /\ [Next]_requestVars => [Final]_requestVars
  <2>. SUFFICES ASSUME TableInv, Next PROVE Final
    OBVIOUS
  <2>1. ASSUME NEW r \in Requests,
               CreateServiceRequest(r) \/ ExpireRequest(r) \/ ConfirmCompletion(r)
                 \/ CancelByClient(r)
        PROVE  Final
    BY <2>1 DEF TableInv, TypeOK, CreateServiceRequest, ExpireRequest,
                ConfirmCompletion, CancelByClient, Closed
  <2>2. ASSUME NEW r \in Requests, NEW k \in Craftsmen, TryAssign(r, k)
        PROVE  Final
    BY <2>2 DEF TableInv, TypeOK, CraftsmanFollowsStatus, TryAssign, Closed
  <2>3. ASSUME NEW r \in Requests, NEW k \in Craftsmen,
               StartJob(r, k) \/ CompleteJob(r, k) \/ CancelJob(r, k)
        PROVE  Final
    BY <2>3 DEF TableInv, TypeOK, StartJob, CompleteJob, CancelJob, TransitionJob, Closed
  <2>4. CASE ExpireOrphanedPendingRequests
    BY <2>4 DEF ExpireOrphanedPendingRequests, Closed
  <2>5. ASSUME NEW u \in Clients \cup Craftsmen, AdminCancelActiveRequests(u)
        PROVE  Final
    BY <2>5 DEF AdminCancelActiveRequests, Active, Closed
  <2>. QED
    BY <2>1, <2>2, <2>3, <2>4, <2>5 DEF Next
<1>2. Spec => []TableInv
  BY InitTable, NextTable, PTL DEF Spec
<1>. QED
  BY <1>1, <1>2, PTL DEF Spec, HistoryIsFinal

-----------------------------------------------------------------------------
\* The phase a status stands for, without the CASE.
LEMMA PhaseOf ==
  ASSUME TypeOK, NEW r \in Requests
  PROVE  /\ Phase[r] = "none" <=> status[r] = "none"
         /\ Phase[r] = "searching" <=> status[r] = "pending"
         /\ Phase[r] = "closed" <=> status[r] \in Closed
         /\ Phase[r] = "engaged" <=> status[r] \in Active \ {"pending"}
         /\ Phase[r] \in Lifecycle!OpenPhases <=> status[r] \in Active
BY DEF Phase, TypeOK, Statuses, Active, Closed, Lifecycle!OpenPhases

\* Every statement is a step of the lifecycle or leaves it unchanged.
LEMMA LifecycleStep ==
  TableInv /\ TableInv' /\ [Next]_requestVars => [Lifecycle!Next]_(Lifecycle!lifecycleVars)
<1>. SUFFICES ASSUME TableInv, TableInv', [Next]_requestVars
              PROVE  Lifecycle!Next \/ UNCHANGED Lifecycle!lifecycleVars
  OBVIOUS
<1>. USE DEF Lifecycle!lifecycleVars
<1>0. TypeOK /\ TypeOK'
  BY DEF TableInv
<1>p. \A r \in Requests :
        /\ Phase'[r] = "none" <=> status'[r] = "none"
        /\ Phase'[r] = "searching" <=> status'[r] = "pending"
        /\ Phase'[r] = "closed" <=> status'[r] \in Closed
        /\ Phase'[r] = "engaged" <=> status'[r] \in Active \ {"pending"}
  BY <1>0 DEF Phase, TypeOK, Statuses, Active, Closed
<1>1. ASSUME NEW r \in Requests, CreateServiceRequest(r) PROVE Lifecycle!Place(r)
  <2>1. Phase' = [Phase EXCEPT ![r] = "searching"]
    BY <1>0, <1>1 DEF Phase, CreateServiceRequest, TypeOK, Closed
  <2>. QED
    BY <1>0, <1>1, <2>1, PhaseOf DEF CreateServiceRequest, Lifecycle!Place
<1>2. ASSUME NEW r \in Requests, NEW k \in Craftsmen, TryAssign(r, k)
      PROVE  Lifecycle!Engage(r, k)
  <2>1. Phase' = [Phase EXCEPT ![r] = "engaged"]
    BY <1>0, <1>2 DEF Phase, TryAssign, TypeOK, Closed
  <2>. QED
    BY <1>0, <1>2, <2>1, PhaseOf DEF TryAssign, Lifecycle!Engage
<1>3. ASSUME NEW R \in SUBSET Requests, \A r \in R : status[r] \in Active,
             NEW s \in Closed,
             status' = [r \in Requests |-> IF r \in R THEN s ELSE status[r]],
             UNCHANGED craftsman
      PROVE  Lifecycle!Close(R)
  <2>1. Phase' = [r \in Requests |-> IF r \in R THEN "closed" ELSE Phase[r]]
    BY <1>0, <1>3 DEF Phase, TypeOK, Closed
  <2>. QED
    BY <1>0, <1>3, <2>1, PhaseOf DEF Lifecycle!Close
<1>4. ASSUME NEW r \in Requests, ExpireRequest(r) \/ ConfirmCompletion(r) \/ CancelByClient(r)
      PROVE  Lifecycle!Close({r})
  <2>1. PICK s \in Closed : status' = [status EXCEPT ![r] = s] /\ UNCHANGED craftsman
    BY <1>4 DEF ExpireRequest, ConfirmCompletion, CancelByClient, Closed
  <2>2. status' = [q \in Requests |-> IF q \in {r} THEN s ELSE status[q]]
    BY <1>0, <2>1 DEF TypeOK
  <2>3. status[r] \in Active
    BY <1>4 DEF ExpireRequest, ConfirmCompletion, CancelByClient, Active
  <2>. QED
    BY <1>3, <2>1, <2>2, <2>3
<1>5. ASSUME NEW r \in Requests, NEW k \in Craftsmen, CancelJob(r, k)
      PROVE  Lifecycle!Close({r})
  <2>1. status' = [q \in Requests |-> IF q \in {r} THEN "cancelled" ELSE status[q]]
    BY <1>0, <1>5 DEF CancelJob, TransitionJob, TypeOK
  <2>2. status[r] \in Active /\ UNCHANGED craftsman /\ "cancelled" \in Closed
    BY <1>5 DEF CancelJob, TransitionJob, Active, Closed
  <2>. QED
    BY <1>3, <2>1, <2>2
<1>6. ASSUME NEW r \in Requests, NEW k \in Craftsmen, StartJob(r, k) \/ CompleteJob(r, k)
      PROVE  UNCHANGED <<Phase, craftsman>>
  BY <1>0, <1>6 DEF Phase, StartJob, CompleteJob, TransitionJob, TypeOK, Closed
<1>7. CASE ExpireOrphanedPendingRequests
  <2>. DEFINE R == {r \in Requests : status[r] = "pending"}
  <2>1. status' = [r \in Requests |-> IF r \in R THEN "expired" ELSE status[r]]
    BY <1>7 DEF ExpireOrphanedPendingRequests
  <2>2. UNCHANGED craftsman /\ "expired" \in Closed /\ "pending" \in Active
    BY <1>7 DEF ExpireOrphanedPendingRequests, Closed, Active
  <2>3. Lifecycle!Close(R)
    BY <1>3, <2>1, <2>2
  <2>. QED
    BY <2>3 DEF Lifecycle!Next
<1>8. ASSUME NEW u \in Clients \cup Craftsmen, AdminCancelActiveRequests(u)
      PROVE  Lifecycle!Next
  <2>. DEFINE R == {r \in Requests : r \in PartyTo(u) /\ status[r] \in Active}
  <2>1. status' = [r \in Requests |-> IF r \in R THEN "cancelled" ELSE status[r]]
    BY <1>8 DEF AdminCancelActiveRequests
  <2>2. UNCHANGED craftsman /\ "cancelled" \in Closed
    BY <1>8 DEF AdminCancelActiveRequests, Closed
  <2>3. Lifecycle!Close(R)
    BY <1>3, <2>1, <2>2
  <2>. QED
    BY <2>3 DEF Lifecycle!Next
<1>9. CASE UNCHANGED requestVars
  BY <1>9 DEF requestVars, Phase
<1>. QED
  BY <1>1, <1>2, <1>4, <1>5, <1>6, <1>7, <1>8, <1>9 DEF Next, Lifecycle!Next

\* The table implements the lifecycle promised to the client, for any number
\* of requests, clients and craftsmen.
THEOREM LifecycleTheorem == Spec => ImplementsLifecycle
<1>1. Init => Lifecycle!Init
  <2>. SUFFICES ASSUME Init PROVE Lifecycle!Init
    OBVIOUS
  <2>1. \A r \in Requests : status[r] = "none"
    BY DEF Init
  <2>2. Phase = [r \in Requests |-> "none"]
    BY <2>1 DEF Phase, Closed
  <2>. QED
    BY <2>2 DEF Init, Lifecycle!Init
<1>2. Spec => []TableInv
  BY InitTable, NextTable, PTL DEF Spec
<1>. QED
  BY <1>1, <1>2, LifecycleStep, PTL DEF Spec, ImplementsLifecycle, Lifecycle!SafeSpec

-----------------------------------------------------------------------------
(* The table inside Aftermath. *)

\* What every statement does to a row, as far as the three parts can tell.
RowHistory(r) ==
  /\ status[r] \in Closed => status'[r] = status[r] /\ craftsman'[r] = craftsman[r]
  /\ craftsman'[r] # craftsman[r] => status[r] = "pending"
  /\ status'[r] \in Active => status[r] \in Active \cup {"none"}

\* A craftsman is set on a pending row only, and what is closed stays so.
LEMMA TableStep ==
  ASSUME TypeOK, [Next]_requestVars
  PROVE  \A r \in Requests : RowHistory(r)
<1>1. ASSUME NEW r \in Requests,
             CreateServiceRequest(r) \/ ExpireRequest(r) \/ ConfirmCompletion(r)
               \/ CancelByClient(r)
      PROVE  \A q \in Requests : RowHistory(q)
  BY <1>1 DEF RowHistory, TypeOK, CreateServiceRequest, ExpireRequest,
              ConfirmCompletion, CancelByClient, Active, Closed
<1>2. ASSUME NEW r \in Requests, NEW k \in Craftsmen, TryAssign(r, k)
      PROVE  \A q \in Requests : RowHistory(q)
  BY <1>2 DEF RowHistory, TypeOK, TryAssign, Active, Closed
<1>3. ASSUME NEW r \in Requests, NEW k \in Craftsmen,
             StartJob(r, k) \/ CompleteJob(r, k) \/ CancelJob(r, k)
      PROVE  \A q \in Requests : RowHistory(q)
  BY <1>3 DEF RowHistory, TypeOK, StartJob, CompleteJob, CancelJob, TransitionJob,
              Active, Closed
<1>4. CASE ExpireOrphanedPendingRequests
  BY <1>4 DEF RowHistory, ExpireOrphanedPendingRequests, Active, Closed
<1>5. ASSUME NEW u \in Clients \cup Craftsmen, AdminCancelActiveRequests(u)
      PROVE  \A q \in Requests : RowHistory(q)
  BY <1>5 DEF RowHistory, AdminCancelActiveRequests, Active, Closed
<1>6. CASE UNCHANGED requestVars
  BY <1>6, StatusSets DEF RowHistory, requestVars, TypeOK
<1>. QED
  BY <1>1, <1>2, <1>3, <1>4, <1>5, <1>6 DEF Next

\* Seen from the table, a step is one of its statements or none.
LEMMA AftermathStepsTable == [AftermathNext]_aftermathVars => [Next]_requestVars
<1>. SUFFICES ASSUME [AftermathNext]_aftermathVars PROVE [Next]_requestVars
  OBVIOUS
<1>1. CASE Statement
  BY <1>1 DEF Statement, Next, Users
<1>2. ASSUME NEW r \in Requests,
             AuthGuardPasses(r) \/ InsertRequest(r) \/ InsertRefused(r)
               \/ InsertRating(r) \/ BeginAggregate(r) \/ GetTooOld(r)
      PROVE  [Next]_requestVars
  BY <1>2 DEF AuthGuardPasses, InsertRequest, InsertRefused, InsertRating,
              BeginAggregate, GetTooOld, Next, requestVars
<1>3. ASSUME NEW r \in Requests, NEW k \in Craftsmen, Accept(r, k)
      PROVE  [Next]_requestVars
  BY <1>3 DEF Accept, Next
<1>4. ASSUME NEW k \in Craftsmen, CommitRating(k) PROVE UNCHANGED requestVars
  BY <1>4 DEF CommitRating
<1>5. ASSUME NEW u \in Users, BeginDeletion(u) \/ CommitDeletion(u)
      PROVE  UNCHANGED requestVars
  BY <1>5 DEF BeginDeletion, CommitDeletion
<1>6. ASSUME NEW t \in Taps,
             \/ \E x \in Contact : RecordContact(t, x[1], x[2], x[3])
             \/ LookForPrevious(t) \/ InsertContact(t)
      PROVE  UNCHANGED requestVars
  BY <1>6 DEF RecordContact, LookForPrevious, InsertContact
<1>7. CASE UNCHANGED aftermathVars
  BY <1>7 DEF aftermathVars
<1>. QED
  BY <1>1, <1>2, <1>3, <1>4, <1>5, <1>6, <1>7 DEF AftermathNext

LEMMA AftermathTable == AftermathSpec => []TableInv
<1>1. AftermathInit => TableInv
  BY InitTable DEF AftermathInit
<1>2. TableInv /\ [AftermathNext]_aftermathVars => TableInv'
  BY NextTable, AftermathStepsTable
<1>. QED
  BY <1>1, <1>2, PTL DEF AftermathSpec

\* Whatever goes on around it the table keeps its promises: its rows are
\* consistent, closed and assigned ones stay so (matching.service.ts:186-189,
\* 230-237), and the client sees the lifecycle of RequestLifecycle.
THEOREM TableUndisturbed ==
  AftermathSpec => []RowsConsistent /\ HistoryIsFinal /\ ImplementsLifecycle
<1>1. AftermathInit => Init
  BY DEF AftermathInit
<1>2. AftermathSpec => Spec
  BY <1>1, AftermathStepsTable, PTL DEF AftermathSpec, Spec
<1>. QED
  BY <1>2, TableInvariant, HistoryTheorem, LifecycleTheorem, PTL

-----------------------------------------------------------------------------
(* Deletion. *)

\* From the count on, a user is party to no active request unless one was
\* inserted or accepted since.
DeletionInv ==
  /\ counted \cup deleted \subseteq Users
  /\ \A u \in (counted \cup deleted) \ overtaken, r \in Requests :
       ClientOf[r] = u \/ craftsman[r] = u => status[r] \notin Active

LEMMA DeletionStep ==
  TableInv /\ DeletionInv /\ [AftermathNext]_aftermathVars => DeletionInv'
<1>. SUFFICES ASSUME TableInv, DeletionInv, [AftermathNext]_aftermathVars
              PROVE  DeletionInv'
  OBVIOUS
<1>0. TypeOK
  BY DEF TableInv
<1>h. \A r \in Requests : RowHistory(r)
  BY <1>0, TableStep, AftermathStepsTable
<1>a. ASSUME UNCHANGED deletionVars,
             \A r \in Requests : status'[r] \in Active =>
               status[r] \in Active /\ craftsman'[r] = craftsman[r]
      PROVE  DeletionInv'
  BY <1>a DEF DeletionInv, deletionVars
<1>1. CASE Statement
  <2>1. \A r \in Requests : status'[r] \in Active =>
          status[r] \in Active /\ craftsman'[r] = craftsman[r]
    BY <1>0, <1>1 DEF Statement, ExpireRequest, ConfirmCompletion, CancelByClient,
                      StartJob, CompleteJob, CancelJob, TransitionJob, TypeOK, Active,
                      ExpireOrphanedPendingRequests, AdminCancelActiveRequests
  <2>. QED
    BY <1>a, <1>1, <2>1 DEF Statement
<1>2. ASSUME NEW r \in Requests, AuthGuardPasses(r) \/ InsertRefused(r)
      PROVE  DeletionInv'
  BY <1>2 DEF AuthGuardPasses, InsertRefused, DeletionInv, requestVars
<1>3. ASSUME NEW r \in Requests, InsertRequest(r) PROVE DeletionInv'
  <2>1. ClientOf[r] \in counted \cup deleted => ClientOf[r] \in overtaken'
    BY <1>3 DEF InsertRequest, Overtake
  <2>2. overtaken \subseteq overtaken' /\ UNCHANGED <<counted, deleted>>
    BY <1>3 DEF InsertRequest, Overtake
  <2>3. /\ \A q \in Requests \ {r} : status'[q] = status[q]
        /\ craftsman' = craftsman /\ craftsman[r] = NoCraftsman
    BY <1>0, <1>3 DEF InsertRequest, CreateServiceRequest, TypeOK, TableInv,
                      CraftsmanFollowsStatus
  <2>. QED
    BY <2>1, <2>2, <2>3, RequestConstants DEF DeletionInv, Users
<1>4. ASSUME NEW r \in Requests, NEW k \in Craftsmen, Accept(r, k) PROVE DeletionInv'
  <2>1. k \in counted \cup deleted => k \in overtaken'
    BY <1>4 DEF Accept, Overtake
  <2>2. overtaken \subseteq overtaken' /\ UNCHANGED <<counted, deleted>>
    BY <1>4 DEF Accept, Overtake
  <2>3. /\ \A q \in Requests \ {r} : status'[q] = status[q] /\ craftsman'[q] = craftsman[q]
        /\ craftsman'[r] = k /\ status[r] \in Active
    BY <1>0, <1>4 DEF Accept, TryAssign, TypeOK, Active
  <2>. QED
    BY <2>1, <2>2, <2>3 DEF DeletionInv
<1>5. ASSUME NEW u \in Users, BeginDeletion(u) PROVE DeletionInv'
  BY <1>5 DEF BeginDeletion, CountActive, PartyTo, DeletionInv, requestVars
<1>6. ASSUME NEW u \in Users, CommitDeletion(u) PROVE DeletionInv'
  BY <1>6 DEF CommitDeletion, DeletionInv, requestVars
<1>7. ASSUME UNCHANGED <<requestVars, deletionVars>> PROVE DeletionInv'
  BY <1>7 DEF DeletionInv, requestVars, deletionVars
<1>8. ASSUME NEW r \in Requests, InsertRating(r) \/ BeginAggregate(r) \/ GetTooOld(r)
      PROVE  DeletionInv'
  BY <1>7, <1>8 DEF InsertRating, BeginAggregate, GetTooOld
<1>9. ASSUME NEW k \in Craftsmen, CommitRating(k) PROVE DeletionInv'
  BY <1>7, <1>9 DEF CommitRating
<1>10. ASSUME NEW t \in Taps,
              \/ \E x \in Contact : RecordContact(t, x[1], x[2], x[3])
              \/ LookForPrevious(t) \/ InsertContact(t)
       PROVE  DeletionInv'
  BY <1>7, <1>10 DEF RecordContact, LookForPrevious, InsertContact
<1>11. CASE UNCHANGED aftermathVars
  BY <1>7, <1>11 DEF aftermathVars
<1>. QED
  BY <1>1, <1>2, <1>3, <1>4, <1>5, <1>6, <1>8, <1>9, <1>10, <1>11 DEF AftermathNext

LEMMA InitDeletion == AftermathInit => DeletionInv
BY DEF AftermathInit, DeletionInv

\* No page of an account that is there shows a job with a deleted one, but for
\* requests inserted or accepted after the count (users.service.ts:207-213).
THEOREM DeletedHasNoJobTheorem == AftermathSpec => []DeletedHasNoJob
<1>1. AftermathInit => DeletionInv
  BY InitDeletion
<1>2. DeletionInv => DeletedHasNoJob
  BY DEF DeletionInv, DeletedHasNoJob, ActiveRequest, ActiveJob, Active
<1>3. AftermathSpec => []TableInv
  BY AftermathTable
<1>. QED
  BY <1>1, <1>2, <1>3, DeletionStep, PTL DEF AftermathSpec

-----------------------------------------------------------------------------
(* Ratings. *)

\* The values a count(*) over the ratings can take; an UPDATE counts its own.
Counts         == {Cardinality(R) : R \in SUBSET Requests}
PositiveCounts == {Cardinality(R) : R \in (SUBSET Requests) \ {{}}}
Update == [request : Requests, count : PositiveCounts]

\* The requests among R done by k, by naming who did each.
RatedOf(by, R, k) == {q \in R : by[q] = k}

\* What k's profile shows: the count of the rated requests, or an UPDATE that
\* waits alone and holds the count of those and its own.
Tallied(by, R, queue, count, k) ==
  \/ queue = <<>> /\ count = Cardinality(RatedOf(by, R, k))
  \/ /\ Len(queue) = 1
     /\ queue[1].count = Cardinality(RatedOf(by, R \cup {queue[1].request}, k))

\* Ratings are of completed requests.
RatedCompleted == rated \cup rating \subseteq {r \in Requests : status[r] = "completed"}

\* Each queued UPDATE is of the craftsman who did the job.
QueuesTyped == profileQueue \in [Craftsmen -> Seq(Update)]
QueuesOwned ==
  \A k \in Craftsmen : \A i \in 1 .. Len(profileQueue[k]) :
    /\ status[profileQueue[k][i].request] = "completed"
    /\ craftsman[profileQueue[k][i].request] = k

CountsTyped == ratingsCount \in [Craftsmen -> Counts]
CountsRight ==
  \A k \in Craftsmen \ overlapped :
    Tallied(craftsman, rated, profileQueue[k], ratingsCount[k], k)

RatingInv == RatedCompleted /\ QueuesTyped /\ QueuesOwned /\ CountsTyped /\ CountsRight

\* The first of a queue that is not empty.
LEMMA FirstQueued ==
  ASSUME RatingInv, NEW k \in Craftsmen, profileQueue[k] # <<>>
  PROVE  /\ profileQueue[k] \in Seq(Update) /\ 1 \in 1 .. Len(profileQueue[k])
         /\ Head(profileQueue[k]) = profileQueue[k][1]
         /\ profileQueue[k][1] \in Update
         /\ profileQueue[k][1].request \in Requests
         /\ profileQueue[k][1].count \in Counts
         /\ status[profileQueue[k][1].request] = "completed"
         /\ craftsman[profileQueue[k][1].request] = k
<1>1. /\ profileQueue[k] \in Seq(Update) /\ 1 \in 1 .. Len(profileQueue[k])
      /\ Head(profileQueue[k]) = profileQueue[k][1]
      /\ profileQueue[k][1] \in Update
  BY DEF RatingInv, QueuesTyped
<1>2. profileQueue[k][1].request \in Requests /\ profileQueue[k][1].count \in Counts
  BY <1>1 DEF Update, Counts, PositiveCounts
<1>. QED
  BY <1>1, <1>2 DEF RatingInv, QueuesOwned

\* A step that leaves the ratings alone cannot touch a completed row.
LEMMA RatingsKept ==
  ASSUME RatingInv, \A r \in Requests : RowHistory(r), UNCHANGED ratingVars
  PROVE  RatingInv'
<1>1. \A r \in Requests : status[r] = "completed" =>
        status'[r] = "completed" /\ craftsman'[r] = craftsman[r]
  BY DEF RowHistory, Closed
<1>2. UNCHANGED <<rated, rating, profileQueue, ratingsCount, overlapped>>
  BY DEF ratingVars
<1>3. RatedCompleted' /\ QueuesTyped' /\ CountsTyped'
  BY <1>1, <1>2 DEF RatingInv, RatedCompleted, QueuesTyped, CountsTyped
<1>4. ASSUME NEW k \in Craftsmen, NEW i \in 1 .. Len(profileQueue[k])
      PROVE  /\ status'[profileQueue[k][i].request] = "completed"
             /\ craftsman'[profileQueue[k][i].request] = k
  <2>1. profileQueue[k][i] \in Update
    BY DEF RatingInv, QueuesTyped
  <2>2. profileQueue[k][i].request \in Requests
    BY <2>1 DEF Update
  <2>. QED
    BY <1>1, <2>2 DEF RatingInv, QueuesOwned
<1>5. ASSUME NEW k \in Craftsmen \ overlapped
      PROVE  Tallied(craftsman', rated, profileQueue[k], ratingsCount[k], k)
  <2>1. Tallied(craftsman, rated, profileQueue[k], ratingsCount[k], k)
    BY DEF RatingInv, CountsRight
  <2>2. ASSUME NEW R \in SUBSET {r \in Requests : status[r] = "completed"}
        PROVE  RatedOf(craftsman', R, k) = RatedOf(craftsman, R, k)
    BY <1>1 DEF RatedOf
  <2>3. CASE profileQueue[k] = <<>>
    <3>1. RatedOf(craftsman', rated, k) = RatedOf(craftsman, rated, k)
      BY <2>2 DEF RatingInv, RatedCompleted
    <3>2. Len(profileQueue[k]) # 1
      BY <2>3
    <3>. QED
      BY <2>1, <2>3, <3>1, <3>2 DEF Tallied
  <2>4. CASE profileQueue[k] # <<>>
    <3>. DEFINE R == rated \cup {profileQueue[k][1].request}
    <3>1. R \in SUBSET {r \in Requests : status[r] = "completed"}
      BY <2>4, FirstQueued DEF RatingInv, RatedCompleted
    <3>2. RatedOf(craftsman', R, k) = RatedOf(craftsman, R, k)
      BY <2>2, <3>1
    <3>. QED
      BY <2>1, <2>4, <3>2 DEF Tallied
  <2>. QED
    BY <2>3, <2>4
<1>. QED
  BY <1>2, <1>3, <1>4, <1>5 DEF RatingInv, QueuesOwned, CountsRight

LEMMA RatingStep ==
  TableInv /\ RatingInv /\ [AftermathNext]_aftermathVars => RatingInv'
<1>. SUFFICES ASSUME TableInv, RatingInv, [AftermathNext]_aftermathVars
              PROVE  RatingInv'
  OBVIOUS
<1>0. TypeOK
  BY DEF TableInv
<1>h. \A r \in Requests : RowHistory(r)
  BY <1>0, TableStep, AftermathStepsTable
<1>a. ASSUME UNCHANGED ratingVars PROVE RatingInv'
  BY <1>a, <1>h, RatingsKept
<1>1. CASE Statement
  BY <1>a, <1>1 DEF Statement
<1>2. ASSUME NEW r \in Requests,
             AuthGuardPasses(r) \/ InsertRequest(r) \/ InsertRefused(r) \/ GetTooOld(r)
      PROVE  RatingInv'
  BY <1>a, <1>2 DEF AuthGuardPasses, InsertRequest, InsertRefused, GetTooOld
<1>3. ASSUME NEW r \in Requests, NEW k \in Craftsmen, Accept(r, k) PROVE RatingInv'
  BY <1>a, <1>3 DEF Accept
<1>4. ASSUME NEW u \in Users, BeginDeletion(u) \/ CommitDeletion(u) PROVE RatingInv'
  BY <1>a, <1>4 DEF BeginDeletion, CommitDeletion
<1>5. ASSUME NEW t \in Taps,
             \/ \E x \in Contact : RecordContact(t, x[1], x[2], x[3])
             \/ LookForPrevious(t) \/ InsertContact(t)
      PROVE  RatingInv'
  BY <1>a, <1>5 DEF RecordContact, LookForPrevious, InsertContact
<1>6. CASE UNCHANGED aftermathVars
  BY <1>a, <1>6 DEF aftermathVars
<1>7. ASSUME NEW r \in Requests, InsertRating(r) PROVE RatingInv'
  <2>1. /\ UNCHANGED <<status, craftsman, rated, profileQueue, ratingsCount, overlapped>>
        /\ rating' = rating \cup {r} /\ status[r] = "completed"
    BY <1>7 DEF InsertRating, requestVars
  <2>. QED
    BY <2>1 DEF RatingInv, RatedCompleted, QueuesTyped, QueuesOwned, CountsTyped, CountsRight
<1>8. ASSUME NEW r \in Requests, BeginAggregate(r) PROVE RatingInv'
  <2>. DEFINE k == craftsman[r]
              u == [request |-> r, count |-> Cardinality(RatedOf(craftsman, rated \cup {r}, k))]
  <2>1. status[r] = "completed" /\ k \in Craftsmen
    BY <1>0, <1>8 DEF BeginAggregate, RatingInv, RatedCompleted, TableInv, TypeOK,
                      CraftsmanFollowsStatus
  <2>2. RatedOf(craftsman, rated \cup {r}, k) \in (SUBSET Requests) \ {{}}
    BY DEF RatedOf, RatingInv, RatedCompleted
  <2>3. u \in Update
    BY <2>2 DEF Update, PositiveCounts
  <2>4. profileQueue' = [profileQueue EXCEPT ![k] = Append(@, u)]
    BY <1>8 DEF BeginAggregate, VisibleRatings, RatedOf
  <2>5. /\ UNCHANGED <<status, craftsman, rated, rating, ratingsCount>>
        /\ overlapped' = IF profileQueue[k] = <<>> THEN overlapped \ {k}
                         ELSE overlapped \cup {k}
    BY <1>8 DEF BeginAggregate, requestVars
  <2>6. profileQueue[k] \in Seq(Update)
    BY <2>1 DEF RatingInv, QueuesTyped
  <2>7. /\ profileQueue'[k] = Append(profileQueue[k], u)
        /\ \A j \in Craftsmen \ {k} : profileQueue'[j] = profileQueue[j]
    BY <2>1, <2>4 DEF RatingInv, QueuesTyped
  <2>8. QueuesTyped'
    BY <2>1, <2>3, <2>4 DEF RatingInv, QueuesTyped
  <2>9. ASSUME NEW i \in 1 .. Len(profileQueue'[k])
        PROVE  /\ status[profileQueue'[k][i].request] = "completed"
               /\ craftsman[profileQueue'[k][i].request] = k
    <3>1. CASE i = Len(profileQueue[k]) + 1
      <4>1. profileQueue'[k][i] = u
        BY <2>3, <2>6, <2>7, <3>1
      <4>. QED
        BY <2>1, <4>1
    <3>2. CASE i # Len(profileQueue[k]) + 1
      <4>1. i \in 1 .. Len(profileQueue[k]) /\ profileQueue'[k][i] = profileQueue[k][i]
        BY <2>3, <2>6, <2>7, <2>9, <3>2
      <4>. QED
        BY <2>1, <4>1 DEF RatingInv, QueuesOwned
    <3>. QED
      BY <3>1, <3>2
  <2>10. QueuesOwned'
    <3>1. ASSUME NEW j \in Craftsmen, NEW i \in 1 .. Len(profileQueue'[j])
          PROVE  /\ status[profileQueue'[j][i].request] = "completed"
                 /\ craftsman[profileQueue'[j][i].request] = j
      <4>1. CASE j = k
        BY <2>9, <3>1, <4>1
      <4>2. CASE j # k
        BY <2>7, <3>1, <4>2 DEF RatingInv, QueuesOwned
      <4>. QED
        BY <4>1, <4>2
    <3>. QED
      BY <2>5, <3>1 DEF QueuesOwned
  <2>11. ASSUME NEW j \in Craftsmen \ overlapped'
         PROVE  Tallied(craftsman, rated, profileQueue'[j], ratingsCount[j], j)
    <3>1. CASE j = k
      <4>1. profileQueue[k] = <<>>
        BY <2>5, <2>11, <3>1
      <4>2. Len(profileQueue'[k]) = 1 /\ profileQueue'[k][1] = u
        BY <2>3, <2>7, <4>1
      <4>. QED
        BY <3>1, <4>2 DEF Tallied
    <3>2. CASE j # k
      <4>1. j \notin overlapped /\ profileQueue'[j] = profileQueue[j]
        BY <2>5, <2>7, <2>11, <3>2
      <4>. QED
        BY <4>1 DEF RatingInv, CountsRight
    <3>. QED
      BY <3>1, <3>2
  <2>. QED
    BY <2>5, <2>8, <2>10, <2>11 DEF RatingInv, RatedCompleted, CountsTyped, CountsRight
<1>9. ASSUME NEW k \in Craftsmen, CommitRating(k) PROVE RatingInv'
  <2>. DEFINE first == profileQueue[k][1]
  <2>1. profileQueue[k] # <<>>
    BY <1>9 DEF CommitRating
  <2>2. /\ profileQueue[k] \in Seq(Update) /\ Head(profileQueue[k]) = first
        /\ first.request \in Requests /\ first.count \in Counts
        /\ status[first.request] = "completed" /\ craftsman[first.request] = k
    BY <2>1, FirstQueued
  <2>3. /\ ratingsCount' = [ratingsCount EXCEPT ![k] = first.count]
        /\ rated' = rated \cup {first.request} /\ rating' = rating \ {first.request}
        /\ profileQueue' = [profileQueue EXCEPT ![k] = Tail(@)]
        /\ UNCHANGED <<status, craftsman, overlapped>>
    BY <1>9, <2>2 DEF CommitRating, requestVars
  <2>4. /\ profileQueue'[k] = Tail(profileQueue[k]) /\ ratingsCount'[k] = first.count
        /\ \A j \in Craftsmen \ {k} : /\ profileQueue'[j] = profileQueue[j]
                                      /\ ratingsCount'[j] = ratingsCount[j]
    BY <2>3 DEF RatingInv, QueuesTyped, CountsTyped
  <2>5. RatedCompleted'
    BY <2>2, <2>3 DEF RatingInv, RatedCompleted
  <2>6. CountsTyped'
    BY <2>2, <2>3 DEF RatingInv, CountsTyped
  <2>7. QueuesTyped'
    <3>1. Tail(profileQueue[k]) \in Seq(Update)
      BY <2>1, <2>2
    <3>. QED
      BY <2>3, <3>1 DEF RatingInv, QueuesTyped
  <2>8. ASSUME NEW i \in 1 .. Len(profileQueue'[k])
        PROVE  /\ status[profileQueue'[k][i].request] = "completed"
               /\ craftsman[profileQueue'[k][i].request] = k
    <3>1. /\ i + 1 \in 1 .. Len(profileQueue[k])
          /\ profileQueue'[k][i] = profileQueue[k][i + 1]
      BY <2>1, <2>2, <2>4, <2>8
    <3>. QED
      BY <3>1 DEF RatingInv, QueuesOwned
  <2>9. QueuesOwned'
    BY <2>3, <2>4, <2>8 DEF RatingInv, QueuesOwned
  <2>10. ASSUME NEW j \in Craftsmen \ overlapped
         PROVE  Tallied(craftsman, rated', profileQueue'[j], ratingsCount'[j], j)
    <3>0. Tallied(craftsman, rated, profileQueue[j], ratingsCount[j], j)
      BY DEF RatingInv, CountsRight
    <3>1. CASE j = k
      <4>1. Len(profileQueue[k]) = 1 /\ first.count = Cardinality(RatedOf(craftsman, rated', k))
        BY <2>1, <2>3, <3>0, <3>1 DEF Tallied
      <4>2. profileQueue'[k] = <<>>
        <5>1. Tail(profileQueue[k]) \in Seq(Update) /\ Len(Tail(profileQueue[k])) = 0
          BY <2>1, <2>2, <4>1
        <5>2. Tail(profileQueue[k]) = <<>>
          BY <5>1, EmptySeq
        <5>. QED
          BY <2>4, <5>2
      <4>. QED
        BY <2>4, <3>1, <4>1, <4>2 DEF Tallied
    <3>2. CASE j # k
      <4>1. profileQueue'[j] = profileQueue[j] /\ ratingsCount'[j] = ratingsCount[j]
        BY <2>4, <3>2
      <4>2. RatedOf(craftsman, rated', j) = RatedOf(craftsman, rated, j)
        BY <2>2, <2>3, <3>2 DEF RatedOf
      <4>3. \A x : RatedOf(craftsman, rated' \cup {x}, j) =
                  RatedOf(craftsman, rated \cup {x}, j)
        BY <2>2, <2>3, <3>2 DEF RatedOf
      <4>. QED
        BY <3>0, <4>1, <4>2, <4>3 DEF Tallied
    <3>. QED
      BY <3>1, <3>2
  <2>. QED
    BY <2>3, <2>5, <2>6, <2>7, <2>9, <2>10 DEF RatingInv, CountsRight
<1>. QED
  BY <1>1, <1>2, <1>3, <1>4, <1>5, <1>6, <1>7, <1>8, <1>9 DEF AftermathNext

LEMMA InitRatings == AftermathInit => RatingInv
<1>. SUFFICES ASSUME AftermathInit PROVE RatingInv
  OBVIOUS
<1>1. Cardinality({}) = 0 /\ 0 \in Counts
  BY FS_EmptySet DEF Counts
<1>2. \A k \in Craftsmen : RatedOf(craftsman, rated, k) = {}
  BY DEF AftermathInit, RatedOf
<1>3. RatedCompleted /\ CountsTyped
  BY <1>1 DEF AftermathInit, RatedCompleted, CountsTyped
<1>4. \A k \in Craftsmen : profileQueue[k] = <<>> /\ ratingsCount[k] = 0
  BY DEF AftermathInit
<1>5. QueuesTyped /\ QueuesOwned
  BY <1>4 DEF AftermathInit, QueuesTyped, QueuesOwned
<1>6. CountsRight
  BY <1>1, <1>2, <1>4 DEF CountsRight, Tallied
<1>. QED
  BY <1>3, <1>5, <1>6 DEF RatingInv

-----------------------------------------------------------------------------
\* A count of some of the ratings in R that k earned.
Behind(by, R, count, k) == \E S \in SUBSET R : count = Cardinality(RatedOf(by, S, k))

\* Neither a profile nor an UPDATE in line counts a rating that is not there.
CountsBehind ==
  \A k \in Craftsmen :
    /\ Behind(craftsman, rated, ratingsCount[k], k)
    /\ \A i \in 1 .. Len(profileQueue[k]) :
         Behind(craftsman, rated \cup {profileQueue[k][i].request}, profileQueue[k][i].count, k)

\* Who did the completed jobs does not change.
LEMMA BehindKept ==
  ASSUME TypeOK, \A r \in Requests : RowHistory(r), NEW k \in Craftsmen, NEW n,
         NEW R \in SUBSET {r \in Requests : status[r] = "completed"}, Behind(craftsman, R, n, k)
  PROVE  Behind(craftsman', R, n, k)
<1>1. PICK S \in SUBSET R : n = Cardinality(RatedOf(craftsman, S, k))
  BY DEF Behind
<1>2. RatedOf(craftsman', S, k) = RatedOf(craftsman, S, k)
  BY DEF RatedOf, RowHistory, Closed
<1>. QED
  BY <1>1, <1>2 DEF Behind

LEMMA BehindStep ==
  TableInv /\ RatingInv /\ CountsBehind /\ [AftermathNext]_aftermathVars => CountsBehind'
<1>. SUFFICES ASSUME TableInv, RatingInv, CountsBehind, [AftermathNext]_aftermathVars
              PROVE  CountsBehind'
  OBVIOUS
<1>0. TypeOK
  BY DEF TableInv
<1>h. \A r \in Requests : RowHistory(r)
  BY <1>0, TableStep, AftermathStepsTable
<1>q. ASSUME NEW k \in Craftsmen, NEW i \in 1 .. Len(profileQueue[k])
      PROVE  rated \cup {profileQueue[k][i].request} \subseteq
               {r \in Requests : status[r] = "completed"}
  <2>1. profileQueue[k][i] \in Update
    BY DEF RatingInv, QueuesTyped
  <2>2. profileQueue[k][i].request \in Requests
    BY <2>1 DEF Update
  <2>. QED
    BY <2>2 DEF RatingInv, QueuesOwned, RatedCompleted
<1>a. ASSUME UNCHANGED <<rated, profileQueue, ratingsCount>> PROVE CountsBehind'
  <2>. SUFFICES ASSUME NEW k \in Craftsmen
                PROVE  /\ Behind(craftsman', rated, ratingsCount[k], k)
                       /\ \A i \in 1 .. Len(profileQueue[k]) :
                            Behind(craftsman', rated \cup {profileQueue[k][i].request},
                                   profileQueue[k][i].count, k)
    BY <1>a DEF CountsBehind
  <2>1. rated \subseteq {r \in Requests : status[r] = "completed"}
    BY DEF RatingInv, RatedCompleted
  <2>2. Behind(craftsman', rated, ratingsCount[k], k)
    BY <1>0, <1>h, <2>1, BehindKept DEF CountsBehind
  <2>3. ASSUME NEW i \in 1 .. Len(profileQueue[k])
        PROVE  Behind(craftsman', rated \cup {profileQueue[k][i].request},
                      profileQueue[k][i].count, k)
    BY <1>0, <1>h, <1>q, BehindKept DEF CountsBehind
  <2>. QED
    BY <2>2, <2>3
<1>1. ASSUME NEW r \in Requests, BeginAggregate(r) PROVE CountsBehind'
  <2>. DEFINE k == craftsman[r]
              u == [request |-> r, count |-> Cardinality(RatedOf(craftsman, rated \cup {r}, k))]
  <2>1. /\ UNCHANGED <<craftsman, rated, ratingsCount>>
        /\ profileQueue' = [profileQueue EXCEPT ![k] = Append(@, u)]
    BY <1>1 DEF BeginAggregate, VisibleRatings, RatedOf, requestVars
  <2>2. Behind(craftsman, rated \cup {u.request}, u.count, k)
    <3>1. u.request = r /\ u.count = Cardinality(RatedOf(craftsman, rated \cup {r}, k))
      OBVIOUS
    <3>. HIDE DEF u
    <3>. QED
      BY <3>1 DEF Behind
  <2>u. u \in Update
    <3>1. RatedOf(craftsman, rated \cup {r}, k) \in (SUBSET Requests) \ {{}}
      BY DEF RatedOf, RatingInv, RatedCompleted
    <3>. QED
      BY <3>1 DEF Update, PositiveCounts
  <2>. HIDE DEF u
  <2>3. ASSUME NEW j \in Craftsmen, NEW i \in 1 .. Len(profileQueue'[j])
        PROVE  Behind(craftsman, rated \cup {profileQueue'[j][i].request},
                      profileQueue'[j][i].count, j)
    <3>1. profileQueue \in [Craftsmen -> Seq(Update)]
      BY DEF RatingInv, QueuesTyped
    <3>2. CASE i \in 1 .. Len(profileQueue[j]) /\ profileQueue'[j][i] = profileQueue[j][i]
      BY <3>2 DEF CountsBehind
    <3>3. CASE j = k /\ profileQueue'[j][i] = u
      BY <2>2, <3>3
    <3>4. CASE j # k
      BY <2>1, <2>3, <3>1, <3>2, <3>4
    <3>5. CASE j = k
      <4>1. profileQueue'[j] = Append(profileQueue[j], u) /\ profileQueue[j] \in Seq(Update)
        BY <2>1, <3>1, <3>5
      <4>2. CASE i = Len(profileQueue[j]) + 1
        <5>1. profileQueue'[j][i] = u
          BY <2>u, <4>1, <4>2
        <5>. QED
          BY <3>3, <3>5, <5>1
      <4>3. CASE i # Len(profileQueue[j]) + 1
        <5>1. i \in 1 .. Len(profileQueue[j]) /\ profileQueue'[j][i] = profileQueue[j][i]
          BY <2>3, <2>u, <4>1, <4>3
        <5>. QED
          BY <3>2, <5>1
      <4>. QED
        BY <4>2, <4>3
    <3>. QED
      BY <3>4, <3>5
  <2>. QED
    BY <2>1, <2>3 DEF CountsBehind
<1>2. ASSUME NEW k \in Craftsmen, CommitRating(k) PROVE CountsBehind'
  <2>. DEFINE first == profileQueue[k][1]
  <2>1. /\ profileQueue[k] \in Seq(Update) /\ Len(profileQueue[k]) > 0
        /\ 1 \in 1 .. Len(profileQueue[k]) /\ Head(profileQueue[k]) = first
    BY <1>2, FirstQueued DEF CommitRating
  <2>2. /\ ratingsCount' = [ratingsCount EXCEPT ![k] = first.count]
        /\ rated' = rated \cup {first.request}
        /\ profileQueue' = [profileQueue EXCEPT ![k] = Tail(@)]
        /\ craftsman' = craftsman
    BY <1>2, <2>1 DEF CommitRating, requestVars
  <2>3. \A R, T, n, j : R \subseteq T /\ Behind(craftsman, R, n, j) => Behind(craftsman, T, n, j)
    BY DEF Behind
  <2>4. ASSUME NEW j \in Craftsmen PROVE Behind(craftsman, rated', ratingsCount'[j], j)
    <3>1. CASE j = k
      <4>1. ratingsCount'[k] = first.count
        BY <2>2 DEF RatingInv, CountsTyped
      <4>2. Behind(craftsman, rated \cup {first.request}, first.count, k)
        BY <2>1 DEF CountsBehind
      <4>. QED
        BY <2>2, <3>1, <4>1, <4>2
    <3>2. CASE j # k
      <4>1. ratingsCount'[j] = ratingsCount[j] /\ rated \subseteq rated'
        BY <2>2, <3>2 DEF RatingInv, CountsTyped
      <4>. QED
        BY <2>3, <4>1 DEF CountsBehind
    <3>. QED
      BY <3>1, <3>2
  <2>5. ASSUME NEW j \in Craftsmen, NEW i \in 1 .. Len(profileQueue'[j])
        PROVE  Behind(craftsman, rated' \cup {profileQueue'[j][i].request},
                      profileQueue'[j][i].count, j)
    <3>1. PICK m \in 1 .. Len(profileQueue[j]) : profileQueue'[j][i] = profileQueue[j][m]
      <4>1. CASE j = k
        <5>1. profileQueue'[j] = Tail(profileQueue[j])
          BY <2>2, <4>1 DEF RatingInv, QueuesTyped
        <5>2. i + 1 \in 1 .. Len(profileQueue[j]) /\ profileQueue'[j][i] = profileQueue[j][i + 1]
          BY <2>1, <2>5, <4>1, <5>1
        <5>. QED
          BY <5>2
      <4>2. CASE j # k
        <5>1. profileQueue'[j] = profileQueue[j]
          BY <2>2, <4>2 DEF RatingInv, QueuesTyped
        <5>. QED
          BY <2>5, <5>1
      <4>. QED
        BY <4>1, <4>2
    <3>2. Behind(craftsman, rated \cup {profileQueue[j][m].request}, profileQueue[j][m].count, j)
      BY DEF CountsBehind
    <3>3. rated \cup {profileQueue[j][m].request} \subseteq
            rated' \cup {profileQueue'[j][i].request}
      BY <2>2, <3>1
    <3>. QED
      BY <2>3, <3>1, <3>2, <3>3
  <2>. QED
    BY <2>2, <2>4, <2>5 DEF CountsBehind
<1>3. CASE UNCHANGED <<rated, profileQueue, ratingsCount>>
  BY <1>a, <1>3
<1>. USE DEF ratingVars
<1>4. CASE Statement
  BY <1>3, <1>4 DEF Statement
<1>5. ASSUME NEW r \in Requests,
             \/ AuthGuardPasses(r) \/ InsertRequest(r) \/ InsertRefused(r) \/ GetTooOld(r)
             \/ InsertRating(r) \/ \E k \in Craftsmen : Accept(r, k)
      PROVE  CountsBehind'
  BY <1>3, <1>5 DEF AuthGuardPasses, InsertRequest, InsertRefused, GetTooOld, InsertRating, Accept
<1>6. ASSUME NEW u \in Users, BeginDeletion(u) \/ CommitDeletion(u) PROVE CountsBehind'
  BY <1>3, <1>6 DEF BeginDeletion, CommitDeletion
<1>7. ASSUME NEW t \in Taps,
             \/ \E x \in Contact : RecordContact(t, x[1], x[2], x[3])
             \/ LookForPrevious(t) \/ InsertContact(t)
      PROVE  CountsBehind'
  BY <1>3, <1>7 DEF RecordContact, LookForPrevious, InsertContact
<1>8. CASE UNCHANGED aftermathVars
  BY <1>3, <1>8 DEF aftermathVars
<1>. QED
  BY <1>1, <1>2, <1>4, <1>5, <1>6, <1>7, <1>8 DEF AftermathNext

LEMMA InitBehind == AftermathInit => CountsBehind
<1>. SUFFICES ASSUME AftermathInit, NEW k \in Craftsmen
              PROVE  /\ Behind(craftsman, rated, ratingsCount[k], k)
                     /\ \A i \in 1 .. Len(profileQueue[k]) : FALSE
  BY DEF CountsBehind
<1>1. RatedOf(craftsman, {}, k) = {} /\ rated = {} /\ ratingsCount[k] = 0
      /\ profileQueue[k] = <<>>
  BY DEF AftermathInit, RatedOf
<1>2. Behind(craftsman, rated, ratingsCount[k], k)
  BY <1>1, FS_EmptySet DEF Behind
<1>. QED
  BY <1>1, <1>2

\* Only completed missions are rated, for who did them, and a profile never
\* counts more ratings than its craftsman has; it counts them all unless its
\* last UPDATE overlapped another (matching.service.ts:329-372).
THEOREM RatingsCountedTheorem == AftermathSpec => []RatingsCounted
<1>1. AftermathInit => RatingInv
  BY InitRatings
<1>2. TableInv /\ RatingInv /\ CountsBehind => RatingsCounted
  <2>. SUFFICES ASSUME TableInv, RatingInv, CountsBehind PROVE RatingsCounted
    OBVIOUS
  <2>1. \A r \in rated \cup rating : status[r] = "completed" /\ r \in Requests
    BY DEF RatingInv, RatedCompleted
  <2>3. \A c \in Clients : RequestHistory(c) \cap (rated \cup rating) \subseteq CompletedMissions(c)
    BY <2>1 DEF RequestHistory, CompletedMissions
  <2>4. ASSUME NEW row \in OpsRequestHistory, row.rated
        PROVE  row.request \in JobHistory(row.craftsman) /\ row.status = "completed"
    <3>1. PICK r \in Requests : /\ row.request = r /\ row.craftsman = craftsman[r]
                                /\ row.rated = (r \in rated) /\ row.status = status[r]
      BY DEF OpsRequestHistory
    <3>. QED
      BY <2>1, <2>4, <3>1 DEF JobHistory
  <2>5. ASSUME NEW k \in Craftsmen, profileQueue[k] = <<>>, k \notin overlapped
        PROVE  ratingsCount[k] = Cardinality(JobHistory(k) \cap rated)
    <3>1. RatedOf(craftsman, rated, k) = JobHistory(k) \cap rated
      BY <2>1 DEF RatedOf, JobHistory
    <3>2. Tallied(craftsman, rated, profileQueue[k], ratingsCount[k], k)
      BY <2>5 DEF RatingInv, CountsRight
    <3>3. Len(profileQueue[k]) # 1
      BY <2>5
    <3>. QED
      BY <3>1, <3>2, <3>3 DEF Tallied
  <2>6. ASSUME NEW k \in Craftsmen
        PROVE  ratingsCount[k] <= Cardinality(JobHistory(k) \cap rated)
    <3>1. PICK S \in SUBSET rated : ratingsCount[k] = Cardinality(RatedOf(craftsman, S, k))
      BY DEF CountsBehind, Behind
    <3>2. /\ RatedOf(craftsman, S, k) \subseteq JobHistory(k) \cap rated
          /\ JobHistory(k) \cap rated \subseteq Requests
      BY <2>1 DEF RatedOf, JobHistory
    <3>. QED
      BY <3>1, <3>2, FiniteTable, FS_Subset
  <2>. QED
    BY <2>3, <2>4, <2>5, <2>6 DEF RatingsCounted
<1>3. AftermathSpec => []TableInv
  BY AftermathTable
<1>. QED
  BY <1>1, <1>2, <1>3, RatingStep, BehindStep, InitBehind, PTL DEF AftermathSpec

-----------------------------------------------------------------------------
(* Direct contacts. *)

TapSteps == {"idle", "listed", "again", "first"}

\* x is a contact of the client of r with k, on any channel.
About(x, r, k) == x[1] = r /\ x[2] = k
Contacted(rows, r, k) == \E x \in rows : About(x, r, k)

TapsTyped ==
  /\ tap \in [Taps -> [step : TapSteps, contact : Contact \cup {NoContact}]]
  /\ \A t \in Taps : tap[t].step # "idle" => tap[t].contact \in Contact
ContactsTyped ==
  /\ contacts \subseteq Contact
  /\ headsUp \in [Requests -> [Craftsmen -> Nat]]

\* Only an expired request has a contact, on its way or written.
ContactsOfExpired ==
  /\ \A x \in contacts : status[x[1]] = "expired"
  /\ \A t \in Taps : tap[t].step # "idle" => status[tap[t].contact[1]] = "expired"

\* What a handler found is still so when it writes, but for handlers of the same
\* request and craftsman that crossed.
TapsKnow ==
  \A t \in Taps, r \in Requests, k \in Craftsmen :
    tap[t].step # "idle" /\ About(tap[t].contact, r, k) =>
      /\ tap[t].step = "again" => Contacted(contacts, r, k)
      /\ tap[t].step = "first" /\ <<r, k>> \notin crossed => ~Contacted(contacts, r, k)
      /\ \A s \in Taps \ {t} :
           tap[s].step # "idle" /\ About(tap[s].contact, r, k) => <<r, k>> \in crossed

ToldOnce ==
  \A r \in Requests, k \in Craftsmen :
    /\ headsUp[r][k] > 0 <=> Contacted(contacts, r, k)
    /\ headsUp[r][k] > 1 => <<r, k>> \in crossed

ContactInv == TapsTyped /\ ContactsTyped /\ ContactsOfExpired /\ TapsKnow /\ ToldOnce

\* What was expired stays so, whatever the table does.
LEMMA ContactsKept ==
  ASSUME ContactInv, \A r \in Requests : RowHistory(r),
         UNCHANGED <<contacts, tap, headsUp, crossed>>
  PROVE  ContactInv'
<1>1. ContactsOfExpired'
  <2>1. \A r \in Requests : status[r] = "expired" => status'[r] = "expired"
    BY DEF RowHistory, Closed
  <2>2. \A x \in Contact : x[1] \in Requests
    BY DEF Contact
  <2>. QED
    BY <2>1, <2>2 DEF ContactInv, ContactsOfExpired, TapsTyped, ContactsTyped
<1>2. TapsTyped' /\ ContactsTyped' /\ TapsKnow' /\ ToldOnce'
  BY DEF ContactInv, TapsTyped, ContactsTyped, TapsKnow, ToldOnce
<1>. QED
  BY <1>1, <1>2 DEF ContactInv

LEMMA ContactStep ==
  TableInv /\ ContactInv /\ [AftermathNext]_aftermathVars => ContactInv'
<1>. SUFFICES ASSUME TableInv, ContactInv, [AftermathNext]_aftermathVars
              PROVE  ContactInv'
  OBVIOUS
<1>0. TypeOK
  BY DEF TableInv
<1>h. \A r \in Requests : RowHistory(r)
  BY <1>0, TableStep, AftermathStepsTable
<1>a. ASSUME UNCHANGED <<contacts, tap, headsUp, crossed>> PROVE ContactInv'
  BY <1>a, <1>h, ContactsKept
<1>c. \A x \in Contact : x = <<x[1], x[2], x[3]>> /\ x[1] \in Requests /\ x[2] \in Craftsmen
  BY DEF Contact
<1>. USE DEF ContactInv
<1>1. CASE Statement
  BY <1>a, <1>1 DEF Statement, contactVars
<1>2. ASSUME NEW r \in Requests,
             AuthGuardPasses(r) \/ InsertRequest(r) \/ InsertRefused(r)
      PROVE  ContactInv'
  BY <1>a, <1>2 DEF AuthGuardPasses, InsertRequest, InsertRefused, contactVars
<1>3. ASSUME NEW r \in Requests, InsertRating(r) \/ BeginAggregate(r) \/ GetTooOld(r)
      PROVE  ContactInv'
  BY <1>a, <1>3 DEF InsertRating, BeginAggregate, GetTooOld, contactVars
<1>4. ASSUME NEW r \in Requests, NEW k \in Craftsmen, Accept(r, k) PROVE ContactInv'
  BY <1>a, <1>4 DEF Accept, contactVars
<1>5. ASSUME NEW k \in Craftsmen, CommitRating(k) PROVE ContactInv'
  BY <1>a, <1>5 DEF CommitRating, contactVars
<1>6. ASSUME NEW u \in Users, BeginDeletion(u) \/ CommitDeletion(u) PROVE ContactInv'
  BY <1>a, <1>6 DEF BeginDeletion, CommitDeletion, contactVars
<1>7. CASE UNCHANGED aftermathVars
  BY <1>a, <1>7 DEF aftermathVars, contactVars
<1>8. ASSUME NEW t \in Taps, NEW x \in Contact, RecordContact(t, x[1], x[2], x[3])
      PROVE  ContactInv'
  <2>1. /\ tap' = [tap EXCEPT ![t] = [step |-> "listed", contact |-> x]]
        /\ UNCHANGED <<status, contacts, headsUp>>
        /\ status[x[1]] = "expired"
        /\ crossed \subseteq crossed'
    BY <1>8, <1>c DEF RecordContact, FindExpiredRequest, requestVars
  <2>2. \A s \in Taps \ {t} : tap'[s] = tap[s]
    BY <2>1 DEF TapsTyped
  <2>3. tap'[t] = [step |-> "listed", contact |-> x]
    BY <2>1 DEF TapsTyped
  <2>4. TapsTyped' /\ ContactsTyped'
    BY <2>1, <2>2, <2>3 DEF TapsTyped, ContactsTyped, TapSteps
  <2>5. ContactsOfExpired'
    BY <2>1, <2>2, <2>3 DEF ContactsOfExpired
  <2>6. ASSUME NEW s \in Taps \ {t}, tap[s].step # "idle", About(tap[s].contact, x[1], x[2])
        PROVE  <<x[1], x[2]>> \in crossed'
    BY <1>8, <2>6 DEF RecordContact, About
  <2>7. TapsKnow'
    <3>. SUFFICES ASSUME NEW s \in Taps, NEW r \in Requests, NEW k \in Craftsmen,
                         tap'[s].step # "idle", About(tap'[s].contact, r, k)
                  PROVE  /\ tap'[s].step = "again" => Contacted(contacts', r, k)
                         /\ tap'[s].step = "first" /\ <<r, k>> \notin crossed' =>
                              ~Contacted(contacts', r, k)
                         /\ \A o \in Taps \ {s} :
                              tap'[o].step # "idle" /\ About(tap'[o].contact, r, k) =>
                                <<r, k>> \in crossed'
      BY DEF TapsKnow
    <3>1. CASE s = t
      BY <2>2, <2>3, <2>6, <3>1 DEF About
    <3>2. CASE s # t
      <4>1. tap'[s] = tap[s]
        BY <2>2, <3>2
      <4>2. ASSUME About(x, r, k) PROVE <<r, k>> \in crossed'
        BY <2>6, <3>2, <4>1, <4>2 DEF About
      <4>. QED
        BY <2>1, <2>2, <2>3, <4>1, <4>2 DEF TapsKnow
    <3>. QED
      BY <3>1, <3>2
  <2>8. ToldOnce'
    BY <2>1 DEF ToldOnce
  <2>. QED
    BY <2>4, <2>5, <2>7, <2>8
<1>9. ASSUME NEW t \in Taps, LookForPrevious(t) PROVE ContactInv'
  <2>. DEFINE x == tap[t].contact
  <2>1. /\ tap[t].step = "listed" /\ x \in Contact
        /\ UNCHANGED <<status, contacts, headsUp, crossed>>
    BY <1>9 DEF LookForPrevious, TapsTyped, requestVars
  <2>2. /\ \A s \in Taps \ {t} : tap'[s] = tap[s]
        /\ tap'[t].contact = x
        /\ tap'[t].step = IF Contacted(contacts, x[1], x[2]) THEN "again" ELSE "first"
    BY <1>9 DEF LookForPrevious, PreviousContact, Contacted, About, TapsTyped
  <2>3. tap' \in [Taps -> [step : TapSteps, contact : Contact \cup {NoContact}]]
    BY <1>9 DEF LookForPrevious, TapsTyped, TapSteps
  <2>4. TapsTyped' /\ ContactsTyped' /\ ContactsOfExpired'
    BY <2>1, <2>2, <2>3 DEF TapsTyped, ContactsTyped, ContactsOfExpired
  <2>5. TapsKnow'
    BY <2>1, <2>2 DEF TapsKnow, About
  <2>6. ToldOnce'
    BY <2>1 DEF ToldOnce
  <2>. QED
    BY <2>4, <2>5, <2>6
<1>10. ASSUME NEW t \in Taps, InsertContact(t) PROVE ContactInv'
  <2>. DEFINE x == tap[t].contact
  <2>1. /\ tap[t].step \in {"again", "first"} /\ x \in Contact
        /\ contacts' = contacts \cup {x}
        /\ tap' = [tap EXCEPT ![t] = IdleTap]
        /\ UNCHANGED <<status, crossed>>
    BY <1>10 DEF InsertContact, TapsTyped, requestVars
  <2>2. /\ \A s \in Taps \ {t} : tap'[s] = tap[s]
        /\ tap'[t].step = "idle"
    BY <2>1 DEF TapsTyped, IdleTap
  <2>3. tap' \in [Taps -> [step : TapSteps, contact : Contact \cup {NoContact}]]
    BY <2>1 DEF TapsTyped, TapSteps, IdleTap
  <2>4. headsUp' \in [Requests -> [Craftsmen -> Nat]]
    BY <1>10, <1>c, <2>1 DEF InsertContact, ContactsTyped
  <2>5. TapsTyped' /\ ContactsTyped' /\ ContactsOfExpired'
    BY <2>1, <2>2, <2>3, <2>4 DEF TapsTyped, ContactsTyped, ContactsOfExpired
  <2>6. \A r \in Requests, k \in Craftsmen :
          Contacted(contacts', r, k) <=> Contacted(contacts, r, k) \/ About(x, r, k)
    BY <2>1 DEF Contacted
  <2>7. TapsKnow'
    <3>1. \A s \in Taps, r \in Requests, k \in Craftsmen :
            tap'[s].step # "idle" => s # t /\ tap'[s] = tap[s]
      BY <2>2
    <3>. QED
      BY <2>1, <2>6, <3>1 DEF TapsKnow
  <2>8. ToldOnce'
    <3>. SUFFICES ASSUME NEW r \in Requests, NEW k \in Craftsmen
                  PROVE  /\ headsUp'[r][k] > 0 <=> Contacted(contacts', r, k)
                         /\ headsUp'[r][k] > 1 => <<r, k>> \in crossed
      BY <2>1 DEF ToldOnce
    <3>1. CASE About(x, r, k) /\ tap[t].step = "first"
      <4>1. headsUp'[r][k] = headsUp[r][k] + 1 /\ headsUp[r][k] \in Nat
        BY <1>10, <3>1 DEF InsertContact, ContactsTyped, About
      <4>2. <<r, k>> \notin crossed => ~Contacted(contacts, r, k)
        BY <3>1 DEF TapsKnow
      <4>. QED
        BY <2>6, <3>1, <4>1, <4>2 DEF ToldOnce
    <3>2. CASE ~(About(x, r, k) /\ tap[t].step = "first")
      <4>1. headsUp'[r][k] = headsUp[r][k]
        BY <1>10, <1>c, <2>1, <3>2 DEF InsertContact, ContactsTyped, About
      <4>2. About(x, r, k) => Contacted(contacts, r, k)
        BY <2>1, <3>2 DEF TapsKnow
      <4>. QED
        BY <2>6, <4>1, <4>2 DEF ToldOnce
    <3>. QED
      BY <3>1, <3>2
  <2>. QED
    BY <2>5, <2>7, <2>8
<1>. QED
  BY <1>1, <1>2, <1>3, <1>4, <1>5, <1>6, <1>7, <1>8, <1>9, <1>10 DEF AftermathNext

LEMMA InitContacts == AftermathInit => ContactInv
BY DEF AftermathInit, ContactInv, TapsTyped, TapSteps, IdleTap, ContactsTyped,
       ContactsOfExpired, TapsKnow, ToldOnce, Contacted

\* Contacts are of expired requests nobody took, and a craftsman hears of a
\* client's taps once, unless two overlap (fallback-contacts.service.ts:71-75).
THEOREM ContactsHeardOnceTheorem == AftermathSpec => []ContactsHeardOnce
<1>1. AftermathInit => ContactInv
  BY InitContacts
<1>2. TableInv /\ ContactInv => ContactsHeardOnce
  <2>. SUFFICES ASSUME TableInv, ContactInv PROVE ContactsHeardOnce
    OBVIOUS
  <2>1. \A x \in contacts : x[1] \in Requests /\ status[x[1]] = "expired"
    BY DEF ContactInv, ContactsTyped, ContactsOfExpired, Contact
  <2>2. GetStats.directContact.contacted \subseteq GetStats.directContact.expired
    <3>1. /\ GetStats.directContact.contacted =
               {r \in Requests : \E x \in contacts : x[1] = r}
          /\ GetStats.directContact.expired = {r \in Requests : status[r] = "expired"}
      BY DEF GetStats
    <3>. QED
      BY <2>1, <3>1
  <2>3. ASSUME NEW row \in OpsRequestHistory, row.contacts # {}
        PROVE  row.craftsman = NoCraftsman
    <3>1. PICK r \in Requests : /\ row.craftsman = craftsman[r]
                                /\ row.contacts = {x \in contacts : x[1] = r}
      BY DEF OpsRequestHistory
    <3>2. status[r] = "expired"
      BY <2>1, <2>3, <3>1
    <3>. QED
      BY <3>1, <3>2 DEF TableInv, CraftsmanFollowsStatus
  <2>. QED
    BY <2>2, <2>3 DEF ContactsHeardOnce, ContactInv, ToldOnce, Contacted, About
<1>3. AftermathSpec => []TableInv
  BY AftermathTable
<1>. QED
  BY <1>1, <1>2, <1>3, ContactStep, PTL DEF AftermathSpec

-----------------------------------------------------------------------------
(* Types. *)

\* What no part's invariant says of its variables.
HandlersTyped ==
  /\ creating \subseteq Requests /\ tooOld \subseteq Requests
  /\ overtaken \subseteq Users /\ overlapped \subseteq Craftsmen
  /\ crossed \subseteq Requests \X Craftsmen

LEMMA HandlersTypedStep ==
  TableInv /\ RatingInv /\ HandlersTyped /\ [AftermathNext]_aftermathVars => HandlersTyped'
<1>. SUFFICES ASSUME TableInv, RatingInv, HandlersTyped, [AftermathNext]_aftermathVars
              PROVE  HandlersTyped'
  OBVIOUS
<1>. USE DEF HandlersTyped
<1>1. CASE Statement
  BY <1>1 DEF Statement, deletionVars, ratingVars, contactVars
<1>2. ASSUME NEW r \in Requests, AuthGuardPasses(r) \/ InsertRefused(r) \/ InsertRating(r)
                                   \/ GetTooOld(r)
      PROVE  HandlersTyped'
  BY <1>2 DEF AuthGuardPasses, InsertRefused, InsertRating, GetTooOld, deletionVars,
              ratingVars, contactVars
<1>3. ASSUME NEW r \in Requests, InsertRequest(r) PROVE HandlersTyped'
  BY <1>3, RequestConstants DEF InsertRequest, Overtake, Users, ratingVars, contactVars
<1>4. ASSUME NEW r \in Requests, NEW k \in Craftsmen, Accept(r, k) PROVE HandlersTyped'
  BY <1>4 DEF Accept, Overtake, Users, ratingVars, contactVars
<1>5. ASSUME NEW r \in Requests, BeginAggregate(r) PROVE HandlersTyped'
  <2>1. craftsman[r] \in Craftsmen
    BY <1>5 DEF BeginAggregate, RatingInv, RatedCompleted, TableInv, TypeOK,
                CraftsmanFollowsStatus
  <2>. QED
    BY <1>5, <2>1 DEF BeginAggregate, deletionVars, contactVars
<1>6. ASSUME NEW k \in Craftsmen, CommitRating(k) PROVE HandlersTyped'
  BY <1>6 DEF CommitRating, deletionVars, contactVars
<1>7. ASSUME NEW u \in Users, BeginDeletion(u) \/ CommitDeletion(u) PROVE HandlersTyped'
  BY <1>7 DEF BeginDeletion, CommitDeletion, ratingVars, contactVars
<1>8. ASSUME NEW t \in Taps, NEW x \in Contact, RecordContact(t, x[1], x[2], x[3])
      PROVE  HandlersTyped'
  <2>1. <<x[1], x[2]>> \in Requests \X Craftsmen
    BY DEF Contact
  <2>. QED
    BY <1>8, <2>1 DEF RecordContact, deletionVars, ratingVars
<1>9. ASSUME NEW t \in Taps, LookForPrevious(t) \/ InsertContact(t) PROVE HandlersTyped'
  BY <1>9 DEF LookForPrevious, InsertContact, deletionVars, ratingVars
<1>10. CASE UNCHANGED aftermathVars
  BY <1>10 DEF aftermathVars, deletionVars, ratingVars, contactVars
<1>. QED
  BY <1>1, <1>2, <1>3, <1>4, <1>5, <1>6, <1>7, <1>8, <1>9, <1>10 DEF AftermathNext

\* How many requests of the table a count(*) can find.
LEMMA CountBounds ==
  /\ Counts \subseteq 0 .. Cardinality(Requests)
  /\ PositiveCounts \subseteq 1 .. Cardinality(Requests)
<1>1. Cardinality(Requests) \in Nat
  BY FiniteTable, FS_CardinalityType
<1>2. ASSUME NEW R \in SUBSET Requests
      PROVE  /\ Cardinality(R) \in 0 .. Cardinality(Requests)
             /\ R # {} => Cardinality(R) # 0
  <2>1. IsFiniteSet(R) /\ Cardinality(R) <= Cardinality(Requests)
    BY FiniteTable, FS_Subset
  <2>2. Cardinality(R) \in Nat
    BY <2>1, FS_CardinalityType
  <2>3. R # {} => Cardinality(R) # 0
    BY <2>1, FS_EmptySet
  <2>. QED
    BY <1>1, <2>1, <2>2, <2>3
<1>. QED
  BY <1>1, <1>2 DEF Counts, PositiveCounts

\* A count on a profile is one of requests there are, an UPDATE that waits
\* counts at least its own, and a handler names a contact as long as it runs
\* (matching.service.ts:325-345, fallback-contacts.service.ts:57-86).
THEOREM AftermathTypes == AftermathSpec => []AftermathTypeOK
<1>1. AftermathInit => HandlersTyped
  BY DEF AftermathInit, HandlersTyped
<1>2. TableInv /\ DeletionInv /\ RatingInv /\ ContactInv /\ HandlersTyped => AftermathTypeOK
  <2>. SUFFICES ASSUME TableInv, DeletionInv, RatingInv, ContactInv, HandlersTyped
                PROVE  AftermathTypeOK
    OBVIOUS
  <2>1. ASSUME NEW k \in Craftsmen, NEW i \in DOMAIN profileQueue[k]
        PROVE  profileQueue[k][i] \in [request : Requests, count : 1 .. Cardinality(Requests)]
    <3>1. profileQueue[k][i] \in Update
      BY DEF RatingInv, QueuesTyped
    <3>. QED
      BY <3>1, CountBounds DEF Update
  <2>2. ratingsCount \in [Craftsmen -> 0 .. Cardinality(Requests)]
    BY CountBounds DEF RatingInv, CountsTyped
  <2>3. creating \cup rated \cup rating \cup tooOld \subseteq Requests
    BY DEF RatingInv, RatedCompleted, HandlersTyped
  <2>4. counted \cup deleted \cup overtaken \subseteq Users
    BY DEF DeletionInv, HandlersTyped
  <2>5. /\ contacts \subseteq Contact
        /\ tap \in [Taps -> [step : {"idle", "listed", "again", "first"},
                             contact : Contact \cup {NoContact}]]
        /\ headsUp \in [Requests -> [Craftsmen -> Nat]]
    BY DEF ContactInv, TapsTyped, ContactsTyped, TapSteps
  <2>. QED
    BY <2>1, <2>2, <2>3, <2>4, <2>5 DEF AftermathTypeOK, TableInv, HandlersTyped
<1>. QED
  BY <1>1, <1>2, AftermathTable, InitDeletion, DeletionStep, InitRatings, RatingStep,
     InitContacts, ContactStep, HandlersTypedStep, PTL DEF AftermathSpec
=============================================================================
