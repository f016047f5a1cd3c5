------------------------------- MODULE Aftermath -------------------------------
(***************************************************************************)
(* What surrounds a request once its row is written: ratings and the       *)
(* craftsman's aggregate (MatchingService.submitRating), the list of       *)
(* craftsmen to contact after an expiry (FallbackContactsService), the     *)
(* deletion of an account (UsersService.deleteAccount), and the pages that *)
(* read it all (ClientsService, CraftsmenService, OpsService).             *)
(*                                                                         *)
(* The table is ServiceRequests, one statement per action.  Statements of  *)
(* one handler or transaction interleave with everything else; Postgres    *)
(* runs them READ COMMITTED, each seeing what was committed when it began. *)
(***************************************************************************)
EXTENDS ServiceRequests, FiniteSets, Naturals, Sequences

CONSTANTS
  Channels,      \* "whatsapp", "call"
  Taps,          \* bound: contact handlers under way at once
  NoContact

Users == Clients \cup Craftsmen
Contact == Requests \X Craftsmen \X Channels

ASSUME ContactConstants == NoContact \notin Contact

\* What count(*) counts.
ASSUME FiniteTable == IsFiniteSet(Requests)

VARIABLES
  creating,      \* requests whose handler is past AuthGuard, before its INSERT
  counted,       \* users whose deletion counted no active request
  deleted,       \* users with deleted_at set
  overtaken,     \* users given a request since their deletion counted (history)
  rated,         \* requests with a committed row in ratings
  rating,        \* requests whose rating is inserted, not committed
  profileQueue,  \* profileQueue[k]: UPDATEs of k's profile, in lock order
  ratingsCount,  \* ratings_count of each craftsman
  overlapped,    \* craftsmen whose last UPDATE began during another (history)
  tooOld,        \* expired requests past FALLBACK_LIST_TTL_MS
  contacts,      \* rows of service_request_contacts
  tap,           \* tap[t]: a recordContact handler
  headsUp,       \* headsUp[r][k]: pushes to k about r
  crossed        \* request and craftsman whose handlers overlapped (history)

deletionVars == <<creating, counted, deleted, overtaken>>
ratingVars   == <<rated, rating, profileQueue, ratingsCount, overlapped>>
contactVars  == <<tooOld, contacts, tap, headsUp, crossed>>
aftermathVars == <<requestVars, deletionVars, ratingVars, contactVars>>

IdleTap == [step |-> "idle", contact |-> NoContact]

AftermathInit ==
  /\ Init
  /\ creating = {} /\ counted = {} /\ deleted = {} /\ overtaken = {}
  /\ rated = {} /\ rating = {} /\ overlapped = {}
  /\ profileQueue = [k \in Craftsmen |-> <<>>]
  /\ ratingsCount = [k \in Craftsmen |-> 0]
  /\ tooOld = {} /\ contacts = {} /\ crossed = {}
  /\ tap     = [t \in Taps |-> IdleTap]
  /\ headsUp = [r \in Requests |-> [k \in Craftsmen |-> 0]]

-----------------------------------------------------------------------------
(* The pages, one statement each. *)

\* getActiveRequest, getActiveJob: the unique index and the app allow one.
ActiveRequest(c) == {r \in Requests : ClientOf[r] = c /\ status[r] \in Active}
ActiveJob(k) == {r \in Requests : craftsman[r] = k /\ status[r] \in Active \ {"pending"}}

\* getRequestHistory, getJobHistory: "every job this craftsman was ever assigned".
RequestHistory(c) == {r \in Requests : ClientOf[r] = c /\ status[r] # "none"}
JobHistory(k)     == {r \in Requests : craftsman[r] = k}

\* getMe's completedMissionsCount.
CompletedMissions(c) == {r \in RequestHistory(c) : status[r] = "completed"}

\* The administrators' statistics: requests by status, and what became of those
\* that expired, for a range and a country left out here.
GetStats ==
  [byStatus      |-> [s \in Active \cup Closed |-> Cardinality({r \in Requests : status[r] = s})],
   directContact |->
     [expired   |-> {r \in Requests : status[r] = "expired"},
      contacted |-> {r \in Requests : \E x \in contacts : x[1] = r}]]

\* Their request history: a row per request, with its rating and its contacts.
OpsRequestHistory ==
  {[request   |-> r, status |-> status[r], craftsman |-> craftsman[r],
    rated     |-> r \in rated,
    contacts  |-> {x \in contacts : x[1] = r}] :
     r \in {q \in Requests : status[q] # "none"}}

-----------------------------------------------------------------------------
(* Deletion and the requests that race it. *)

\* POST /matching/requests: AuthGuard let the client in.
AuthGuardPasses(r) ==
  /\ status[r] = "none" /\ r \notin creating
  /\ ClientOf[r] \notin deleted
  /\ creating' = creating \cup {r}
  /\ UNCHANGED <<requestVars, counted, deleted, overtaken, ratingVars, contactVars>>

\* Nothing looks at deleted_at again once a handler runs.
Overtake(u) == overtaken' = IF u \in counted \cup deleted THEN overtaken \cup {u}
                            ELSE overtaken

InsertRequest(r) ==
  /\ r \in creating
  /\ CreateServiceRequest(r)
  /\ creating' = creating \ {r}
  /\ Overtake(ClientOf[r])
  /\ UNCHANGED <<counted, deleted, ratingVars, contactVars>>

\* 23505: the client has an active request.
InsertRefused(r) ==
  /\ r \in creating
  /\ ActiveRequest(ClientOf[r]) # {}
  /\ creating' = creating \ {r}
  /\ UNCHANGED <<requestVars, counted, deleted, overtaken, ratingVars, contactVars>>

\* The socket of a deleted craftsman stays open, and their presence may too.
Accept(r, k) ==
  /\ TryAssign(r, k)
  /\ Overtake(k)
  /\ UNCHANGED <<creating, counted, deleted, ratingVars, contactVars>>

\* Mutant: a count that forgets the craftsman's side.
CountAsClient(u) == ActiveRequest(u)

\* deleteAccount's SELECT count(*).
CountActive(u) == {r \in PartyTo(u) : status[r] \in Active}

\* The transaction has counted none; with one it fails with a conflict.
BeginDeletion(u) ==
  /\ u \notin deleted \cup counted
  /\ CountActive(u) = {}
  /\ counted' = counted \cup {u}
  /\ UNCHANGED <<requestVars, creating, deleted, overtaken, ratingVars, contactVars>>

CommitDeletion(u) ==
  /\ u \in counted
  /\ counted' = counted \ {u}
  /\ deleted' = deleted \cup {u}
  /\ UNCHANGED <<requestVars, creating, overtaken, ratingVars, contactVars>>

-----------------------------------------------------------------------------
(* Ratings. *)

\* submitRating: the row is locked FOR UPDATE, so one rating of a request goes
\* in; a second tap waits, finds it and does nothing.
InsertRating(r) ==
  /\ status[r] = "completed"
  /\ r \notin rated \cup rating
  /\ rating' = rating \cup {r}
  /\ UNCHANGED <<requestVars, deletionVars, rated, profileQueue, ratingsCount,
                 overlapped, contactVars>>

\* Mutant: the aggregate computed before the row is in.
CommittedRatings(r) == {q \in rated : craftsman[q] = craftsman[r]}

\* The ratings count(*) sees: the committed ones and its own.
VisibleRatings(r) == {q \in rated \cup {r} : craftsman[q] = craftsman[r]}

Queued(r) == \E k \in Craftsmen : \E i \in DOMAIN profileQueue[k] :
               profileQueue[k][i].request = r

\* The UPDATE of the profile takes its snapshot, then waits for the row's lock.
BeginAggregate(r) ==
  LET k == craftsman[r] IN
  /\ r \in rating /\ ~Queued(r)
  /\ profileQueue' = [profileQueue EXCEPT
       ![k] = Append(@, [request |-> r, count |-> Cardinality(VisibleRatings(r))])]
  /\ overlapped' = IF profileQueue[k] = <<>> THEN overlapped \ {k}
                   ELSE overlapped \cup {k}
  /\ UNCHANGED <<requestVars, deletionVars, rated, rating, ratingsCount, contactVars>>

\* The first in line writes the profile and commits.
CommitRating(k) ==
  /\ profileQueue[k] # <<>>
  /\ LET first == Head(profileQueue[k]) IN
     /\ ratingsCount' = [ratingsCount EXCEPT ![k] = first.count]
     /\ rated'  = rated \cup {first.request}
     /\ rating' = rating \ {first.request}
  /\ profileQueue' = [profileQueue EXCEPT ![k] = Tail(@)]
  /\ UNCHANGED <<requestVars, deletionVars, overlapped, contactVars>>

-----------------------------------------------------------------------------
(* Direct contact after an expiry. *)

\* The list is withdrawn two hours after the expiry.
GetTooOld(r) ==
  /\ status[r] = "expired" /\ r \notin tooOld
  /\ tooOld' = tooOld \cup {r}
  /\ UNCHANGED <<requestVars, deletionVars, ratingVars, contacts, tap, headsUp, crossed>>

\* Mutant: the list handed out as soon as the search has begun.
AnyRequest(r) == status[r] # "none" /\ r \notin tooOld

FindExpiredRequest(r) == status[r] = "expired" /\ r \notin tooOld

\* Of findCraftsmen's gates, the one that changes here; every craftsman is near,
\* verified and of the trade.
FindCraftsmen == Craftsmen \ deleted

\* recordContact: a WhatsApp or call tap on a craftsman of the list.
RecordContact(t, r, k, channel) ==
  /\ tap[t].step = "idle"
  /\ ClientOf[r] \notin deleted
  /\ FindExpiredRequest(r)
  /\ k \in FindCraftsmen
  /\ tap' = [tap EXCEPT ![t] = [step |-> "listed", contact |-> <<r, k, channel>>]]
  /\ crossed' = IF \E s \in Taps : tap[s].step # "idle" /\ tap[s].contact[1] = r
                                                        /\ tap[s].contact[2] = k
                THEN crossed \cup {<<r, k>>} ELSE crossed
  /\ UNCHANGED <<requestVars, deletionVars, ratingVars, tooOld, contacts, headsUp>>

\* Mutant: only the same channel counts as a previous contact.
PreviousOnChannel(x) == x \in contacts

PreviousContact(x) == \E y \in contacts : y[1] = x[1] /\ y[2] = x[2]

LookForPrevious(t) ==
  /\ tap[t].step = "listed"
  /\ tap' = [tap EXCEPT ![t].step =
               IF PreviousContact(tap[t].contact) THEN "again" ELSE "first"]
  /\ UNCHANGED <<requestVars, deletionVars, ratingVars, tooOld, contacts, headsUp, crossed>>

\* INSERT ... ON CONFLICT DO NOTHING, then a push the first time.
InsertContact(t) ==
  LET x == tap[t].contact IN
  /\ tap[t].step \in {"again", "first"}
  /\ contacts' = contacts \cup {x}
  /\ headsUp' = IF tap[t].step = "first" THEN [headsUp EXCEPT ![x[1]][x[2]] = @ + 1]
                ELSE headsUp
  /\ tap' = [tap EXCEPT ![t] = IdleTap]
  /\ UNCHANGED <<requestVars, deletionVars, ratingVars, tooOld, crossed>>

-----------------------------------------------------------------------------
\* The statements of ServiceRequests none of this interferes with.
Statement ==
  /\ \/ \E r \in Requests : ExpireRequest(r) \/ ConfirmCompletion(r) \/ CancelByClient(r)
     \/ \E r \in Requests, k \in Craftsmen :
          StartJob(r, k) \/ CompleteJob(r, k) \/ CancelJob(r, k)
     \/ ExpireOrphanedPendingRequests
     \/ \E u \in Users : AdminCancelActiveRequests(u)
  /\ UNCHANGED <<deletionVars, ratingVars, contactVars>>

AftermathNext ==
  \/ Statement
  \/ \E r \in Requests :
       \/ AuthGuardPasses(r) \/ InsertRequest(r) \/ InsertRefused(r)
       \/ InsertRating(r) \/ BeginAggregate(r) \/ GetTooOld(r)
       \/ \E k \in Craftsmen : Accept(r, k)
  \/ \E k \in Craftsmen : CommitRating(k)
  \/ \E u \in Users : BeginDeletion(u) \/ CommitDeletion(u)
  \/ \E t \in Taps :
       \/ \E x \in Contact : RecordContact(t, x[1], x[2], x[3])
       \/ LookForPrevious(t) \/ InsertContact(t)

AftermathSpec == AftermathInit /\ [][AftermathNext]_aftermathVars

-----------------------------------------------------------------------------
AftermathTypeOK ==
  /\ TypeOK
  /\ creating \cup rated \cup rating \cup tooOld \subseteq Requests
  /\ counted \cup deleted \cup overtaken \subseteq Users
  /\ overlapped \subseteq Craftsmen
  /\ \A k \in Craftsmen : \A i \in DOMAIN profileQueue[k] :
       profileQueue[k][i] \in [request : Requests, count : 1 .. Cardinality(Requests)]
  /\ ratingsCount \in [Craftsmen -> 0 .. Cardinality(Requests)]
  /\ contacts \subseteq Contact
  /\ tap \in [Taps -> [step : {"idle", "listed", "again", "first"},
                       contact : Contact \cup {NoContact}]]
  /\ headsUp \in [Requests -> [Craftsmen -> Nat]]
  /\ crossed \subseteq Requests \X Craftsmen

(***************************************************************************)
(* "A client/craftsman can't vanish out from under a counterparty mid-job" *)
(* (users.service.ts:207-213): neither page of an account that is there    *)
(* shows a job with one that is deleted, but for requests inserted or      *)
(* accepted after the deletion counted; nothing checks deleted_at then.    *)
(***************************************************************************)
DeletedHasNoJob ==
  \A c \in Clients, k \in Craftsmen :
    (ActiveRequest(c) \cap ActiveJob(k)) # {} =>
      {c, k} \cap deleted \subseteq overtaken

(***************************************************************************)
(* Only missions a client saw completed are rated, every rated row of the  *)
(* administrators' history is a completed job in the history of the        *)
(* craftsman it names, and the count on a profile never runs ahead of the  *)
(* ratings committed, however their UPDATEs queue.  When the last of them  *)
(* overlapped no other, it is exactly their number                         *)
(* (matching.service.ts:329-372).                                          *)
(***************************************************************************)
RatingsCounted ==
  /\ \A c \in Clients : RequestHistory(c) \cap (rated \cup rating) \subseteq CompletedMissions(c)
  /\ \A row \in OpsRequestHistory :
       row.rated => row.request \in JobHistory(row.craftsman) /\ row.status = "completed"
  /\ \A k \in Craftsmen :
       LET earned == Cardinality(JobHistory(k) \cap rated) IN
       /\ ratingsCount[k] <= earned
       /\ profileQueue[k] = <<>> /\ k \notin overlapped => ratingsCount[k] = earned

(***************************************************************************)
(* The administrators' funnel counts contacts "of those expired requests"  *)
(* (ops.service.ts:37-40), a row of the history has contacts or a          *)
(* craftsman, never both, and a craftsman hears of a client's first tap on *)
(* any channel, once ("the first time this client reaches out",            *)
(* fallback-contacts.service.ts:71-75), unless two taps overlap.           *)
(***************************************************************************)
ContactsHeardOnce ==
  /\ LET funnel == GetStats.directContact IN
       /\ funnel.contacted \subseteq funnel.expired
  /\ \A row \in OpsRequestHistory : row.contacts # {} => row.craftsman = NoCraftsman
  /\ \A r \in Requests, k \in Craftsmen :
       LET told == headsUp[r][k] IN
       /\ told > 0 <=> \E x \in contacts : x[1] = r /\ x[2] = k
       /\ told > 1 => <<r, k>> \in crossed
=============================================================================
