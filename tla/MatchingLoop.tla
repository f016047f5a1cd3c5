----------------------------- MODULE MatchingLoop -----------------------------
(***************************************************************************)
(* The matching gateway (backend/src/matching/matching.gateway.ts) with    *)
(* the controllers that call it, over the service_requests table           *)
(* (ServiceRequests) and the user_blocks table.                            *)
(*                                                                         *)
(* Every request has one runMatchingLoop running in the memory of the one  *)
(* server process.  The process is single-threaded: code between two       *)
(* awaits runs alone, and anything may run while a promise is pending.  An *)
(* action is therefore one continuation: from the settling of an await     *)
(* (the database or Redis answering, a timer firing, the accept window     *)
(* settling) to the next await.  pc[r] names the await the loop of r is    *)
(* suspended at, joining[k] the one of craftsman k's online handler, and   *)
(* replies holds the HTTP handlers whose UPDATE has committed and whose    *)
(* continuation has not run.  A SQL statement takes effect at the moment   *)
(* its continuation runs, except where another party acts on the rows in   *)
(* between: those handlers are split into a commit and a reply, and the    *)
(* two readings of the blocks into the query and what is done with it.     *)
(*                                                                         *)
(* Distances, radii and presence are abstracted to "any set of craftsmen   *)
(* may be near"; clock time to the order of timers (see CloseWindow).      *)
(***************************************************************************)
EXTENDS Naturals, FiniteSets

CONSTANTS
  Requests, Clients, Craftsmen, ClientOf, NoCraftsman,
  NoClient,       \* no entry in activeAssignments
  NoRequest,      \* an online handler that is not checking any request
  TightRequests,  \* the requests of a taxi/camion category
  StandardSteps,  \* dispatch steps of a regular category: 2 in the code
  TightSteps,     \* dispatch steps of taxi/camion: 5 in the code
  Joiners,        \* craftsmen who may come online while a search runs
  Blockers,       \* clients who may block or unblock craftsmen
  ResetUsers,     \* users an administrator may reset
  MaxCrashes      \* how often the process may die

ASSUME LoopConstants ==
  /\ ClientOf \in [Requests -> Clients]
  /\ Clients \cap Craftsmen = {}
  /\ NoCraftsman \notin Craftsmen \cup Clients
  /\ NoClient \notin Clients
  /\ NoRequest \notin Requests
  /\ TightRequests \subseteq Requests
  /\ StandardSteps \in Nat \ {0}
  /\ TightSteps \in Nat \ {0}
  /\ Joiners \subseteq Craftsmen
  /\ Blockers \subseteq Clients
  /\ ResetUsers \subseteq Clients \cup Craftsmen
  /\ MaxCrashes \in Nat

VARIABLES
  \* the database
  status, craftsman,    \* service_requests
  blocks,               \* user_blocks, as <<craftsman, client>> either way round
  standing,             \* standing[r]: blocked ever since r was created (history)
  \* runMatchingLoop, one per request
  pc,                   \* the await the loop is suspended at
  step,                 \* dispatch step reached
  window,               \* the accept window: "unopened", "open", "settled"
  acceptedBy,           \* what it settled with; NoCraftsman for '' and null
  offeredTo,            \* the search's offeredTo set
  blockedIds,           \* blockedCraftsmanIds, read once per search
  others,               \* otherCandidateIds, copied when the accept is taken up
  \* the gateway's maps
  cancelledRequestIds, activeAssignments,
  \* handlers under way
  joining,              \* handleCraftsmanOnline, one per craftsman
  replies,              \* HTTP handlers between their commit and their reply
  \* the users' apps
  cards,                \* cards[r]: craftsmen last told request:new, not withdrawn
  cancelNotice,         \* cancelled requests whose counterparty was told
  \* the process
  up, crashes

tableVars   == <<status, craftsman>>
blockVars   == <<blocks, standing>>
searchVars  == <<step, window, acceptedBy, offeredTo, blockedIds, others>>
gatewayVars == <<cancelledRequestIds, activeAssignments>>
appVars     == <<cards, cancelNotice>>
\* What no step of a loop changes.
outsideVars == <<blockVars, joining, replies, up, crashes>>
vars == <<tableVars, pc, searchVars, gatewayVars, appVars, outsideVars>>

Table == INSTANCE ServiceRequests

\* The awaits of runMatchingLoop between activeSearches.set and .delete.
SearchPoints == {"blocks", "answered", "live", "sleeping", "wait", "settle", "assign",
                 "announce", "expire"}
Points == SearchPoints \cup {"none", "created", "done", "lost"}

\* r has an entry in activeSearches.
Searching(r) == pc[r] \in SearchPoints

Blocked(k, r) == <<k, ClientOf[r]>> \in blocks
Steps(r) == IF r \in TightRequests THEN TightSteps ELSE StandardSteps
BlockedFrom(r) == {k \in Craftsmen : Blocked(k, r)}
Idle == [at |-> NoRequest, rows |-> {}, verdict |-> "asked"]

Init ==
  /\ Table!Init
  /\ blocks = {}
  /\ standing = [r \in Requests |-> {}]
  /\ pc         = [r \in Requests |-> "none"]
  /\ step       = [r \in Requests |-> 0]
  /\ window     = [r \in Requests |-> "unopened"]
  /\ acceptedBy = [r \in Requests |-> NoCraftsman]
  /\ offeredTo  = [r \in Requests |-> {}]
  /\ blockedIds = [r \in Requests |-> {}]
  /\ others     = [r \in Requests |-> {}]
  /\ cancelledRequestIds = {}
  /\ activeAssignments = [k \in Craftsmen |-> NoClient]
  /\ joining = [k \in Craftsmen |-> Idle]
  /\ replies = {}
  /\ cards = [r \in Requests |-> {}]
  /\ cancelNotice = {}
  /\ up = TRUE
  /\ crashes = 0

-----------------------------------------------------------------------------
(* The loop.                                                               *)

MoveTo(r, point) == pc' = [pc EXCEPT ![r] = point]

\* createRequest: the row exists, the handler has not called the loop yet.
CreateRequest(r) ==
  /\ up
  /\ Table!CreateServiceRequest(r)
  /\ MoveTo(r, "created")
  /\ standing' = [standing EXCEPT ![r] = BlockedFrom(r)]
  /\ UNCHANGED <<searchVars, gatewayVars, appVars, blocks, joining, replies, up, crashes>>

\* activeSearches.set, then the query for the client's blocks.
StartLoop(r) ==
  /\ pc[r] = "created"
  /\ MoveTo(r, "blocks")
  /\ UNCHANGED <<tableVars, searchVars, gatewayVars, appVars, outsideVars>>

\* The check in front of each dispatch step.
DispatchUnlessCancelled(r) ==
  MoveTo(r, IF r \in cancelledRequestIds THEN "settle" ELSE "live")

\* getBlockedCounterpartIds reads the blocks; its answer is on the way.
ReadBlocks(r) ==
  /\ pc[r] = "blocks"
  /\ blockedIds' = [blockedIds EXCEPT ![r] = BlockedFrom(r)]
  /\ MoveTo(r, "answered")
  /\ UNCHANGED <<tableVars, step, window, acceptedBy, offeredTo, others, gatewayVars,
                 appVars, outsideVars>>

\* The blocks are back: the window opens and, at offset 0, step 1 begins.
OpenAcceptWindow(r) ==
  /\ pc[r] = "answered"
  /\ window' = [window EXCEPT ![r] = "open"]
  /\ step' = [step EXCEPT ![r] = 1]
  /\ DispatchUnlessCancelled(r)
  /\ UNCHANGED <<tableVars, acceptedBy, offeredTo, blockedIds, others, gatewayVars,
                 appVars, outsideVars>>

\* request:new to some of the craftsmen neither offered nor blocked so far.
Offer(r) ==
  \E C \in SUBSET (Craftsmen \ (offeredTo[r] \cup blockedIds[r])) :
    /\ offeredTo' = [offeredTo EXCEPT ![r] = @ \cup C]
    /\ cards'     = [cards EXCEPT ![r] = @ \cup C]

\* The end of a dispatch step: wait for the next one, begin it at once when
\* the database was so slow that its offset has passed, or, after the last,
\* wait for the window.
FinishStep(r) ==
  \/ /\ step[r] = Steps(r)
     /\ MoveTo(r, "settle")
     /\ UNCHANGED step
  \/ /\ step[r] < Steps(r)
     /\ step' = [step EXCEPT ![r] = @ + 1]
     /\ MoveTo(r, "wait") \/ DispatchUnlessCancelled(r)

\* dispatchStep, first half: the nearest live craftsmen are back from Redis.
OfferLive(r) ==
  /\ pc[r] = "live"
  /\ Offer(r)
  /\ IF r \in TightRequests
     THEN FinishStep(r)
     ELSE MoveTo(r, "sleeping") /\ UNCHANGED step
  /\ UNCHANGED <<tableVars, window, acceptedBy, blockedIds, others, gatewayVars,
                 cancelNotice, outsideVars>>

\* dispatchStep, second half: the last-known-location candidates are back.
OfferSleeping(r) ==
  /\ pc[r] = "sleeping"
  /\ Offer(r)
  /\ FinishStep(r)
  /\ UNCHANGED <<tableVars, window, acceptedBy, blockedIds, others, gatewayVars,
                 cancelNotice, outsideVars>>

\* settlesWithin: the step's offset is reached before the window settles ...
StepDue(r) ==
  /\ pc[r] = "wait"
  /\ window[r] = "open"
  /\ DispatchUnlessCancelled(r)
  /\ UNCHANGED <<tableVars, searchVars, gatewayVars, appVars, outsideVars>>

\* ... or the window settles first and the remaining steps are dropped.
SettledEarly(r) ==
  /\ pc[r] = "wait"
  /\ window[r] = "settled"
  /\ MoveTo(r, "settle")
  /\ UNCHANGED <<tableVars, searchVars, gatewayVars, appVars, outsideVars>>

\* request:unavailable to everyone the search offered the request to.
WithdrawOffers(r) == cards' = [cards EXCEPT ![r] = @ \ offeredTo[r]]

\* The window has settled and abortMatchingLoop flagged the request.
StopCancelled(r) ==
  /\ pc[r] = "settle" /\ window[r] = "settled"
  /\ r \in cancelledRequestIds
  /\ cancelledRequestIds' = cancelledRequestIds \ {r}
  /\ WithdrawOffers(r)
  /\ MoveTo(r, "done")
  /\ UNCHANGED <<tableVars, searchVars, activeAssignments, cancelNotice,
                 outsideVars>>

\* ... with a craftsman's accept: copy the candidates, then tryAssign.
TakeUpAccept(r) ==
  /\ pc[r] = "settle" /\ window[r] = "settled"
  /\ r \notin cancelledRequestIds
  /\ acceptedBy[r] # NoCraftsman
  /\ others' = [others EXCEPT ![r] = offeredTo[r]]
  /\ MoveTo(r, "assign")
  /\ UNCHANGED <<tableVars, step, window, acceptedBy, offeredTo, blockedIds,
                 gatewayVars, appVars, outsideVars>>

\* Mutant: a search that gives up whatever the window settled with.
GiveUpAnyway(r) ==
  /\ pc[r] = "settle" /\ window[r] = "settled"
  /\ r \notin cancelledRequestIds
  /\ WithdrawOffers(r)
  /\ MoveTo(r, "expire")
  /\ UNCHANGED <<tableVars, searchVars, gatewayVars, cancelNotice, outsideVars>>

\* ... with nobody's.
GiveUp(r) ==
  /\ pc[r] = "settle" /\ window[r] = "settled"
  /\ r \notin cancelledRequestIds
  /\ acceptedBy[r] = NoCraftsman
  /\ WithdrawOffers(r)
  /\ MoveTo(r, "expire")
  /\ UNCHANGED <<tableVars, searchVars, gatewayVars, cancelNotice, outsideVars>>

\* Mutant: an assignment that does not look at the row's status.
AssignBlindly(r) ==
  /\ pc[r] = "assign"
  /\ status'    = [status EXCEPT ![r] = "assigned"]
  /\ craftsman' = [craftsman EXCEPT ![r] = acceptedBy[r]]
  /\ MoveTo(r, "announce")
  /\ UNCHANGED <<searchVars, gatewayVars, appVars, outsideVars>>

\* tryAssign wins the compare-and-swap; the winner's profile is then read.
AssignWon(r) ==
  /\ pc[r] = "assign"
  /\ Table!TryAssign(r, acceptedBy[r])
  /\ MoveTo(r, "announce")
  /\ UNCHANGED <<searchVars, gatewayVars, appVars, outsideVars>>

\* Mutant: the early return that forgets the offers.
AssignLostQuietly(r) ==
  /\ pc[r] = "assign"
  /\ status[r] # "pending"
  /\ MoveTo(r, "done")
  /\ UNCHANGED <<tableVars, searchVars, gatewayVars, appVars, outsideVars>>

\* Mutant: the relay started for a craftsman who lost.
AssignLostButRelayed(r) ==
  /\ pc[r] = "assign"
  /\ status[r] # "pending"
  /\ WithdrawOffers(r)
  /\ activeAssignments' = [activeAssignments EXCEPT ![acceptedBy[r]] = ClientOf[r]]
  /\ MoveTo(r, "done")
  /\ UNCHANGED <<tableVars, searchVars, cancelledRequestIds, cancelNotice, outsideVars>>

\* tryAssign matches no row: the request left pending in the meantime.
AssignLost(r) ==
  /\ pc[r] = "assign"
  /\ status[r] # "pending"
  /\ WithdrawOffers(r)
  /\ MoveTo(r, "done")
  /\ UNCHANGED <<tableVars, searchVars, gatewayVars, cancelNotice, outsideVars>>

\* Mutant: the relay pointed at the winner instead of the client.
AnnounceToSelf(r) ==
  /\ pc[r] = "announce"
  /\ activeAssignments' = [activeAssignments EXCEPT ![acceptedBy[r]] = acceptedBy[r]]
  /\ cards' = [cards EXCEPT ![r] = @ \ (others[r] \cup {acceptedBy[r]})]
  /\ MoveTo(r, "done")
  /\ UNCHANGED <<tableVars, searchVars, cancelledRequestIds, cancelNotice,
                 outsideVars>>

\* The profile is back: start the relay, tell the client, the winner and the
\* candidates copied by TakeUpAccept.
Announce(r) ==
  /\ pc[r] = "announce"
  /\ activeAssignments' = [activeAssignments EXCEPT ![acceptedBy[r]] = ClientOf[r]]
  /\ cards' = [cards EXCEPT ![r] = @ \ (others[r] \cup {acceptedBy[r]})]
  /\ MoveTo(r, "done")
  /\ UNCHANGED <<tableVars, searchVars, cancelledRequestIds, cancelNotice,
                 outsideVars>>

\* expireAndNotify: matches no row when the request already left pending.
Expire(r) ==
  /\ pc[r] = "expire"
  /\ \/ Table!ExpireRequest(r)
     \/ status[r] # "pending" /\ UNCHANGED tableVars
  /\ MoveTo(r, "done")
  /\ UNCHANGED <<searchVars, gatewayVars, appVars, outsideVars>>

LoopStep(r) ==
  \/ StartLoop(r) \/ ReadBlocks(r) \/ OpenAcceptWindow(r)
  \/ OfferLive(r) \/ OfferSleeping(r)
  \/ StepDue(r)   \/ SettledEarly(r)
  \/ StopCancelled(r) \/ TakeUpAccept(r) \/ GiveUp(r)
  \/ AssignWon(r) \/ AssignLost(r) \/ Announce(r) \/ Expire(r)

-----------------------------------------------------------------------------
(* Timers and the accept message.                                          *)

SettleWith(r, k) ==
  /\ window'     = [window EXCEPT ![r] = "settled"]
  /\ acceptedBy' = [acceptedBy EXCEPT ![r] = k]

\* Mutant: the timer drops the resolver and never resolves the promise.
CloseWithoutSettling(r) ==
  /\ window[r] = "open"
  /\ pc[r] # "wait"
  /\ window' = [window EXCEPT ![r] = "unopened"]
  /\ UNCHANGED <<tableVars, pc, step, acceptedBy, offeredTo, blockedIds, others,
                 gatewayVars, appVars, outsideVars>>

\* The 75s timer.  Every step offset is below 75s, so it cannot fire while
\* the loop is waiting for one.
CloseWindow(r) ==
  /\ window[r] = "open"
  /\ pc[r] # "wait"
  /\ SettleWith(r, NoCraftsman)
  /\ UNCHANGED <<tableVars, pc, step, offeredTo, blockedIds, others,
                 gatewayVars, appVars, outsideVars>>

\* handleAccept: any craftsman's message settles an open window; without one
\* there is no resolver and nothing happens.
HandleAccept(k, r) ==
  /\ window[r] = "open"
  /\ SettleWith(r, k)
  /\ UNCHANGED <<tableVars, pc, step, offeredTo, blockedIds, others,
                 gatewayVars, appVars, outsideVars>>

\* abortMatchingLoop's 85s timer, which outlasts the window.
FlagExpires(r) ==
  /\ r \in cancelledRequestIds
  /\ pc[r] # "created" /\ window[r] # "open"
  /\ cancelledRequestIds' = cancelledRequestIds \ {r}
  /\ UNCHANGED <<tableVars, pc, searchVars, activeAssignments, appVars,
                 outsideVars>>

-----------------------------------------------------------------------------
(* handleCraftsmanOnline.                                                  *)

\* The for loop over the rows still to visit, up to its next await: rows with
\* no live search are skipped, the block check of the next one is issued.
VisitRows(k, rows) ==
  \/ \E r \in rows, skipped \in SUBSET {q \in rows : ~Searching(q)} :
       /\ Searching(r)
       /\ joining' = [joining EXCEPT
                        ![k] = [at |-> r, rows |-> rows \ ({r} \cup skipped),
                                verdict |-> "asked"]]
  \/ /\ \A r \in rows : ~Searching(r)
     /\ joining' = [joining EXCEPT ![k] = Idle]

\* The craftsman is in presence and findPendingNear answers with some of the
\* pending requests.  One handler at a time per craftsman.
ComeOnline(k) ==
  /\ up
  /\ joining[k] = Idle
  /\ \E rows \in SUBSET {r \in Requests : status[r] = "pending"} : VisitRows(k, rows)
  /\ UNCHANGED <<tableVars, pc, searchVars, gatewayVars, appVars, blockVars,
                 replies, up, crashes>>

\* Mutant: the late joiner is not checked against the blocks.
OfferUnchecked(k) ==
  LET r == joining[k].at IN
  /\ joining[k].verdict # "asked"
  /\ offeredTo' = [offeredTo EXCEPT ![r] = @ \cup {k}]
  /\ cards'     = [cards EXCEPT ![r] = @ \cup {k}]
  /\ VisitRows(k, joining[k].rows)
  /\ UNCHANGED <<tableVars, pc, step, window, acceptedBy, blockedIds, others,
                 gatewayVars, cancelNotice, blockVars, replies, up, crashes>>

\* isBlockedEitherWay reads the blocks; its answer is on the way.
CheckBlocks(k) ==
  LET r == joining[k].at IN
  /\ r # NoRequest
  /\ joining[k].verdict = "asked"
  /\ joining' = [joining EXCEPT ![k].verdict = IF Blocked(k, r) THEN "blocked" ELSE "free"]
  /\ UNCHANGED <<tableVars, pc, searchVars, gatewayVars, appVars, blockVars,
                 replies, up, crashes>>

\* The answer is back: offer the request, whatever became of its search, and go
\* on with the rows left.
OfferLateJoiner(k) ==
  LET r == joining[k].at IN
  /\ joining[k].verdict # "asked"
  /\ IF joining[k].verdict = "blocked"
     THEN UNCHANGED <<offeredTo, cards>>
     ELSE /\ offeredTo' = [offeredTo EXCEPT ![r] = @ \cup {k}]
          /\ cards'     = [cards EXCEPT ![r] = @ \cup {k}]
  /\ VisitRows(k, joining[k].rows)
  /\ UNCHANGED <<tableVars, pc, step, window, acceptedBy, blockedIds, others,
                 gatewayVars, cancelNotice, blockVars, replies, up, crashes>>

-----------------------------------------------------------------------------
(* The HTTP handlers of MatchingController and AdminDirectoryController.   *)

Reply(op, r, k) == [op |-> op, request |-> r, craftsman |-> k]

\* A handler whose UPDATE commits, its continuation still to run.
Commit(statement, reply) ==
  /\ up
  /\ statement
  /\ replies' = replies \cup {reply}
  /\ UNCHANGED <<pc, searchVars, gatewayVars, appVars, blockVars, joining, up,
                 crashes>>

\* A handler whose continuation changes no state of the gateway.
CommitOnly(statement) ==
  /\ up
  /\ statement
  /\ UNCHANGED <<pc, searchVars, gatewayVars, appVars, outsideVars>>

StartRequest(r, k)    == CommitOnly(Table!StartJob(r, k))
ConfirmComplete(r)    == CommitOnly(Table!ConfirmCompletion(r))
CompleteRequest(r, k) == Commit(Table!CompleteJob(r, k), Reply("complete", r, k))
CancelByCraftsman(r, k) == Commit(Table!CancelJob(r, k), Reply("jobCancel", r, k))

\* Mutant: the UPDATE does not return the craftsman who had the job.
CancelReturningNobody(r) ==
  Commit(Table!CancelByClient(r), Reply("clientCancel", r, NoCraftsman))

CancelByClient(r) ==
  Commit(Table!CancelByClient(r), Reply("clientCancel", r, craftsman[r]))

\* cancelActiveMissions: adminCancelActiveRequests maps over the [rows, count]
\* pair instead of the rows, so no id reaches the handler; all it still does
\* is clear the relay of the user being reset.
CancelActiveMissions(u) ==
  Commit(Table!AdminCancelActiveRequests(u), Reply("adminCancel", NoRequest, u))

\* clearActiveAssignment
ClearAssignment(k) ==
  activeAssignments' =
    [c \in Craftsmen |-> IF c = k THEN NoClient ELSE activeAssignments[c]]

\* abortMatchingLoop
AbortMatchingLoop(r) ==
  /\ cancelledRequestIds' = cancelledRequestIds \cup {r}
  /\ IF window[r] = "open"
     THEN SettleWith(r, NoCraftsman)
     ELSE UNCHANGED <<window, acceptedBy>>

\* The continuation of cancelRequest for a client.
AfterClientCancel(m) ==
  /\ m.op = "clientCancel"
  /\ AbortMatchingLoop(m.request)
  /\ IF m.craftsman = NoCraftsman
     THEN UNCHANGED <<cancelNotice, activeAssignments>>
     ELSE /\ cancelNotice' = cancelNotice \cup {m.request}
          /\ ClearAssignment(m.craftsman)

\* The continuations that only clear the relay; a craftsman's cancellation
\* also tells the client.
AfterJob(m) ==
  /\ m.op \in {"complete", "jobCancel", "adminCancel"}
  /\ cancelNotice' = IF m.op = "jobCancel" THEN cancelNotice \cup {m.request}
                                           ELSE cancelNotice
  /\ ClearAssignment(m.craftsman)
  /\ UNCHANGED <<window, acceptedBy, cancelledRequestIds>>

RunReply ==
  \E m \in replies :
    /\ replies' = replies \ {m}
    /\ AfterClientCancel(m) \/ AfterJob(m)
    /\ UNCHANGED <<tableVars, pc, step, offeredTo, blockedIds, others, cards,
                   blockVars, joining, up, crashes>>

-----------------------------------------------------------------------------
(* Blocks, and the process itself.                                         *)

SetBlock(k, c) ==
  /\ up
  /\ blocks' \in {blocks \cup {<<k, c>>}, blocks \ {<<k, c>>}}
  /\ standing' = [r \in Requests |-> {q \in standing[r] : <<q, ClientOf[r]>> \in blocks'}]
  /\ UNCHANGED <<tableVars, pc, searchVars, gatewayVars, appVars, joining,
                 replies, up, crashes>>

\* The process dies: killed, redeployed, or taken down by an error nobody
\* catches (runMatchingLoop is called with void).  Its memory is lost.
Crash ==
  /\ up
  /\ crashes < MaxCrashes
  /\ up' = FALSE
  /\ crashes' = crashes + 1
  /\ pc' = [r \in Requests |->
              IF Searching(r) \/ pc[r] = "created" THEN "lost" ELSE pc[r]]
  /\ step'       = [r \in Requests |-> 0]
  /\ window'     = [r \in Requests |-> "unopened"]
  /\ acceptedBy' = [r \in Requests |-> NoCraftsman]
  /\ offeredTo'  = [r \in Requests |-> {}]
  /\ blockedIds' = [r \in Requests |-> {}]
  /\ others'     = [r \in Requests |-> {}]
  /\ cancelledRequestIds' = {}
  /\ activeAssignments' = [k \in Craftsmen |-> NoClient]
  /\ joining' = [k \in Craftsmen |-> Idle]
  /\ replies' = {}
  /\ UNCHANGED <<tableVars, appVars, blockVars>>

\* Mutant: a bootstrap without the sweep.
RestartWithoutSweep ==
  /\ ~up
  /\ up' = TRUE
  /\ UNCHANGED <<tableVars, pc, searchVars, gatewayVars, appVars, blockVars, joining,
                 replies, crashes>>

\* systemd starts it again; onApplicationBootstrap runs before it listens.
Restart ==
  /\ ~up
  /\ up' = TRUE
  /\ Table!ExpireOrphanedPendingRequests
  /\ UNCHANGED <<pc, searchVars, gatewayVars, appVars, blockVars, joining, replies,
                 crashes>>

-----------------------------------------------------------------------------
Next ==
  \/ \E r \in Requests :
       \/ CreateRequest(r)
       \/ LoopStep(r)
       \/ CloseWindow(r)
       \/ FlagExpires(r)
       \/ ConfirmComplete(r)
       \/ CancelByClient(r)
  \/ \E r \in Requests, k \in Craftsmen :
       \/ HandleAccept(k, r)
       \/ StartRequest(r, k)
       \/ CompleteRequest(r, k)
       \/ CancelByCraftsman(r, k)
  \/ \E k \in Joiners : ComeOnline(k)
  \/ \E k \in Craftsmen : CheckBlocks(k) \/ OfferLateJoiner(k)
  \/ \E u \in ResetUsers : CancelActiveMissions(u)
  \/ RunReply
  \/ \E k \in Craftsmen, c \in Blockers : SetBlock(k, c)
  \/ Crash
  \/ Restart

\* Timers fire, queries are answered or the process dies and is restarted,
\* and every continuation that can run runs.  Nothing is assumed of people.
Fairness ==
  /\ \A r \in Requests : WF_vars(LoopStep(r)) /\ WF_vars(CloseWindow(r))
  /\ \A k \in Craftsmen : WF_vars(CheckBlocks(k) \/ OfferLateJoiner(k))
  /\ WF_vars(RunReply)
  /\ WF_vars(Restart)

SafeSpec == Init /\ [][Next]_vars
Spec == SafeSpec /\ Fairness

-----------------------------------------------------------------------------
TypeOK ==
  /\ Table!TypeOK
  /\ blocks \subseteq Craftsmen \X Clients
  /\ standing \in [Requests -> SUBSET Craftsmen]
  /\ pc \in [Requests -> Points]
  /\ step \in [Requests -> Nat]
  /\ window \in [Requests -> {"unopened", "open", "settled"}]
  /\ acceptedBy \in [Requests -> Craftsmen \cup {NoCraftsman}]
  /\ offeredTo \in [Requests -> SUBSET Craftsmen]
  /\ blockedIds \in [Requests -> SUBSET Craftsmen]
  /\ others \in [Requests -> SUBSET Craftsmen]
  /\ cancelledRequestIds \subseteq Requests
  /\ activeAssignments \in [Craftsmen -> Clients \cup {NoClient}]
  /\ joining \in
       [Craftsmen -> [at : Requests \cup {NoRequest}, rows : SUBSET Requests,
                      verdict : {"asked", "free", "blocked"}]]
  /\ replies \subseteq
       [op : {"clientCancel"}, request : Requests,
        craftsman : Craftsmen \cup {NoCraftsman}]
       \cup [op : {"complete", "jobCancel"}, request : Requests,
             craftsman : Craftsmen]
       \cup [op : {"adminCancel"}, request : {NoRequest},
             craftsman : Clients \cup Craftsmen]
  /\ cards \in [Requests -> SUBSET Craftsmen]
  /\ cancelNotice \subseteq Requests
  /\ up \in BOOLEAN
  /\ crashes \in Nat

(***************************************************************************)
(* Nothing strands a pending request: while the server is up, each one     *)
(* still has its loop, or the handler about to start it.  A pending row    *)
(* without a loop would keep its client from ever ordering again           *)
(* (matching.gateway.ts:179-182), so every return of runMatchingLoop must  *)
(* leave the row in another status, and a restart must sweep the rest.     *)
(***************************************************************************)
PendingHasLoop ==
  up => \A r \in Requests :
          status[r] = "pending" => pc[r] = "created" \/ Searching(r)

(***************************************************************************)
(* When a search has ended nobody is left with its card: each of the four  *)
(* ways out of runMatchingLoop tells everyone in offeredTo                 *)
(* (matching.gateway.ts:160-163, 470-471).                                 *)
(***************************************************************************)
OffersWithdrawn == \A r \in Requests : pc[r] = "done" => cards[r] = {}

(***************************************************************************)
(* A craftsman the client has kept blocked since before the request was    *)
(* made never has its card, in whatever order the search's one read of the *)
(* blocks, its dispatch steps and the late joiners' own checks come: the   *)
(* two sources of offers filter on different reads, each with an await     *)
(* between the read and its use (matching.gateway.ts:474-477, 269-290,     *)
(* 549-553, 577-583).  The code does not keep the comment's "a block can't *)
(* change mid-search" for a block made, or lifted and made again, since.   *)
(***************************************************************************)
StandingBlockHolds == \A r \in Requests : cards[r] \cap standing[r] = {}

(***************************************************************************)
(* The other party of a cancelled job is told: once no handler is under    *)
(* way, a request cancelled while a craftsman had it has had its           *)
(* request:cancelled (matching.controller.ts:167-175, 186-189 and          *)
(* admin-directory.controller.ts:66-68).                                   *)
(***************************************************************************)
CancelNotified ==
  replies = {} =>
    \A r \in Requests :
      status[r] = "cancelled" /\ craftsman[r] # NoCraftsman => r \in cancelNotice

(***************************************************************************)
(* A craftsman's position goes to no client but one whose request they     *)
(* were given, whatever accepts, cancellations and other jobs of theirs    *)
(* interleave (matching.gateway.ts:147-149, 300-317).                      *)
(***************************************************************************)
RelayedToOwnClient ==
  \A k \in Craftsmen :
    activeAssignments[k] # NoClient =>
      \E r \in Requests : craftsman[r] = k /\ ClientOf[r] = activeAssignments[k]

(***************************************************************************)
(* The gateway drives the table only through its statements, in an order   *)
(* the table allows: no continuation writes from a stale read.             *)
(***************************************************************************)
ImplementsTable == Table!Spec

(***************************************************************************)
(* The client is promised more than SQL: see RequestLifecycle.             *)
(***************************************************************************)
ImplementsLifecycle == Table!ImplementsLifecycle

(***************************************************************************)
(* No search lasts for ever: every pending request is assigned, cancelled  *)
(* or expired, whatever is cancelled, accepted or crashes on the way       *)
(* (matching.gateway.ts:460-466, 179-182).                                 *)
(***************************************************************************)
SearchEnds == Table!Lifecycle!SearchEnds

(***************************************************************************)
(* The first accept wins: a craftsman whose accept settled the window gets *)
(* the job unless the request was cancelled (matching.gateway.ts:464); the *)
(* loop may be in the middle of a dispatch step, or not have looked at the *)
(* window yet.  A crash takes the accept with it.                          *)
(***************************************************************************)
AcceptHonoured ==
  \A r \in Requests, k \in Craftsmen :
    acceptedBy[r] = k ~> craftsman[r] = k \/ status[r] = "cancelled" \/ crashes > 0

(***************************************************************************)
(* The first accept wins, whatever else happens: the craftsman on a row is *)
(* the one whose accept settled its window, and a search that ends without *)
(* handing them the job was cancelled (matching.gateway.ts:464, 499-513,   *)
(* 660-672).  A crash takes the accept with it.                            *)
(***************************************************************************)
FirstAcceptWins ==
  crashes = 0 => \A r \in Requests :
    /\ craftsman[r] # NoCraftsman => craftsman[r] = acceptedBy[r]
    /\ pc[r] = "done" /\ acceptedBy[r] # NoCraftsman =>
         craftsman[r] = acceptedBy[r] \/ status[r] = "cancelled"
=============================================================================
