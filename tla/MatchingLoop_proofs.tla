-------------------------- MODULE MatchingLoop_proofs --------------------------
(***************************************************************************)
(* The matching gateway, for any sets of requests, clients and craftsmen,  *)
(* any number of dispatch steps and of crashes: its types, that every      *)
(* pending request has its loop, that the gateway runs the table only      *)
(* through its statements and so keeps what the table keeps, that standing *)
(* blocks hold, that positions go to the craftsman's own client, and       *)
(* under named conditions that every offer is withdrawn and every          *)
(* cancellation announced.                                                 *)
(***************************************************************************)
EXTENDS MatchingLoop, TLAPS

\* The row of r exists and has left pending, for good.
LeftPending(r) == status[r] \notin {"none", "pending"}

(* Only a request that left pending is ever flagged as cancelled, is about *)
(* to be (the cancel's UPDATE committed before its reply), or announced.   *)
CancelsAreReal ==
  /\ \A r \in cancelledRequestIds : LeftPending(r)
  /\ \A m \in replies : m.op = "clientCancel" => LeftPending(m.request)
  /\ \A r \in Requests : pc[r] = "announce" => LeftPending(r)

(* A loop past the accept window has a settled one, with the accept it is  *)
(* acting on; no other step settles it again.                              *)
AcceptInHand ==
  \A r \in Requests : pc[r] \in {"assign", "announce"} =>
    window[r] = "settled" /\ acceptedBy[r] \in Craftsmen

LoopInv == TypeOK /\ PendingHasLoop /\ CancelsAreReal /\ AcceptInHand

-----------------------------------------------------------------------------
LEMMA Constants ==
  /\ ClientOf \in [Requests -> Clients]
  /\ NoCraftsman \notin Craftsmen
  /\ NoRequest \notin Requests
  /\ Joiners \subseteq Craftsmen
  /\ ResetUsers \subseteq Clients \cup Craftsmen
  /\ Blockers \subseteq Clients
  /\ StandardSteps \in Nat
  /\ TightSteps \in Nat
BY LoopConstants

\* The initial state satisfies the invariant.
LEMMA InitLoop == Init => LoopInv
<1>. SUFFICES ASSUME Init PROVE LoopInv
  OBVIOUS
<1>1. TypeOK
  BY Constants DEF Init, TypeOK, Table!Init, Table!TypeOK, Table!Statuses, Points, Idle
<1>2. PendingHasLoop /\ CancelsAreReal /\ AcceptInHand
  BY DEF Init, Table!Init, PendingHasLoop, CancelsAreReal, AcceptInHand
<1>. QED
  BY <1>1, <1>2 DEF LoopInv

-----------------------------------------------------------------------------
(* The table below the gateway.                                            *)

\* The statements keep the table's types and never take a row back to pending.
LEMMA TableKeeps ==
  ASSUME Table!TypeOK, Table!Next
  PROVE  /\ Table!TypeOK'
         /\ \A r \in Requests : LeftPending(r) => LeftPending(r)'
         /\ \A r \in Requests : status[r] # "none" => status'[r] # "none"
<1>. USE DEF Table!TypeOK, Table!Statuses, Table!Active, Table!Closed, LeftPending
<1>1. ASSUME NEW r \in Requests,
             \/ Table!CreateServiceRequest(r) \/ Table!ExpireRequest(r)
             \/ Table!ConfirmCompletion(r) \/ Table!CancelByClient(r)
      PROVE  /\ Table!TypeOK'
             /\ \A q \in Requests : LeftPending(q) => LeftPending(q)'
             /\ \A q \in Requests : status[q] # "none" => status'[q] # "none"
  BY <1>1 DEF Table!CreateServiceRequest, Table!ExpireRequest,
              Table!ConfirmCompletion, Table!CancelByClient
<1>2. ASSUME NEW r \in Requests, NEW k \in Craftsmen,
             \/ Table!TryAssign(r, k) \/ Table!StartJob(r, k)
             \/ Table!CompleteJob(r, k) \/ Table!CancelJob(r, k)
      PROVE  /\ Table!TypeOK'
             /\ \A q \in Requests : LeftPending(q) => LeftPending(q)'
             /\ \A q \in Requests : status[q] # "none" => status'[q] # "none"
  BY <1>2 DEF Table!TryAssign, Table!StartJob, Table!CompleteJob, Table!CancelJob,
              Table!TransitionJob
<1>3. CASE Table!ExpireOrphanedPendingRequests
  BY <1>3 DEF Table!ExpireOrphanedPendingRequests
<1>4. ASSUME NEW u \in Clients \cup Craftsmen, Table!AdminCancelActiveRequests(u)
      PROVE  /\ Table!TypeOK'
             /\ \A q \in Requests : LeftPending(q) => LeftPending(q)'
             /\ \A q \in Requests : status[q] # "none" => status'[q] # "none"
  BY <1>4 DEF Table!AdminCancelActiveRequests
<1>. QED
  BY <1>1, <1>2, <1>3, <1>4 DEF Table!Next

\* Every step of the gateway is one statement on the table, or none.
LEMMA TableStep == AcceptInHand /\ [Next]_vars => Table!Next \/ UNCHANGED tableVars
<1>. SUFFICES ASSUME AcceptInHand, [Next]_vars PROVE Table!Next \/ UNCHANGED tableVars
  OBVIOUS
<1>1. ASSUME NEW r \in Requests, CreateRequest(r) PROVE Table!Next
  BY <1>1 DEF CreateRequest, Table!Next
<1>2. ASSUME NEW r \in Requests, AssignWon(r) PROVE Table!Next
  BY <1>2 DEF AssignWon, AcceptInHand, Table!Next
<1>3. ASSUME NEW r \in Requests, Expire(r) PROVE Table!Next \/ UNCHANGED tableVars
  BY <1>3 DEF Expire, Table!Next
<1>4. ASSUME NEW r \in Requests, LoopStep(r), ~AssignWon(r), ~Expire(r)
      PROVE  UNCHANGED tableVars
  BY <1>4 DEF LoopStep, StartLoop, ReadBlocks, OpenAcceptWindow, OfferLive, OfferSleeping, StepDue,
              SettledEarly, StopCancelled, TakeUpAccept, GiveUp, AssignLost, Announce
<1>5. ASSUME NEW r \in Requests, CloseWindow(r) \/ FlagExpires(r)
      PROVE  UNCHANGED tableVars
  BY <1>5 DEF CloseWindow, FlagExpires
<1>6. ASSUME NEW r \in Requests, ConfirmComplete(r) \/ CancelByClient(r)
      PROVE  Table!Next
  BY <1>6 DEF ConfirmComplete, CancelByClient, CommitOnly, Commit, Table!Next
<1>7. ASSUME NEW r \in Requests, NEW k \in Craftsmen, HandleAccept(k, r)
      PROVE  UNCHANGED tableVars
  BY <1>7 DEF HandleAccept
<1>8. ASSUME NEW r \in Requests, NEW k \in Craftsmen,
             StartRequest(r, k) \/ CompleteRequest(r, k) \/ CancelByCraftsman(r, k)
      PROVE  Table!Next
  BY <1>8 DEF StartRequest, CompleteRequest, CancelByCraftsman, CommitOnly, Commit,
              Table!Next
<1>9. ASSUME NEW k \in Craftsmen, ComeOnline(k) \/ CheckBlocks(k) \/ OfferLateJoiner(k)
      PROVE  UNCHANGED tableVars
  BY <1>9 DEF ComeOnline, CheckBlocks, OfferLateJoiner
<1>10. ASSUME NEW u \in ResetUsers, CancelActiveMissions(u) PROVE Table!Next
  BY <1>10, Constants DEF CancelActiveMissions, Commit, Table!Next
<1>11. CASE RunReply \/ Crash
  BY <1>11 DEF RunReply, Crash
<1>12. ASSUME NEW k \in Craftsmen, NEW c \in Blockers, SetBlock(k, c)
       PROVE  UNCHANGED tableVars
  BY <1>12 DEF SetBlock
<1>13. CASE Restart
  BY <1>13 DEF Restart, Table!Next
<1>14. CASE UNCHANGED vars
  BY <1>14 DEF vars
<1>. QED
  BY <1>1, <1>2, <1>3, <1>4, <1>5, <1>6, <1>7, <1>8, <1>9, <1>10, <1>11, <1>12,
     <1>13, <1>14, Constants DEF Next

-----------------------------------------------------------------------------
(* Types.                                                                  *)

LEMMA TableTypes ==
  ASSUME LoopInv, [Next]_vars
  PROVE  /\ Table!TypeOK'
         /\ \A r \in Requests : LeftPending(r) => LeftPending(r)'
         /\ \A r \in Requests : status[r] # "none" => status'[r] # "none"
<1>1. Table!TypeOK /\ AcceptInHand
  BY DEF LoopInv, TypeOK
<1>2. CASE Table!Next
  BY <1>1, <1>2, TableKeeps
<1>3. CASE UNCHANGED tableVars
  BY <1>1, <1>3 DEF tableVars, Table!TypeOK, LeftPending
<1>. QED
  BY <1>1, <1>2, <1>3, TableStep

\* The points the loop goes to are points.
LEMMA MoveTypes ==
  ASSUME TypeOK, NEW r \in Requests
  PROVE  /\ \A p \in Points : MoveTo(r, p) => pc' \in [Requests -> Points]
         /\ DispatchUnlessCancelled(r) => pc' \in [Requests -> Points]
         /\ FinishStep(r) => pc' \in [Requests -> Points] /\ step' \in [Requests -> Nat]
<1>1. \A p \in Points : MoveTo(r, p) => pc' \in [Requests -> Points]
  BY DEF MoveTo, TypeOK
<1>2. {"settle", "live", "wait", "sleeping"} \subseteq Points
  BY DEF Points, SearchPoints
<1>3. DispatchUnlessCancelled(r) => pc' \in [Requests -> Points]
  <2>1. CASE r \in cancelledRequestIds
    BY <1>1, <1>2, <2>1 DEF DispatchUnlessCancelled
  <2>2. CASE r \notin cancelledRequestIds
    BY <1>1, <1>2, <2>2 DEF DispatchUnlessCancelled
  <2>. QED
    BY <2>1, <2>2
<1>4. ASSUME FinishStep(r) PROVE pc' \in [Requests -> Points] /\ step' \in [Requests -> Nat]
  <2>1. pc' \in [Requests -> Points]
    BY <1>1, <1>2, <1>3, <1>4 DEF FinishStep
  <2>2. step' \in [Requests -> Nat]
    BY <1>4 DEF FinishStep, TypeOK
  <2>. QED
    BY <2>1, <2>2
<1>. QED
  BY <1>1, <1>3, <1>4

\* What an online handler holds, idle or at a row.
JoinEntry == [at : Requests \cup {NoRequest}, rows : SUBSET Requests,
              verdict : {"asked", "free", "blocked"}]

\* Looking at the next row of a late joiner's list keeps joining in its type.
LEMMA VisitTypes ==
  ASSUME TypeOK, NEW k \in Craftsmen, NEW rows \in SUBSET Requests, VisitRows(k, rows)
  PROVE  joining' \in [Craftsmen -> JoinEntry]
<1>1. joining \in [Craftsmen -> JoinEntry]
  BY DEF TypeOK, JoinEntry
<1>2. ASSUME NEW e \in JoinEntry, joining' = [joining EXCEPT ![k] = e]
      PROVE  joining' \in [Craftsmen -> JoinEntry]
  BY <1>1, <1>2
<1>3. CASE \A r \in rows : ~Searching(r)
  <2>1. joining' = [joining EXCEPT ![k] = Idle]
    BY <1>3 DEF VisitRows
  <2>2. Idle \in JoinEntry
    BY DEF Idle, JoinEntry
  <2>. QED
    BY <1>2, <2>1, <2>2
<1>4. CASE \E r \in rows : Searching(r)
  <2>1. PICK r \in rows, skipped \in SUBSET rows :
          joining' = [joining EXCEPT ![k] = [at |-> r, rows |-> rows \ ({r} \cup skipped),
                                             verdict |-> "asked"]]
    BY <1>4 DEF VisitRows
  <2>2. [at |-> r, rows |-> rows \ ({r} \cup skipped), verdict |-> "asked"] \in JoinEntry
    BY DEF JoinEntry
  <2>. QED
    BY <1>2, <2>1, <2>2
<1>. QED
  BY <1>3, <1>4

LEMMA TypeStep ==
  ASSUME LoopInv, [Next]_vars
  PROVE  TypeOK'
<1>0. Table!TypeOK' /\ TypeOK /\ AcceptInHand
  BY TableTypes DEF LoopInv
<1>j. joining \in [Craftsmen -> JoinEntry]
  BY <1>0 DEF TypeOK, JoinEntry
<1>k. joining' \in [Craftsmen -> JoinEntry] =>
        joining' \in [Craftsmen -> [at : Requests \cup {NoRequest}, rows : SUBSET Requests,
                                    verdict : {"asked", "free", "blocked"}]]
  BY DEF JoinEntry
<1>. USE <1>0 DEF TypeOK, searchVars, gatewayVars, appVars, outsideVars, blockVars
<1>1. ASSUME NEW r \in Requests, CreateRequest(r) PROVE TypeOK'
  <2>1. standing' \in [Requests -> SUBSET Craftsmen]
    BY <1>1 DEF CreateRequest, BlockedFrom
  <2>. QED
    BY <1>1, <2>1 DEF CreateRequest, MoveTo, Points
<1>2. ASSUME NEW r \in Requests, StartLoop(r) \/ ReadBlocks(r) \/ OpenAcceptWindow(r)
      PROVE  TypeOK'
  <2>1. CASE StartLoop(r)
    BY <2>1 DEF StartLoop, MoveTo, Points, SearchPoints
  <2>2. CASE OpenAcceptWindow(r)
    <3>1. pc' \in [Requests -> Points]
      BY <2>2, MoveTypes DEF OpenAcceptWindow
    <3>2. /\ window' \in [Requests -> {"unopened", "open", "settled"}]
          /\ step' \in [Requests -> Nat]
      BY <2>2 DEF OpenAcceptWindow
    <3>. QED
      BY <2>2, <3>1, <3>2 DEF OpenAcceptWindow
  <2>3. CASE ReadBlocks(r)
    <3>1. blockedIds' \in [Requests -> SUBSET Craftsmen]
      BY <2>3 DEF ReadBlocks, BlockedFrom
    <3>. QED
      BY <2>3, <3>1 DEF ReadBlocks, MoveTo, Points, SearchPoints
  <2>. QED
    BY <1>2, <2>1, <2>2, <2>3
<1>3. ASSUME NEW r \in Requests, OfferLive(r) \/ OfferSleeping(r) PROVE TypeOK'
  <2>1. Offer(r)
    BY <1>3 DEF OfferLive, OfferSleeping
  <2>2. offeredTo' \in [Requests -> SUBSET Craftsmen] /\ cards' \in [Requests -> SUBSET Craftsmen]
    BY <2>1 DEF Offer
  <2>3. pc' \in [Requests -> Points] /\ step' \in [Requests -> Nat]
    <3>1. CASE FinishStep(r)
      BY <3>1, MoveTypes
    <3>2. CASE MoveTo(r, "sleeping") /\ UNCHANGED step
      BY <3>2 DEF MoveTo, Points, SearchPoints
    <3>. QED
      BY <1>3, <3>1, <3>2 DEF OfferLive, OfferSleeping
  <2>. QED
    BY <1>3, <2>2, <2>3 DEF OfferLive, OfferSleeping
<1>4. ASSUME NEW r \in Requests, StepDue(r) \/ SettledEarly(r) PROVE TypeOK'
  BY <1>4 DEF StepDue, SettledEarly, DispatchUnlessCancelled, MoveTo, Points, SearchPoints
<1>5. ASSUME NEW r \in Requests, StopCancelled(r) \/ TakeUpAccept(r) \/ GiveUp(r)
      PROVE  TypeOK'
  <2>1. CASE StopCancelled(r)
    BY <2>1 DEF StopCancelled, WithdrawOffers, MoveTo, Points
  <2>2. CASE TakeUpAccept(r)
    BY <2>2 DEF TakeUpAccept, MoveTo, Points, SearchPoints
  <2>3. CASE GiveUp(r)
    BY <2>3 DEF GiveUp, WithdrawOffers, MoveTo, Points, SearchPoints
  <2>. QED
    BY <1>5, <2>1, <2>2, <2>3
<1>6. ASSUME NEW r \in Requests, AssignWon(r) \/ AssignLost(r) PROVE TypeOK'
  <2>1. CASE AssignWon(r)
    BY <2>1, MoveTypes DEF AssignWon, Points, SearchPoints
  <2>2. CASE AssignLost(r)
    BY <2>2 DEF AssignLost, WithdrawOffers, MoveTo, Points
  <2>. QED
    BY <1>6, <2>1, <2>2
<1>7. ASSUME NEW r \in Requests, Announce(r) PROVE TypeOK'
  BY <1>7, Constants DEF Announce, MoveTo, Points, SearchPoints
<1>8. ASSUME NEW r \in Requests, Expire(r) PROVE TypeOK'
  BY <1>8 DEF Expire, MoveTo, Points, SearchPoints
<1>9. ASSUME NEW r \in Requests, CloseWindow(r) \/ FlagExpires(r) PROVE TypeOK'
  BY <1>9 DEF CloseWindow, FlagExpires, SettleWith
<1>10. ASSUME NEW r \in Requests, NEW k \in Craftsmen, HandleAccept(k, r) PROVE TypeOK'
  BY <1>10 DEF HandleAccept, SettleWith
<1>11. ASSUME NEW r \in Requests, ConfirmComplete(r) PROVE TypeOK'
  BY <1>11 DEF ConfirmComplete, CommitOnly
<1>12. ASSUME NEW r \in Requests, NEW k \in Craftsmen, StartRequest(r, k) PROVE TypeOK'
  BY <1>12 DEF StartRequest, CommitOnly
<1>13. ASSUME NEW r \in Requests, CancelByClient(r) PROVE TypeOK'
  BY <1>13 DEF CancelByClient, Commit, Reply, Table!TypeOK
<1>14. ASSUME NEW r \in Requests, NEW k \in Craftsmen,
              CompleteRequest(r, k) \/ CancelByCraftsman(r, k)
       PROVE  TypeOK'
  BY <1>14 DEF CompleteRequest, CancelByCraftsman, Commit, Reply
<1>15. ASSUME NEW u \in ResetUsers, CancelActiveMissions(u) PROVE TypeOK'
  BY <1>15, Constants DEF CancelActiveMissions, Commit, Reply
<1>16. ASSUME NEW k \in Craftsmen, ComeOnline(k) \/ CheckBlocks(k) \/ OfferLateJoiner(k) PROVE TypeOK'
  <2>1. \A rows \in SUBSET Requests :
          VisitRows(k, rows) =>
            joining' \in [Craftsmen -> JoinEntry]
    BY VisitTypes
  <2>2. CASE ComeOnline(k)
    BY <1>k, <2>1, <2>2 DEF ComeOnline
  <2>4. CASE CheckBlocks(k)
    <3>1. \A v \in {"free", "blocked"} : [joining[k] EXCEPT !.verdict = v] \in JoinEntry
      BY <1>j DEF JoinEntry
    <3>2. PICK v \in {"free", "blocked"} : joining' = [joining EXCEPT ![k].verdict = v]
      <4>1. CASE Blocked(k, joining[k].at)
        BY <2>4, <4>1 DEF CheckBlocks
      <4>2. CASE ~Blocked(k, joining[k].at)
        BY <2>4, <4>2 DEF CheckBlocks
      <4>. QED
        BY <4>1, <4>2
    <3>3. joining' \in [Craftsmen -> JoinEntry]
      BY <1>j, <3>1, <3>2
    <3>. QED
      BY <1>k, <2>4, <3>3 DEF CheckBlocks
  <2>3. CASE OfferLateJoiner(k)
    <3>. DEFINE r == joining[k].at
    <3>1. joining[k].rows \in SUBSET Requests
      OBVIOUS
    <3>2. /\ offeredTo' \in [Requests -> SUBSET Craftsmen]
          /\ cards' \in [Requests -> SUBSET Craftsmen]
      <4>1. CASE joining[k].verdict = "blocked"
        BY <2>3, <4>1 DEF OfferLateJoiner
      <4>2. CASE joining[k].verdict # "blocked"
        BY <2>3, <4>2 DEF OfferLateJoiner
      <4>. QED
        BY <4>1, <4>2
    <3>3. joining' \in [Craftsmen -> JoinEntry]
      BY <2>1, <2>3, <3>1 DEF OfferLateJoiner
    <3>. QED
      BY <1>k, <2>3, <3>2, <3>3 DEF OfferLateJoiner
  <2>. QED
    BY <1>16, <2>2, <2>3, <2>4
<1>17. CASE RunReply
  <2>1. PICK m \in replies : AfterClientCancel(m) \/ AfterJob(m)
    BY <1>17 DEF RunReply
  <2>2. /\ cancelledRequestIds' \subseteq Requests
        /\ cancelNotice' \subseteq Requests
        /\ window' \in [Requests -> {"unopened", "open", "settled"}]
        /\ acceptedBy' \in [Requests -> Craftsmen \cup {NoCraftsman}]
    <3>1. CASE AfterClientCancel(m)
      <4>1. m.request \in Requests
        BY <3>1 DEF AfterClientCancel
      <4>2. CASE window[m.request] = "open"
        BY <3>1, <4>1, <4>2 DEF AfterClientCancel, AbortMatchingLoop, SettleWith
      <4>3. CASE window[m.request] # "open"
        BY <3>1, <4>1, <4>3 DEF AfterClientCancel, AbortMatchingLoop
      <4>. QED
        BY <4>2, <4>3
    <3>2. CASE AfterJob(m)
      <4>1. m.op = "jobCancel" => m.request \in Requests
        OBVIOUS
      <4>. QED
        BY <3>2, <4>1 DEF AfterJob
    <3>. QED
      BY <2>1, <3>1, <3>2
  <2>3. activeAssignments' \in [Craftsmen -> Clients \cup {NoClient}]
    BY <2>1 DEF AfterClientCancel, AfterJob, ClearAssignment
  <2>. QED
    BY <1>17, <2>2, <2>3 DEF RunReply
<1>18. ASSUME NEW k \in Craftsmen, NEW c \in Blockers, SetBlock(k, c) PROVE TypeOK'
  <2>1. standing' \in [Requests -> SUBSET Craftsmen]
    BY <1>18 DEF SetBlock
  <2>2. blocks' \subseteq Craftsmen \X Clients
    BY <1>18, Constants DEF SetBlock
  <2>. QED
    BY <1>18, <2>1, <2>2 DEF SetBlock
<1>19. CASE Crash
  <2>1. pc' \in [Requests -> Points]
    BY <1>19 DEF Crash, Points
  <2>2. /\ step' \in [Requests -> Nat]
        /\ window' \in [Requests -> {"unopened", "open", "settled"}]
        /\ acceptedBy' \in [Requests -> Craftsmen \cup {NoCraftsman}]
        /\ offeredTo' \in [Requests -> SUBSET Craftsmen]
        /\ blockedIds' \in [Requests -> SUBSET Craftsmen]
        /\ others' \in [Requests -> SUBSET Craftsmen]
    BY <1>19 DEF Crash
  <2>3. /\ joining' \in [Craftsmen -> JoinEntry]
        /\ activeAssignments' \in [Craftsmen -> Clients \cup {NoClient}]
    <3>1. Idle \in JoinEntry
      BY DEF Idle, JoinEntry
    <3>. QED
      BY <1>19, <3>1 DEF Crash
  <2>4. up' \in BOOLEAN
    BY <1>19, Zenon DEF Crash
  <2>5. crashes' \in Nat
    BY <1>19 DEF Crash
  <2>. QED
    BY <1>k, <1>19, <2>1, <2>2, <2>3, <2>4, <2>5 DEF Crash
<1>20. CASE Restart
  BY <1>20 DEF Restart
<1>21. CASE UNCHANGED vars
  BY <1>21 DEF vars
<1>. QED
  BY <1>1, <1>2, <1>3, <1>4, <1>5, <1>6, <1>7, <1>8, <1>9, <1>10, <1>11, <1>12, <1>13,
     <1>14, <1>15, <1>16, <1>17, <1>18, <1>19, <1>20, <1>21, Constants
  DEF Next, LoopStep

-----------------------------------------------------------------------------
(* The search.                                                             *)

(* Where one step of a loop takes it: to another await, or to its end with *)
(* the row out of pending; to the announcement only by assigning the row,  *)
(* and to tryAssign only with an accept that settled the window.           *)
MovesTo(r, p) ==
  /\ p \in SearchPoints \cup {"done"}
  /\ pc' = [pc EXCEPT ![r] = p]
  /\ p = "done" => status'[r] # "pending"
  /\ p = "announce" => pc[r] = "assign" /\ LeftPending(r)'
  /\ p = "assign" => /\ window'[r] = "settled"
                     /\ acceptedBy'[r] \in Craftsmen
  /\ cancelledRequestIds' \subseteq cancelledRequestIds
  /\ UNCHANGED <<replies, up>>

LEMMA LoopMoves ==
  ASSUME LoopInv, NEW r \in Requests, LoopStep(r)
  PROVE  \E p \in SearchPoints \cup {"done"} : MovesTo(r, p)
<1>0. /\ TypeOK /\ Table!TypeOK
      /\ \A q \in cancelledRequestIds : LeftPending(q)
      /\ pc[r] = "announce" => LeftPending(r)
  BY DEF LoopInv, TypeOK, CancelsAreReal
<1>. USE DEF MoveTo, gatewayVars, searchVars, outsideVars, SearchPoints
<1>d. ASSUME DispatchUnlessCancelled(r), UNCHANGED <<replies, up, cancelledRequestIds>>
      PROVE  MovesTo(r, "settle") \/ MovesTo(r, "live")
  <2>1. CASE r \in cancelledRequestIds
    BY <1>d, <2>1 DEF DispatchUnlessCancelled, MovesTo
  <2>2. CASE r \notin cancelledRequestIds
    BY <1>d, <2>2 DEF DispatchUnlessCancelled, MovesTo
  <2>. QED
    BY <2>1, <2>2
<1>f. ASSUME FinishStep(r), UNCHANGED <<replies, up, cancelledRequestIds>>
      PROVE  \E p \in SearchPoints : MovesTo(r, p)
  <2>1. CASE DispatchUnlessCancelled(r)
    BY <1>d, <1>f, <2>1
  <2>2. CASE MoveTo(r, "settle") \/ MoveTo(r, "wait")
    BY <1>f, <2>2 DEF MovesTo
  <2>. QED
    BY <1>f, <2>1, <2>2 DEF FinishStep
<1>1. CASE StartLoop(r)
  <2>1. MovesTo(r, "blocks")
    BY <1>1 DEF StartLoop, MovesTo
  <2>. QED
    BY <2>1
<1>2. CASE OpenAcceptWindow(r)
  BY <1>2, <1>d DEF OpenAcceptWindow
<1>b. CASE ReadBlocks(r)
  <2>1. MovesTo(r, "answered")
    BY <1>b DEF ReadBlocks, MovesTo
  <2>. QED
    BY <2>1
<1>3. CASE OfferLive(r)
  <2>1. CASE FinishStep(r)
    BY <1>3, <1>f, <2>1 DEF OfferLive
  <2>2. CASE MoveTo(r, "sleeping")
    <3>1. MovesTo(r, "sleeping")
      BY <1>3, <2>2 DEF OfferLive, MovesTo
    <3>. QED
      BY <3>1
  <2>. QED
    BY <1>3, <2>1, <2>2 DEF OfferLive
<1>4. CASE OfferSleeping(r)
  BY <1>4, <1>f DEF OfferSleeping
<1>5. CASE StepDue(r)
  BY <1>5, <1>d DEF StepDue
<1>6. CASE SettledEarly(r)
  <2>1. MovesTo(r, "settle")
    BY <1>6 DEF SettledEarly, MovesTo
  <2>. QED
    BY <2>1
<1>7. CASE StopCancelled(r)
  <2>1. status'[r] # "pending"
    BY <1>0, <1>7 DEF StopCancelled, tableVars, LeftPending
  <2>2. MovesTo(r, "done")
    BY <1>7, <2>1 DEF StopCancelled, MovesTo
  <2>. QED
    BY <2>2
<1>8. CASE TakeUpAccept(r)
  <2>1. window'[r] = "settled" /\ acceptedBy'[r] \in Craftsmen
    BY <1>0, <1>8 DEF TakeUpAccept, TypeOK
  <2>2. MovesTo(r, "assign")
    BY <1>8, <2>1 DEF TakeUpAccept, MovesTo
  <2>. QED
    BY <2>2
<1>9. CASE GiveUp(r)
  <2>1. MovesTo(r, "expire")
    BY <1>9 DEF GiveUp, MovesTo
  <2>. QED
    BY <2>1
<1>10. CASE AssignWon(r)
  <2>1. LeftPending(r)'
    BY <1>0, <1>10 DEF AssignWon, Table!TryAssign, Table!TypeOK, LeftPending
  <2>2. MovesTo(r, "announce")
    BY <1>10, <2>1 DEF AssignWon, MovesTo
  <2>. QED
    BY <2>2
<1>11. CASE AssignLost(r)
  <2>1. MovesTo(r, "done")
    BY <1>11 DEF AssignLost, MovesTo, tableVars
  <2>. QED
    BY <2>1
<1>12. CASE Announce(r)
  <2>1. status'[r] # "pending"
    BY <1>0, <1>12 DEF Announce, tableVars, LeftPending
  <2>2. MovesTo(r, "done")
    BY <1>12, <2>1 DEF Announce, MovesTo
  <2>. QED
    BY <2>2
<1>13. CASE Expire(r)
  <2>1. status'[r] # "pending"
    BY <1>0, <1>13 DEF Expire, Table!ExpireRequest, Table!TypeOK, tableVars
  <2>2. MovesTo(r, "done")
    BY <1>13, <2>1 DEF Expire, MovesTo
  <2>. QED
    BY <2>2
<1>. QED
  BY <1>1, <1>2, <1>b, <1>3, <1>4, <1>5, <1>6, <1>7, <1>8, <1>9, <1>10, <1>11, <1>12, <1>13
  DEF LoopStep

\* Everything that is neither a loop's step nor the process starting or
\* stopping leaves the loops where they are.
Quiet == /\ UNCHANGED <<pc, up>>
         /\ cancelledRequestIds' \subseteq cancelledRequestIds \/ RunReply

LEMMA NextCases ==
  ASSUME LoopInv, [Next]_vars
  PROVE  \/ \E r \in Requests : CreateRequest(r) \/ LoopStep(r)
         \/ Crash \/ Restart
         \/ Quiet
<1>. USE DEF Quiet, gatewayVars, outsideVars
<1>1. ASSUME NEW r \in Requests,
             CloseWindow(r) \/ FlagExpires(r) \/ ConfirmComplete(r) \/ CancelByClient(r)
      PROVE  Quiet
  BY <1>1 DEF CloseWindow, FlagExpires, ConfirmComplete, CancelByClient, CommitOnly, Commit
<1>2. ASSUME NEW r \in Requests, NEW k \in Craftsmen,
             \/ HandleAccept(k, r) \/ StartRequest(r, k) \/ CompleteRequest(r, k)
             \/ CancelByCraftsman(r, k)
      PROVE  Quiet
  BY <1>2 DEF HandleAccept, StartRequest, CompleteRequest, CancelByCraftsman, CommitOnly,
              Commit
<1>3. ASSUME NEW k \in Craftsmen, ComeOnline(k) \/ CheckBlocks(k) \/ OfferLateJoiner(k) PROVE Quiet
  BY <1>3 DEF ComeOnline, CheckBlocks, OfferLateJoiner
<1>4. ASSUME NEW u \in ResetUsers, CancelActiveMissions(u) PROVE Quiet
  BY <1>4 DEF CancelActiveMissions, Commit
<1>5. CASE RunReply
  BY <1>5 DEF RunReply
<1>6. ASSUME NEW k \in Craftsmen, NEW c \in Blockers, SetBlock(k, c) PROVE Quiet
  BY <1>6 DEF SetBlock
<1>7. CASE UNCHANGED vars
  BY <1>7 DEF vars
<1>. QED
  BY <1>1, <1>2, <1>3, <1>4, <1>5, <1>6, <1>7, Constants DEF Next

\* A row is pending from CreateRequest on, and no other step makes it so.
LEMMA NoNewPending ==
  ASSUME LoopInv, [Next]_vars, NEW r \in Requests, status'[r] = "pending", ~CreateRequest(r)
  PROVE  status[r] = "pending"
<1>0. /\ TypeOK /\ Table!TypeOK /\ AcceptInHand
      /\ status'[r] \in Table!Statuses /\ status[r] \in Table!Statuses
  BY TableTypes DEF LoopInv, TypeOK, Table!TypeOK
<1>1. LeftPending(r) => LeftPending(r)'
  BY TableTypes
<1>2. CASE status[r] = "none"
  <2>1. CASE UNCHANGED tableVars
    BY <1>2, <2>1 DEF tableVars
  <2>2. ASSUME NEW q \in Requests, CreateRequest(q) PROVE FALSE
    BY <1>0, <1>2, <2>2 DEF CreateRequest, Table!CreateServiceRequest, Table!TypeOK
  <2>3. ASSUME NEW q \in Requests, AssignWon(q) \/ Expire(q) PROVE FALSE
    BY <1>0, <1>2, <2>3 DEF AssignWon, Expire, Table!TryAssign, Table!ExpireRequest,
                            Table!TypeOK, tableVars
  <2>4. ASSUME NEW q \in Requests, LoopStep(q), ~AssignWon(q), ~Expire(q) PROVE UNCHANGED tableVars
    BY <2>4 DEF LoopStep, StartLoop, ReadBlocks, OpenAcceptWindow, OfferLive, OfferSleeping, StepDue,
                SettledEarly, StopCancelled, TakeUpAccept, GiveUp, AssignLost, Announce
  <2>5. ASSUME NEW q \in Requests, ConfirmComplete(q) \/ CancelByClient(q) PROVE FALSE
    BY <1>0, <1>2, <2>5 DEF ConfirmComplete, CancelByClient, CommitOnly, Commit,
         Table!ConfirmCompletion, Table!CancelByClient, Table!TypeOK
  <2>6. ASSUME NEW q \in Requests, NEW k \in Craftsmen,
               StartRequest(q, k) \/ CompleteRequest(q, k) \/ CancelByCraftsman(q, k)
        PROVE  FALSE
    BY <1>0, <1>2, <2>6 DEF StartRequest, CompleteRequest, CancelByCraftsman, CommitOnly,
         Commit, Table!StartJob, Table!CompleteJob, Table!CancelJob, Table!TransitionJob,
         Table!TypeOK
  <2>7. ASSUME NEW q \in Requests,
               CloseWindow(q) \/ FlagExpires(q) \/ \E k \in Craftsmen : HandleAccept(k, q)
        PROVE  UNCHANGED tableVars
    BY <2>7 DEF CloseWindow, FlagExpires, HandleAccept
  <2>8. ASSUME NEW u \in ResetUsers, CancelActiveMissions(u) PROVE FALSE
    BY <1>0, <1>2, <2>8 DEF CancelActiveMissions, Commit, Table!AdminCancelActiveRequests
  <2>9. CASE Restart
    BY <1>0, <1>2, <2>9 DEF Restart, Table!ExpireOrphanedPendingRequests
  <2>10. ASSUME NEW k \in Craftsmen,
                \/ ComeOnline(k) \/ CheckBlocks(k) \/ OfferLateJoiner(k) \/ \E c \in Blockers : SetBlock(k, c)
         PROVE  UNCHANGED tableVars
    BY <2>10 DEF ComeOnline, CheckBlocks, OfferLateJoiner, SetBlock
  <2>11. CASE RunReply \/ Crash \/ UNCHANGED vars
    BY <2>1, <2>11 DEF RunReply, Crash, vars
  <2>. QED
    BY <2>1, <2>2, <2>3, <2>4, <2>5, <2>6, <2>7, <2>8, <2>9, <2>10, <2>11, Constants
    DEF Next
<1>. QED
  BY <1>0, <1>1, <1>2 DEF Table!Statuses, LeftPending

LEMMA PendingStep ==
  ASSUME LoopInv, [Next]_vars
  PROVE  PendingHasLoop'
<1>. SUFFICES ASSUME up', NEW r \in Requests, status'[r] = "pending"
              PROVE  pc'[r] = "created" \/ pc'[r] \in SearchPoints
  BY DEF PendingHasLoop, Searching
<1>0. TypeOK /\ Table!TypeOK /\ pc \in [Requests -> Points]
  BY DEF LoopInv, TypeOK
<1>1. ASSUME NEW q \in Requests, CreateRequest(q)
      PROVE  pc'[r] = "created" \/ pc'[r] \in SearchPoints
  <2>1. CASE q = r
    BY <1>0, <1>1, <2>1 DEF CreateRequest, MoveTo
  <2>2. CASE q # r
    <3>1. status[r] = "pending" /\ up /\ pc'[r] = pc[r]
      BY <1>0, <1>1, <2>2 DEF CreateRequest, Table!CreateServiceRequest, Table!TypeOK, MoveTo
    <3>. QED
      BY <3>1 DEF LoopInv, PendingHasLoop, Searching
  <2>. QED
    BY <2>1, <2>2
<1>2. ASSUME \A q \in Requests : ~CreateRequest(q), up
      PROVE  pc[r] = "created" \/ pc[r] \in SearchPoints
  BY <1>2, NoNewPending DEF LoopInv, PendingHasLoop, Searching
<1>3. ASSUME NEW q \in Requests, LoopStep(q), \A p \in Requests : ~CreateRequest(p)
      PROVE  pc'[r] = "created" \/ pc'[r] \in SearchPoints
  <2>1. PICK p \in SearchPoints \cup {"done"} : MovesTo(q, p)
    BY <1>3, LoopMoves
  <2>. QED
    BY <1>0, <1>2, <1>3, <2>1 DEF MovesTo
<1>4. CASE Crash
  BY <1>4, Zenon DEF Crash
<1>5. CASE Restart
  BY <1>0, <1>5 DEF Restart, Table!ExpireOrphanedPendingRequests
<1>6. CASE Quiet /\ \A q \in Requests : ~CreateRequest(q)
  BY <1>2, <1>6 DEF Quiet
<1>. QED
  BY <1>1, <1>3, <1>4, <1>5, <1>6, NextCases

LEMMA CancelsStep ==
  ASSUME LoopInv, [Next]_vars
  PROVE  CancelsAreReal'
<1>0. /\ TypeOK /\ Table!TypeOK /\ pc \in [Requests -> Points]
      /\ cancelledRequestIds \subseteq Requests
      /\ \A m \in replies : m.op = "clientCancel" => m.request \in Requests
  BY DEF LoopInv, TypeOK
<1>1. \A r \in Requests : LeftPending(r) => LeftPending(r)'
  BY TableTypes
<1>2. \A r \in cancelledRequestIds' : LeftPending(r)'
  <2>1. cancelledRequestIds' \subseteq cancelledRequestIds \/ RunReply
    <3>1. ASSUME NEW r \in Requests, LoopStep(r)
          PROVE  cancelledRequestIds' \subseteq cancelledRequestIds
      BY <3>1, LoopMoves DEF MovesTo
    <3>2. ASSUME NEW r \in Requests, CreateRequest(r)
          PROVE  cancelledRequestIds' \subseteq cancelledRequestIds
      BY <3>2 DEF CreateRequest, gatewayVars
    <3>. QED
      BY <3>1, <3>2, NextCases DEF Crash, Restart, Quiet, gatewayVars
  <2>2. ASSUME RunReply, NEW r \in cancelledRequestIds'
        PROVE  \/ r \in cancelledRequestIds
               \/ \E m \in replies : m.op = "clientCancel" /\ m.request = r
    BY <2>2 DEF RunReply, AfterClientCancel, AfterJob, AbortMatchingLoop
  <2>. QED
    BY <1>0, <1>1, <2>1, <2>2 DEF LoopInv, CancelsAreReal
<1>3. \A m \in replies' : m.op = "clientCancel" => LeftPending(m.request)'
  <2>. USE DEF outsideVars
  <2>1. ASSUME NEW r \in Requests, CancelByClient(r) PROVE LeftPending(r)'
    BY <1>0, <2>1 DEF CancelByClient, Commit, Table!CancelByClient, Table!TypeOK, LeftPending
  <2>2. ASSUME NEW m \in replies', m \notin replies, m.op = "clientCancel"
        PROVE  \E r \in Requests : CancelByClient(r) /\ m.request = r
    <3>1. ASSUME NEW r \in Requests, LoopStep(r) PROVE UNCHANGED replies
      BY <3>1, LoopMoves DEF MovesTo
    <3>2. ASSUME NEW r \in Requests,
                 CreateRequest(r) \/ CloseWindow(r) \/ FlagExpires(r) \/ ConfirmComplete(r)
          PROVE  UNCHANGED replies
      BY <3>2 DEF CreateRequest, CloseWindow, FlagExpires, ConfirmComplete, CommitOnly
    <3>3. ASSUME NEW r \in Requests, NEW k \in Craftsmen, HandleAccept(k, r) \/ StartRequest(r, k)
          PROVE  UNCHANGED replies
      BY <3>3 DEF HandleAccept, StartRequest, CommitOnly
    <3>4. ASSUME NEW r \in Requests, NEW k \in Craftsmen,
                 CompleteRequest(r, k) \/ CancelByCraftsman(r, k)
          PROVE  FALSE
      BY <2>2, <3>4 DEF CompleteRequest, CancelByCraftsman, Commit, Reply
    <3>5. ASSUME NEW u \in ResetUsers, CancelActiveMissions(u) PROVE FALSE
      BY <2>2, <3>5 DEF CancelActiveMissions, Commit, Reply
    <3>6. ASSUME NEW k \in Craftsmen,
                 \/ ComeOnline(k) \/ CheckBlocks(k) \/ OfferLateJoiner(k) \/ \E c \in Blockers : SetBlock(k, c)
          PROVE  UNCHANGED replies
      BY <3>6 DEF ComeOnline, CheckBlocks, OfferLateJoiner, SetBlock
    <3>7. ASSUME NEW r \in Requests, CancelByClient(r) PROVE m.request = r
      BY <2>2, <3>7 DEF CancelByClient, Commit, Reply
    <3>8. CASE RunReply \/ Crash \/ Restart \/ UNCHANGED vars
      BY <2>2, <3>8 DEF RunReply, Crash, Restart, vars
    <3>. QED
      BY <2>2, <3>1, <3>2, <3>3, <3>4, <3>5, <3>6, <3>7, <3>8, Constants DEF Next
  <2>. QED
    BY <1>0, <1>1, <2>1, <2>2 DEF LoopInv, CancelsAreReal
<1>4. ASSUME NEW r \in Requests, pc'[r] = "announce" PROVE LeftPending(r)'
  <2>1. CASE pc[r] = "announce"
    BY <1>1, <2>1 DEF LoopInv, CancelsAreReal
  <2>2. CASE pc[r] # "announce"
    <3>1. ASSUME NEW q \in Requests, LoopStep(q) PROVE LeftPending(r)'
      BY <1>0, <1>4, <2>2, <3>1, LoopMoves DEF MovesTo
    <3>2. ASSUME NEW q \in Requests, CreateRequest(q) PROVE FALSE
      BY <1>0, <1>4, <2>2, <3>2 DEF CreateRequest, MoveTo
    <3>3. CASE Crash
      BY <1>0, <1>4, <2>2, <3>3 DEF Crash
    <3>. QED
      BY <1>4, <2>2, <3>1, <3>2, <3>3, NextCases DEF Quiet, Restart
  <2>. QED
    BY <2>1, <2>2
<1>. QED
  BY <1>2, <1>3, <1>4 DEF CancelsAreReal

\* What a settled window settled with is not changed while the process lives.
LEMMA SettledStays ==
  ASSUME LoopInv, [Next]_vars, ~Crash,
         NEW r \in Requests, window[r] = "settled", pc[r] # "answered"
  PROVE  window'[r] = "settled" /\ acceptedBy'[r] = acceptedBy[r]
<1>0. /\ window \in [Requests -> {"unopened", "open", "settled"}]
      /\ acceptedBy \in [Requests -> Craftsmen \cup {NoCraftsman}]
  BY DEF LoopInv, TypeOK
<1>. USE <1>0 DEF searchVars, SettleWith
<1>1. ASSUME NEW q \in Requests, OpenAcceptWindow(q)
      PROVE  window'[r] = "settled" /\ UNCHANGED acceptedBy
  BY <1>1 DEF OpenAcceptWindow
<1>2. ASSUME NEW q \in Requests, CreateRequest(q) \/ (LoopStep(q) /\ ~OpenAcceptWindow(q))
      PROVE  UNCHANGED <<window, acceptedBy>>
  BY <1>2 DEF CreateRequest, LoopStep, StartLoop, ReadBlocks, OfferLive, OfferSleeping, StepDue,
              SettledEarly, StopCancelled, TakeUpAccept, GiveUp, AssignWon, AssignLost,
              Announce, Expire
<1>3. ASSUME NEW q \in Requests,
             CloseWindow(q) \/ \E k \in Craftsmen : HandleAccept(k, q)
      PROVE  window'[r] = "settled" /\ acceptedBy'[r] = acceptedBy[r]
  BY <1>3 DEF CloseWindow, HandleAccept
<1>4. ASSUME NEW q \in Requests, FlagExpires(q) \/ ConfirmComplete(q) \/ CancelByClient(q)
      PROVE  UNCHANGED <<window, acceptedBy>>
  BY <1>4 DEF FlagExpires, ConfirmComplete, CancelByClient, CommitOnly, Commit
<1>5. ASSUME NEW q \in Requests, NEW k \in Craftsmen,
             StartRequest(q, k) \/ CompleteRequest(q, k) \/ CancelByCraftsman(q, k)
      PROVE  UNCHANGED <<window, acceptedBy>>
  BY <1>5 DEF StartRequest, CompleteRequest, CancelByCraftsman, CommitOnly, Commit
<1>6. ASSUME NEW k \in Craftsmen,
             \/ ComeOnline(k) \/ CheckBlocks(k) \/ OfferLateJoiner(k) \/ \E c \in Blockers : SetBlock(k, c)
      PROVE  UNCHANGED <<window, acceptedBy>>
  BY <1>6 DEF ComeOnline, CheckBlocks, OfferLateJoiner, SetBlock
<1>7. ASSUME NEW u \in ResetUsers, CancelActiveMissions(u) PROVE UNCHANGED <<window, acceptedBy>>
  BY <1>7 DEF CancelActiveMissions, Commit
<1>8. CASE RunReply
  BY <1>8 DEF RunReply, AfterClientCancel, AfterJob, AbortMatchingLoop
<1>9. CASE Restart \/ UNCHANGED vars
  BY <1>9 DEF Restart, vars
<1>. QED
  BY <1>1, <1>2, <1>3, <1>4, <1>5, <1>6, <1>7, <1>8, <1>9, Constants DEF Next

LEMMA AcceptStep ==
  ASSUME LoopInv, [Next]_vars
  PROVE  AcceptInHand'
<1>. SUFFICES ASSUME NEW r \in Requests, pc'[r] \in {"assign", "announce"}
              PROVE  window'[r] = "settled" /\ acceptedBy'[r] \in Craftsmen
  BY DEF AcceptInHand
<1>0. pc \in [Requests -> Points]
  BY DEF LoopInv, TypeOK
<1>1. CASE Crash
  BY <1>0, <1>1 DEF Crash, Searching, SearchPoints
<1>2. CASE ~Crash /\ pc[r] \in {"assign", "announce"}
  BY <1>2, SettledStays DEF LoopInv, AcceptInHand
<1>3. CASE ~Crash /\ pc[r] \notin {"assign", "announce"}
  <2>1. ASSUME NEW q \in Requests, LoopStep(q)
        PROVE  window'[r] = "settled" /\ acceptedBy'[r] \in Craftsmen
    BY <1>0, <1>3, <2>1, LoopMoves DEF MovesTo
  <2>2. ASSUME NEW q \in Requests, CreateRequest(q) PROVE FALSE
    BY <1>0, <1>3, <2>2 DEF CreateRequest, MoveTo
  <2>. QED
    BY <1>3, <2>1, <2>2, NextCases DEF Quiet, Restart
<1>. QED
  BY <1>1, <1>2, <1>3

LEMMA LoopInvariant == SafeSpec => []LoopInv
<1>1. LoopInv /\ [Next]_vars => LoopInv'
  BY TypeStep, PendingStep, CancelsStep, AcceptStep DEF LoopInv
<1>. QED
  BY <1>1, InitLoop, PTL DEF SafeSpec

-----------------------------------------------------------------------------
\* The gateway's state always has its types.
THEOREM LoopTypes == SafeSpec => []TypeOK
BY LoopInvariant, PTL DEF LoopInv

\* No pending request is ever without its loop while the server is up: no
\* return of runMatchingLoop, no cancellation, no crash strands one
\* (matching.gateway.ts:179-182, 505-517).
THEOREM NoStrandedRequest == SafeSpec => []PendingHasLoop
BY LoopInvariant, PTL DEF LoopInv

\* Every step of the gateway is a statement of the table or leaves it alone,
\* so whatever Aftermath_proofs shows of the table by itself holds here.
THEOREM GatewayImplementsTable == SafeSpec => ImplementsTable
<1>1. Init => Table!Init
  BY DEF Init
<1>2. LoopInv /\ [Next]_vars => [Table!Next]_(Table!requestVars)
  BY TableStep DEF LoopInv, tableVars, Table!requestVars
<1>. QED
  BY <1>1, <1>2, LoopInvariant, PTL DEF SafeSpec, ImplementsTable, Table!Spec

\* The statements that take or give no job, by what they do to a row.
Moves(s, t) ==
  \/ t = s
  \/ s \in Table!Active /\ t = "cancelled"
  \/ s = "pending" /\ t = "expired"
  \/ s = "assigned" /\ t = "in_progress"
  \/ s = "in_progress" /\ t = "awaiting_client_confirmation"
  \/ s = "awaiting_client_confirmation" /\ t = "completed"

RowsMove == UNCHANGED craftsman /\ \A r \in Requests : Moves(status[r], status'[r])

LEMMA TableShapes ==
  ASSUME Table!TypeOK, Table!Next \/ UNCHANGED tableVars
  PROVE  \/ \E r \in Requests : Table!CreateServiceRequest(r)
         \/ \E r \in Requests, k \in Craftsmen : Table!TryAssign(r, k)
         \/ RowsMove
<1>. USE DEF RowsMove, Moves, Table!TypeOK, Table!Active
<1>1. ASSUME NEW r \in Requests,
             \/ Table!ExpireRequest(r) \/ Table!ConfirmCompletion(r)
             \/ Table!CancelByClient(r)
      PROVE  RowsMove
  BY <1>1 DEF Table!ExpireRequest, Table!ConfirmCompletion, Table!CancelByClient
<1>2. ASSUME NEW r \in Requests, NEW k \in Craftsmen,
             Table!StartJob(r, k) \/ Table!CompleteJob(r, k) \/ Table!CancelJob(r, k)
      PROVE  RowsMove
  BY <1>2 DEF Table!StartJob, Table!CompleteJob, Table!CancelJob, Table!TransitionJob
<1>3. CASE Table!ExpireOrphanedPendingRequests
  BY <1>3 DEF Table!ExpireOrphanedPendingRequests
<1>4. ASSUME NEW u \in Clients \cup Craftsmen, Table!AdminCancelActiveRequests(u)
      PROVE  RowsMove
  BY <1>4 DEF Table!AdminCancelActiveRequests
<1>5. CASE UNCHANGED tableVars
  BY <1>5 DEF tableVars
<1>. QED
  BY <1>1, <1>2, <1>3, <1>4, <1>5 DEF Table!Next

LEMMA RowsKeep ==
  ASSUME Table!TypeOK, Table!RowsConsistent, Table!Next \/ UNCHANGED tableVars
  PROVE  /\ Table!RowsConsistent'
         /\ \A r \in Requests :
              /\ craftsman[r] # NoCraftsman => craftsman'[r] = craftsman[r]
              /\ status[r] \in Table!Closed => status'[r] = status[r]
<1>. USE DEF Table!RowsConsistent, Table!OneActivePerClient, Table!CraftsmanFollowsStatus,
             Table!TypeOK, Table!Active, Table!Closed
<1>1. ASSUME NEW r \in Requests, Table!CreateServiceRequest(r)
      PROVE  /\ Table!RowsConsistent'
             /\ craftsman' = craftsman
             /\ \A q \in Requests : status[q] \in Table!Closed => status'[q] = status[q]
  BY <1>1 DEF Table!CreateServiceRequest
<1>2. ASSUME NEW r \in Requests, NEW k \in Craftsmen, Table!TryAssign(r, k)
      PROVE  /\ Table!RowsConsistent'
             /\ \A q \in Requests :
                  /\ craftsman[q] # NoCraftsman => craftsman'[q] = craftsman[q]
                  /\ status[q] \in Table!Closed => status'[q] = status[q]
  <2>1. /\ status[r] = "pending" /\ craftsman[r] = NoCraftsman /\ k # NoCraftsman
        /\ \A q \in Requests : status'[q] = IF q = r THEN "assigned" ELSE status[q]
        /\ \A q \in Requests : craftsman'[q] = IF q = r THEN k ELSE craftsman[q]
    BY <1>2, Constants DEF Table!TryAssign
  <2>2. Table!OneActivePerClient'
    BY <2>1
  <2>3. Table!CraftsmanFollowsStatus'
    BY <2>1
  <2>. QED
    BY <2>1, <2>2, <2>3
<1>3. CASE RowsMove
  <2>1. Table!OneActivePerClient'
    BY <1>3 DEF RowsMove, Moves
  <2>2. Table!CraftsmanFollowsStatus'
    BY <1>3 DEF RowsMove, Moves
  <2>3. \A r \in Requests : status[r] \in Table!Closed => status'[r] = status[r]
    BY <1>3 DEF RowsMove, Moves
  <2>. QED
    BY <1>3, <2>1, <2>2, <2>3 DEF RowsMove
<1>. QED
  BY <1>1, <1>2, <1>3, TableShapes

\* Searches, cancellations, resets and restarts in any order leave each client
\* with one active request, each row with its craftsman, no job handed over and
\* no closed request reopened (matching.service.ts:34-37, 186-189).
THEOREM GatewayKeepsRows == SafeSpec => []Table!RowsConsistent /\ Table!HistoryIsFinal
<1>. DEFINE Final == \A r \in Requests :
                       /\ craftsman[r] # NoCraftsman => craftsman'[r] = craftsman[r]
                       /\ status[r] \in Table!Closed => status'[r] = status[r]
<1>1. Init => Table!RowsConsistent
  BY DEF Init, Table!Init, Table!RowsConsistent, Table!OneActivePerClient,
         Table!CraftsmanFollowsStatus, Table!Active
<1>2. LoopInv /\ Table!RowsConsistent /\ [Next]_vars => Table!RowsConsistent' /\ Final
  BY TableStep, RowsKeep DEF LoopInv, TypeOK
<1>3. LoopInv /\ Table!RowsConsistent /\ [Next]_vars => [Final]_(Table!requestVars)
  BY <1>2
<1>. QED
  BY <1>1, <1>2, <1>3, LoopInvariant, PTL DEF SafeSpec, Table!HistoryIsFinal

-----------------------------------------------------------------------------
(* The promise to the client.                                              *)

LEMMA PhaseOf ==
  ASSUME Table!TypeOK
  PROVE  \A r \in Requests :
           /\ Table!Phase[r] = "none" <=> status[r] = "none"
           /\ Table!Phase[r] = "searching" <=> status[r] = "pending"
           /\ Table!Phase[r] \in Table!Lifecycle!OpenPhases <=> status[r] \in Table!Active
BY DEF Table!Phase, Table!TypeOK, Table!Statuses, Table!Active, Table!Closed,
       Table!Lifecycle!OpenPhases

LEMMA PromiseStep ==
  ASSUME Table!TypeOK, Table!TypeOK', Table!Next \/ UNCHANGED tableVars
  PROVE  Table!Lifecycle!Next
<1>. USE DEF Table!TypeOK
<1>1. ASSUME NEW r \in Requests, Table!CreateServiceRequest(r)
      PROVE  Table!Lifecycle!Place(r)
  <2>1. Table!Phase' = [Table!Phase EXCEPT ![r] = "searching"]
    BY <1>1 DEF Table!Phase, Table!Closed, Table!CreateServiceRequest
  <2>. QED
    BY <1>1, <2>1, PhaseOf DEF Table!CreateServiceRequest, Table!Lifecycle!Place
<1>2. ASSUME NEW r \in Requests, NEW k \in Craftsmen, Table!TryAssign(r, k)
      PROVE  Table!Lifecycle!Engage(r, k)
  <2>1. Table!Phase' = [Table!Phase EXCEPT ![r] = "engaged"]
    BY <1>2 DEF Table!Phase, Table!Closed, Table!TryAssign
  <2>. QED
    BY <1>2, <2>1, PhaseOf DEF Table!TryAssign, Table!Lifecycle!Engage
<1>3. CASE RowsMove
  <2>. DEFINE S == {r \in Requests : status[r] \in Table!Active /\ status'[r] \in Table!Closed}
  <2>1. Table!Phase' = [r \in Requests |-> IF r \in S THEN "closed" ELSE Table!Phase[r]]
    BY <1>3 DEF RowsMove, Moves, Table!Phase, Table!Active, Table!Closed
  <2>2. Table!Lifecycle!Close(S)
    BY <1>3, <2>1, PhaseOf DEF RowsMove, Table!Lifecycle!Close
  <2>. QED
    BY <2>2 DEF Table!Lifecycle!Next
<1>. QED
  BY <1>1, <1>2, <1>3, TableShapes DEF Table!Lifecycle!Next

\* The whole gateway keeps what RequestLifecycle promises the client: one open
\* request at a time, one craftsman on it, closed for good
\* (matching.gateway.ts:460-521, matching.controller.ts:34-177).
THEOREM GatewayKeepsThePromise == SafeSpec => ImplementsLifecycle
<1>1. Init => Table!Lifecycle!Init
  <2>. SUFFICES ASSUME Init PROVE Table!Lifecycle!Init
    OBVIOUS
  <2>1. Table!Phase = [r \in Requests |-> "none"]
    BY DEF Init, Table!Init, Table!Phase, Table!Closed
  <2>. QED
    BY <2>1 DEF Init, Table!Init, Table!Lifecycle!Init
<1>2. LoopInv /\ LoopInv' /\ [Next]_vars => Table!Lifecycle!Next
  BY TableStep, PromiseStep DEF LoopInv, TypeOK
<1>. QED
  BY <1>1, <1>2, LoopInvariant, PTL
  DEF SafeSpec, ImplementsLifecycle, Table!ImplementsLifecycle, Table!Lifecycle!SafeSpec

-----------------------------------------------------------------------------
(* Offers.                                                                 *)

\* A loop that moves between the points before its accept is taken up.
Searches == {"live", "sleeping", "wait", "settle"}

LEMMA DispatchMoves ==
  ASSUME NEW r \in Requests
  PROVE  /\ DispatchUnlessCancelled(r) => \E p \in Searches : MoveTo(r, p)
         /\ FinishStep(r) => \E p \in Searches : MoveTo(r, p)
<1>1. DispatchUnlessCancelled(r) => \E p \in Searches : MoveTo(r, p)
  BY DEF DispatchUnlessCancelled, Searches
<1>2. FinishStep(r) => \E p \in Searches : MoveTo(r, p)
  BY <1>1 DEF FinishStep, Searches
<1>. QED
  BY <1>1, <1>2

(* A craftsman blocked ever since the request was made is still blocked,   *)
(* was so whenever the search or a late joiner's check read the blocks,    *)
(* and so is in no list an offer is made from.                             *)
SearchKnows(r) ==
  /\ standing[r] \subseteq BlockedFrom(r)
  /\ pc[r] \in SearchPoints \ {"blocks"} => standing[r] \subseteq blockedIds[r]
  /\ cards[r] \cap standing[r] = {}
  /\ pc[r] \in SearchPoints \cup {"created"} \/ cards[r] # {} => status[r] # "none"

JoinersKnow(r) ==
  \A k \in Craftsmen : joining[k].at = r =>
    /\ status[r] # "none"
    /\ joining[k].verdict = "free" => k \notin standing[r]

BlocksKnown == \A r \in Requests : SearchKnows(r) /\ JoinersKnow(r)

\* A request whose blocks, handlers and read stay, and that gets no new card.
NoNewCard(r) ==
  /\ UNCHANGED <<blocks, joining>>
  /\ standing'[r] = standing[r]
  /\ blockedIds'[r] = blockedIds[r]
  /\ cards'[r] \subseteq cards[r]
  /\ status[r] # "none" => status'[r] # "none"
  /\ pc'[r] \in SearchPoints \ {"blocks"} => pc[r] \in SearchPoints \ {"blocks"}
  /\ pc'[r] \in SearchPoints \cup {"created"} => pc[r] \in SearchPoints \cup {"created"}

LEMMA NoNewCardKnown ==
  ASSUME NEW r \in Requests, SearchKnows(r), JoinersKnow(r), NoNewCard(r)
  PROVE  SearchKnows(r)' /\ JoinersKnow(r)'
<1>1. BlockedFrom(r)' = BlockedFrom(r)
  BY DEF NoNewCard, BlockedFrom, Blocked
<1>2. SearchKnows(r)'
  BY <1>1 DEF NoNewCard, SearchKnows
<1>3. JoinersKnow(r)'
  BY DEF NoNewCard, JoinersKnow
<1>. QED
  BY <1>2, <1>3

\* The types the block proofs need.
LEMMA BlockTypes ==
  ASSUME LoopInv
  PROVE  /\ pc \in [Requests -> Points]
         /\ status \in [Requests -> Table!Statuses]
         /\ cards \in [Requests -> SUBSET Craftsmen]
         /\ standing \in [Requests -> SUBSET Craftsmen]
         /\ blockedIds \in [Requests -> SUBSET Craftsmen]
         /\ joining \in [Craftsmen -> JoinEntry]
BY DEF LoopInv, TypeOK, Table!TypeOK, JoinEntry

\* Looking at the next row asks about a request that has a search.
LEMMA VisitKnown ==
  ASSUME LoopInv, BlocksKnown, NEW k \in Craftsmen, NEW rows \in SUBSET Requests,
         VisitRows(k, rows)
  PROVE  \A r \in Requests : joining'[k].at = r =>
           status[r] # "none" /\ joining'[k].verdict = "asked"
<1>1. CASE \A r \in rows : ~Searching(r)
  BY <1>1, BlockTypes, Constants DEF VisitRows, Idle
<1>2. CASE \E r \in rows : Searching(r)
  <2>1. PICK q \in rows, skipped \in SUBSET rows :
          /\ Searching(q)
          /\ joining' = [joining EXCEPT ![k] = [at |-> q, rows |-> rows \ ({q} \cup skipped),
                                                verdict |-> "asked"]]
    BY <1>2 DEF VisitRows
  <2>2. status[q] # "none"
    BY <2>1 DEF Searching, BlocksKnown, SearchKnows
  <2>. QED
    BY <2>1, <2>2, BlockTypes
<1>. QED
  BY <1>1, <1>2

\* VisitRows touches only its own handler.
LEMMA VisitOwn ==
  ASSUME NEW k \in Craftsmen, NEW rows \in SUBSET Requests, VisitRows(k, rows), LoopInv
  PROVE  \A c \in Craftsmen \ {k} : joining'[c] = joining[c]
BY BlockTypes DEF VisitRows

\* A request whose search and cards stay, under handlers that move on.
LEMMA HandlersMove ==
  ASSUME NEW r \in Requests, SearchKnows(r), JoinersKnow(r), NEW k \in Craftsmen,
         UNCHANGED <<blocks, standing, blockedIds, pc, status>>,
         \A c \in Craftsmen \ {k} : joining'[c] = joining[c],
         joining'[k].at = r =>
           status[r] # "none" /\ (joining'[k].verdict = "free" => k \notin standing[r]),
         \/ cards'[r] = cards[r]
         \/ /\ cards'[r] = cards[r] \cup {k} /\ k \notin standing[r] /\ status[r] # "none"
  PROVE  SearchKnows(r)' /\ JoinersKnow(r)'
<1>1. BlockedFrom(r)' = BlockedFrom(r)
  BY DEF BlockedFrom, Blocked
<1>2. SearchKnows(r)'
  BY <1>1 DEF SearchKnows
<1>3. JoinersKnow(r)'
  BY DEF JoinersKnow
<1>. QED
  BY <1>2, <1>3

\* The online handlers.
LEMMA JoinersBlocks ==
  ASSUME LoopInv, BlocksKnown, NEW k \in Craftsmen,
         ComeOnline(k) \/ CheckBlocks(k) \/ OfferLateJoiner(k)
  PROVE  BlocksKnown'
<1>. SUFFICES ASSUME NEW r \in Requests PROVE SearchKnows(r)' /\ JoinersKnow(r)'
  BY DEF BlocksKnown
<1>0. SearchKnows(r) /\ JoinersKnow(r)
  BY DEF BlocksKnown
<1>. USE BlockTypes DEF tableVars, searchVars, appVars, blockVars
<1>1. CASE ComeOnline(k)
  <2>1. PICK rows \in SUBSET Requests : VisitRows(k, rows)
    BY <1>1 DEF ComeOnline
  <2>2. UNCHANGED <<blocks, standing, blockedIds, pc, status, cards>>
    BY <1>1 DEF ComeOnline
  <2>. QED
    BY <1>0, <2>1, <2>2, VisitKnown, VisitOwn, HandlersMove
<1>2. CASE CheckBlocks(k)
  <2>1. UNCHANGED <<blocks, standing, blockedIds, pc, status, cards>>
    BY <1>2 DEF CheckBlocks
  <2>2. /\ \A c \in Craftsmen \ {k} : joining'[c] = joining[c]
        /\ joining'[k].at = joining[k].at
        /\ joining'[k].verdict = "free" => ~Blocked(k, joining[k].at)
    BY <1>2 DEF CheckBlocks, JoinEntry
  <2>3. joining'[k].at = r =>
          status[r] # "none" /\ (joining'[k].verdict = "free" => k \notin standing[r])
    BY <1>0, <2>2 DEF JoinersKnow, SearchKnows, BlockedFrom
  <2>. QED
    BY <1>0, <2>1, <2>2, <2>3, HandlersMove
<1>3. CASE OfferLateJoiner(k)
  <2>1. UNCHANGED <<blocks, standing, blockedIds, pc, status>>
    BY <1>3 DEF OfferLateJoiner
  <2>2. joining[k].rows \in SUBSET Requests /\ VisitRows(k, joining[k].rows)
    BY <1>3 DEF OfferLateJoiner, JoinEntry
  <2>3. \/ cards'[r] = cards[r]
        \/ /\ cards'[r] = cards[r] \cup {k}
           /\ joining[k].at = r /\ joining[k].verdict = "free"
    BY <1>3 DEF OfferLateJoiner, JoinEntry
  <2>4. \/ cards'[r] = cards[r]
        \/ /\ cards'[r] = cards[r] \cup {k} /\ k \notin standing[r] /\ status[r] # "none"
    BY <1>0, <2>3 DEF JoinersKnow
  <2>. QED
    BY <1>0, <2>1, <2>2, <2>4, VisitKnown, VisitOwn, HandlersMove
<1>. QED
  BY <1>1, <1>2, <1>3

\* The loops.
LEMMA LoopBlocks ==
  ASSUME LoopInv, BlocksKnown, NEW q \in Requests, CreateRequest(q) \/ LoopStep(q)
  PROVE  BlocksKnown'
<1>. SUFFICES ASSUME NEW r \in Requests PROVE SearchKnows(r)' /\ JoinersKnow(r)'
  BY DEF BlocksKnown
<1>0. SearchKnows(r) /\ JoinersKnow(r)
  BY DEF BlocksKnown
<1>. USE BlockTypes DEF tableVars, searchVars, appVars, outsideVars, blockVars
<1>1. CASE CreateRequest(q)
  <2>1. /\ status[q] = "none" /\ status' = [status EXCEPT ![q] = "pending"]
        /\ pc' = [pc EXCEPT ![q] = "created"]
        /\ standing' = [standing EXCEPT ![q] = BlockedFrom(q)]
        /\ UNCHANGED <<blocks, joining, blockedIds, cards>>
    BY <1>1 DEF CreateRequest, Table!CreateServiceRequest, MoveTo
  <2>2. CASE r = q
    <3>1. cards[r] = {} /\ \A k \in Craftsmen : joining[k].at # r
      BY <1>0, <2>1, <2>2 DEF SearchKnows, JoinersKnow
    <3>2. BlockedFrom(r)' = BlockedFrom(r)
      BY <2>1 DEF BlockedFrom, Blocked
    <3>3. /\ standing'[r] = BlockedFrom(r) /\ pc'[r] = "created" /\ cards'[r] = {}
          /\ status'[r] = "pending"
      BY <2>1, <2>2, <3>1
    <3>4. SearchKnows(r)'
      BY <3>2, <3>3 DEF SearchKnows, SearchPoints
    <3>. QED
      BY <2>1, <3>1, <3>4 DEF JoinersKnow
  <2>3. CASE r # q
    BY <1>0, <2>1, <2>3, NoNewCardKnown DEF NoNewCard
  <2>. QED
    BY <2>2, <2>3
<1>2. CASE ReadBlocks(q)
  <2>1. /\ pc[q] = "blocks" /\ pc' = [pc EXCEPT ![q] = "answered"]
        /\ blockedIds' = [blockedIds EXCEPT ![q] = BlockedFrom(q)]
        /\ UNCHANGED <<blocks, standing, joining, cards, status>>
    BY <1>2 DEF ReadBlocks, MoveTo
  <2>2. CASE r = q
    <3>1. BlockedFrom(r)' = BlockedFrom(r)
      BY <2>1 DEF BlockedFrom, Blocked
    <3>2. SearchKnows(r)'
      BY <1>0, <2>1, <2>2, <3>1 DEF SearchKnows, SearchPoints
    <3>. QED
      BY <1>0, <2>1, <3>2 DEF JoinersKnow
  <2>3. CASE r # q
    BY <1>0, <2>1, <2>3, NoNewCardKnown DEF NoNewCard
  <2>. QED
    BY <2>2, <2>3
<1>3. CASE OfferLive(q) \/ OfferSleeping(q)
  <2>1. PICK p \in Searches : pc' = [pc EXCEPT ![q] = p]
    BY <1>3, DispatchMoves DEF OfferLive, OfferSleeping, MoveTo, Searches
  <2>2. PICK C \in SUBSET (Craftsmen \ (offeredTo[q] \cup blockedIds[q])) :
          cards' = [cards EXCEPT ![q] = @ \cup C]
    BY <1>3 DEF OfferLive, OfferSleeping, Offer
  <2>3. /\ pc[q] \in {"live", "sleeping"}
        /\ UNCHANGED <<blocks, standing, blockedIds, joining, status>>
    BY <1>3 DEF OfferLive, OfferSleeping
  <2>4. CASE r = q
    <3>1. BlockedFrom(r)' = BlockedFrom(r)
      BY <2>3 DEF BlockedFrom, Blocked
    <3>2. SearchKnows(r)'
      BY <1>0, <2>1, <2>2, <2>3, <2>4, <3>1 DEF SearchKnows, SearchPoints, Searches
    <3>. QED
      BY <1>0, <2>3, <3>2 DEF JoinersKnow
  <2>5. CASE r # q
    BY <1>0, <2>1, <2>2, <2>3, <2>5, NoNewCardKnown DEF NoNewCard
  <2>. QED
    BY <2>4, <2>5
<1>4. CASE LoopStep(q) /\ ~ReadBlocks(q) /\ ~OfferLive(q) /\ ~OfferSleeping(q)
  <2>1. PICK p \in SearchPoints \cup {"done"} : MovesTo(q, p)
    BY <1>4, LoopMoves
  <2>2. /\ UNCHANGED <<blocks, joining, standing, blockedIds>>
        /\ cards'[r] \subseteq cards[r]
        /\ pc[q] \in SearchPoints \cup {"created"}
        /\ \/ pc[q] \in SearchPoints \ {"blocks"}
           \/ pc' = [pc EXCEPT ![q] = "blocks"]
    BY <1>4 DEF LoopStep, StartLoop, OpenAcceptWindow, StepDue, SettledEarly, StopCancelled,
                TakeUpAccept, GiveUp, AssignWon, AssignLost, Announce, Expire, WithdrawOffers,
                MoveTo, SearchPoints
  <2>3. status[r] # "none" => status'[r] # "none"
    BY <1>4, TableTypes DEF Next
  <2>. QED
    BY <1>0, <2>1, <2>2, <2>3, NoNewCardKnown DEF NoNewCard, MovesTo
<1>. QED
  BY <1>1, <1>2, <1>3, <1>4

LEMMA BlocksStep ==
  ASSUME LoopInv, BlocksKnown, [Next]_vars
  PROVE  BlocksKnown'
<1>. USE DEF tableVars, searchVars, appVars, outsideVars, blockVars
<1>1. ASSUME NEW r \in Requests, CreateRequest(r) \/ LoopStep(r) PROVE BlocksKnown'
  BY <1>1, LoopBlocks
<1>2. ASSUME NEW k \in Craftsmen, ComeOnline(k) \/ CheckBlocks(k) \/ OfferLateJoiner(k)
      PROVE  BlocksKnown'
  BY <1>2, JoinersBlocks
<1>3. ASSUME UNCHANGED <<blockVars, joining, blockedIds, cards, pc>> PROVE BlocksKnown'
  <2>1. \A r \in Requests : NoNewCard(r)
    BY <1>3, TableTypes DEF NoNewCard
  <2>. QED
    BY <2>1, NoNewCardKnown DEF BlocksKnown
<1>4. ASSUME NEW r \in Requests,
             \/ CloseWindow(r) \/ FlagExpires(r) \/ ConfirmComplete(r) \/ CancelByClient(r)
             \/ \E k \in Craftsmen :
                  \/ HandleAccept(k, r) \/ StartRequest(r, k) \/ CompleteRequest(r, k)
                  \/ CancelByCraftsman(r, k)
      PROVE  UNCHANGED <<blockVars, joining, blockedIds, cards, pc>>
  BY <1>4 DEF CloseWindow, FlagExpires, ConfirmComplete, CancelByClient, HandleAccept,
              StartRequest, CompleteRequest, CancelByCraftsman, CommitOnly, Commit
<1>5. ASSUME NEW u \in ResetUsers, CancelActiveMissions(u)
      PROVE  UNCHANGED <<blockVars, joining, blockedIds, cards, pc>>
  BY <1>5 DEF CancelActiveMissions, Commit
<1>6. ASSUME NEW k \in Craftsmen, NEW c \in Blockers, SetBlock(k, c) PROVE BlocksKnown'
  <2>. SUFFICES ASSUME NEW r \in Requests PROVE SearchKnows(r)' /\ JoinersKnow(r)'
    BY DEF BlocksKnown
  <2>0. SearchKnows(r) /\ JoinersKnow(r)
    BY DEF BlocksKnown
  <2>1. /\ standing'[r] \subseteq standing[r]
        /\ standing'[r] \subseteq BlockedFrom(r)'
        /\ UNCHANGED <<pc, status, cards, blockedIds, joining>>
    BY <1>6, BlockTypes DEF SetBlock, BlockedFrom, Blocked
  <2>2. SearchKnows(r)'
    BY <2>0, <2>1 DEF SearchKnows
  <2>. QED
    BY <2>0, <2>1, <2>2 DEF JoinersKnow
<1>7. CASE Crash
  <2>. SUFFICES ASSUME NEW r \in Requests PROVE SearchKnows(r)' /\ JoinersKnow(r)'
    BY DEF BlocksKnown
  <2>0. SearchKnows(r) /\ JoinersKnow(r)
    BY DEF BlocksKnown
  <2>1. /\ pc'[r] \notin SearchPoints \cup {"created"}
        /\ joining' = [k \in Craftsmen |-> Idle]
        /\ UNCHANGED <<status, cards, blocks, standing>>
    BY <1>7, BlockTypes DEF Crash, Searching, SearchPoints
  <2>2. BlockedFrom(r)' = BlockedFrom(r)
    BY <2>1 DEF BlockedFrom, Blocked
  <2>3. SearchKnows(r)'
    BY <2>0, <2>1, <2>2 DEF SearchKnows
  <2>. QED
    BY <2>1, <2>3, Constants DEF JoinersKnow, Idle
<1>8. CASE RunReply \/ Restart \/ UNCHANGED vars
  BY <1>3, <1>8 DEF RunReply, Restart, vars
<1>. QED
  BY <1>1, <1>2, <1>3, <1>4, <1>5, <1>6, <1>7, <1>8, Constants DEF Next

\* A craftsman the client has kept blocked since before the request was made
\* never has its card, whatever the search and the late joiners read in
\* between (matching.gateway.ts:269-290, 474-477, 549-583).
THEOREM StandingBlocksHold == SafeSpec => []StandingBlockHolds
<1>1. Init => BlocksKnown
  BY Constants DEF Init, Table!Init, BlocksKnown, SearchKnows, JoinersKnow, BlockedFrom, Idle,
         SearchPoints
<1>2. LoopInv /\ BlocksKnown /\ [Next]_vars => BlocksKnown'
  BY BlocksStep
<1>3. BlocksKnown => StandingBlockHolds
  BY DEF BlocksKnown, SearchKnows, StandingBlockHolds
<1>. QED
  BY <1>1, <1>2, <1>3, LoopInvariant, PTL DEF SafeSpec

-----------------------------------------------------------------------------
(* When nobody comes online during a search, every card is accounted for:  *)
(* until the search ends its holder is in offeredTo, and from the moment   *)
(* an accept is taken up in the copy Announce goes through.                *)
CardsKnown ==
  /\ \A k \in Craftsmen : joining[k] = Idle
  /\ \A r \in Requests :
       /\ status[r] = "none" => pc[r] = "none"
       /\ pc[r] \in {"none", "created", "expire", "done"} => cards[r] = {}
       /\ Searching(r) => cards[r] \subseteq offeredTo[r]
       /\ pc[r] \in {"assign", "announce"} => offeredTo[r] \subseteq others[r]

LEMMA InitCards == Init => CardsKnown
BY DEF Init, Table!Init, CardsKnown, Searching, SearchPoints

LEMMA CardsStep ==
  ASSUME Joiners = {}, LoopInv, CardsKnown, [Next]_vars
  PROVE  CardsKnown'
<1>0. /\ pc \in [Requests -> Points]
      /\ cards \in [Requests -> SUBSET Craftsmen]
      /\ offeredTo \in [Requests -> SUBSET Craftsmen]
      /\ others \in [Requests -> SUBSET Craftsmen]
      /\ joining \in [Craftsmen -> JoinEntry]
      /\ status \in [Requests -> Table!Statuses]
  BY DEF LoopInv, TypeOK, Table!TypeOK, JoinEntry
<1>n. \A r \in Requests : status[r] # "none" => status'[r] # "none"
  BY TableTypes
<1>. USE <1>0, <1>n DEF CardsKnown, Searching, SearchPoints, appVars, searchVars, outsideVars,
         MoveTo
<1>1. ASSUME NEW r \in Requests, CreateRequest(r) PROVE CardsKnown'
  BY <1>1 DEF CreateRequest, Table!CreateServiceRequest
<1>2. ASSUME NEW r \in Requests, StartLoop(r) \/ ReadBlocks(r) \/ SettledEarly(r)
      PROVE  CardsKnown'
  BY <1>2 DEF StartLoop, ReadBlocks, SettledEarly
<1>3. ASSUME NEW r \in Requests, OpenAcceptWindow(r) \/ StepDue(r) PROVE CardsKnown'
  BY <1>3 DEF OpenAcceptWindow, StepDue, DispatchUnlessCancelled
<1>4. ASSUME NEW r \in Requests, OfferLive(r) \/ OfferSleeping(r) PROVE CardsKnown'
  <2>1. Offer(r) /\ pc[r] \in {"live", "sleeping"} /\ UNCHANGED <<tableVars, joining, others>>
    BY <1>4 DEF OfferLive, OfferSleeping
  <2>2. PICK p \in {"settle", "wait", "live", "sleeping"} : pc' = [pc EXCEPT ![r] = p]
    BY <1>4 DEF OfferLive, OfferSleeping, FinishStep, DispatchUnlessCancelled
  <2>3. PICK C \in SUBSET Craftsmen :
          /\ offeredTo' = [offeredTo EXCEPT ![r] = @ \cup C]
          /\ cards'     = [cards EXCEPT ![r] = @ \cup C]
    BY <2>1 DEF Offer
  <2>. QED
    BY <2>1, <2>2, <2>3 DEF tableVars
<1>5. ASSUME NEW r \in Requests, StopCancelled(r) \/ GiveUp(r) \/ AssignLost(r)
      PROVE  CardsKnown'
  <2>1. /\ pc[r] \in {"settle", "assign"}
        /\ pc' = [pc EXCEPT ![r] = "done"] \/ pc' = [pc EXCEPT ![r] = "expire"]
        /\ cards' = [cards EXCEPT ![r] = @ \ offeredTo[r]]
        /\ UNCHANGED <<status, joining, offeredTo, others>>
    BY <1>5 DEF StopCancelled, GiveUp, AssignLost, WithdrawOffers, tableVars
  <2>2. cards'[r] = {}
    BY <2>1
  <2>. QED
    BY <2>1, <2>2
<1>6. ASSUME NEW r \in Requests, TakeUpAccept(r) PROVE CardsKnown'
  BY <1>6 DEF TakeUpAccept, tableVars
<1>7. ASSUME NEW r \in Requests, AssignWon(r) PROVE CardsKnown'
  BY <1>7 DEF AssignWon
<1>8. ASSUME NEW r \in Requests, Announce(r) PROVE CardsKnown'
  <2>1. cards'[r] = {}
    BY <1>8 DEF Announce
  <2>. QED
    BY <1>8, <2>1 DEF Announce, tableVars
<1>9. ASSUME NEW r \in Requests, Expire(r) PROVE CardsKnown'
  BY <1>9 DEF Expire
<1>10. CASE UNCHANGED <<pc, cards, offeredTo, others, joining>>
  BY <1>10
<1>11. ASSUME NEW r \in Requests,
              \/ CloseWindow(r) \/ FlagExpires(r) \/ ConfirmComplete(r) \/ CancelByClient(r)
              \/ \E k \in Craftsmen :
                   \/ HandleAccept(k, r) \/ StartRequest(r, k) \/ CompleteRequest(r, k)
                   \/ CancelByCraftsman(r, k)
       PROVE  UNCHANGED <<pc, cards, offeredTo, others, joining>>
  BY <1>11 DEF CloseWindow, FlagExpires, ConfirmComplete, CancelByClient, HandleAccept,
               StartRequest, CompleteRequest, CancelByCraftsman, CommitOnly, Commit
<1>12. ASSUME NEW k \in Craftsmen, CheckBlocks(k) \/ OfferLateJoiner(k) PROVE FALSE
  BY <1>12 DEF CheckBlocks, OfferLateJoiner, Idle
<1>13. ASSUME NEW u \in ResetUsers, CancelActiveMissions(u)
       PROVE  UNCHANGED <<pc, cards, offeredTo, others, joining>>
  BY <1>13 DEF CancelActiveMissions, Commit
<1>14. ASSUME NEW k \in Craftsmen, NEW c \in Blockers, SetBlock(k, c)
       PROVE  UNCHANGED <<pc, cards, offeredTo, others, joining>>
  BY <1>14 DEF SetBlock
<1>15. CASE RunReply \/ Restart \/ UNCHANGED vars
  BY <1>10, <1>15 DEF RunReply, Restart, vars
<1>16. CASE Crash
  BY <1>16 DEF Crash, tableVars
<1>. QED
  BY <1>1, <1>2, <1>3, <1>4, <1>5, <1>6, <1>7, <1>8, <1>9, <1>10, <1>11, <1>12, <1>13,
     <1>14, <1>15, <1>16, Constants DEF Next, LoopStep

\* When a search has ended nobody is left with its card, provided no craftsman
\* comes online while it runs (matching.gateway.ts:160-163, 470-471).  A late
\* joiner whose block check outlasts the search is offered it afterwards.
THEOREM EveryOfferWithdrawn ==
  ASSUME Joiners = {}
  PROVE  SafeSpec => []OffersWithdrawn
<1>1. LoopInv /\ CardsKnown /\ [Next]_vars => CardsKnown'
  BY CardsStep
<1>2. CardsKnown => OffersWithdrawn
  BY DEF CardsKnown, OffersWithdrawn
<1>. QED
  BY <1>1, <1>2, InitCards, LoopInvariant, PTL DEF SafeSpec

-----------------------------------------------------------------------------
(* The relay of positions and the notices of cancellation.                 *)

\* A row nobody took yet has no craftsman.
Untaken == \A r \in Requests : status[r] \in {"none", "pending"} => craftsman[r] = NoCraftsman

\* Who has a row keeps it.
TakenStays == \A r \in Requests : craftsman[r] # NoCraftsman => craftsman'[r] = craftsman[r]

LEMMA TableTaken ==
  ASSUME Table!TypeOK, Untaken, Table!Next \/ UNCHANGED tableVars
  PROVE  Untaken' /\ TakenStays
<1>. USE DEF Table!TypeOK, Untaken, TakenStays
<1>1. ASSUME NEW r \in Requests,
             \/ Table!CreateServiceRequest(r) \/ Table!ExpireRequest(r)
             \/ Table!ConfirmCompletion(r) \/ Table!CancelByClient(r)
      PROVE  Untaken' /\ TakenStays
  BY <1>1 DEF Table!CreateServiceRequest, Table!ExpireRequest,
              Table!ConfirmCompletion, Table!CancelByClient
<1>2. ASSUME NEW r \in Requests, NEW k \in Craftsmen, Table!TryAssign(r, k)
      PROVE  Untaken' /\ TakenStays
  BY <1>2 DEF Table!TryAssign
<1>3. ASSUME NEW r \in Requests, NEW k \in Craftsmen,
             Table!StartJob(r, k) \/ Table!CompleteJob(r, k) \/ Table!CancelJob(r, k)
      PROVE  Untaken' /\ TakenStays
  BY <1>3 DEF Table!StartJob, Table!CompleteJob, Table!CancelJob, Table!TransitionJob
<1>4. CASE Table!ExpireOrphanedPendingRequests
  BY <1>4 DEF Table!ExpireOrphanedPendingRequests
<1>5. ASSUME NEW u \in Clients \cup Craftsmen, Table!AdminCancelActiveRequests(u)
      PROVE  Untaken' /\ TakenStays
  BY <1>5 DEF Table!AdminCancelActiveRequests
<1>6. CASE UNCHANGED tableVars
  BY <1>6 DEF tableVars
<1>. QED
  BY <1>1, <1>2, <1>3, <1>4, <1>5, <1>6 DEF Table!Next

\* The loop that announces a craftsman announces the one who has the row.
RelayInv ==
  /\ Untaken
  /\ \A r \in Requests : pc[r] = "announce" => craftsman[r] = acceptedBy[r]
  /\ RelayedToOwnClient

\* A relay starts in Announce; every other step ends relays or leaves them.
LEMMA RelayStarts ==
  ASSUME LoopInv, [Next]_vars, NEW k \in Craftsmen
  PROVE  \/ activeAssignments'[k] \in {NoClient, activeAssignments[k]}
         \/ \E r \in Requests : /\ pc[r] = "announce" /\ k = acceptedBy[r]
                               /\ activeAssignments'[k] = ClientOf[r]
<1>0. activeAssignments \in [Craftsmen -> Clients \cup {NoClient}]
  BY DEF LoopInv, TypeOK
<1>. USE DEF gatewayVars
<1>1. ASSUME NEW r \in Requests, Announce(r)
      PROVE  \/ activeAssignments'[k] = activeAssignments[k]
             \/ /\ pc[r] = "announce" /\ k = acceptedBy[r]
                /\ activeAssignments'[k] = ClientOf[r]
  BY <1>0, <1>1 DEF Announce
<1>2. ASSUME NEW r \in Requests, CreateRequest(r) \/ (LoopStep(r) /\ ~Announce(r))
      PROVE  UNCHANGED activeAssignments
  BY <1>2 DEF CreateRequest, LoopStep, StartLoop, ReadBlocks, OpenAcceptWindow, OfferLive,
              OfferSleeping, StepDue, SettledEarly, StopCancelled, TakeUpAccept, GiveUp,
              AssignWon, AssignLost, Expire
<1>3. ASSUME NEW r \in Requests,
             \/ CloseWindow(r) \/ FlagExpires(r) \/ ConfirmComplete(r) \/ CancelByClient(r)
             \/ \E c \in Craftsmen :
                  \/ HandleAccept(c, r) \/ StartRequest(r, c) \/ CompleteRequest(r, c)
                  \/ CancelByCraftsman(r, c)
      PROVE  UNCHANGED activeAssignments
  BY <1>3 DEF CloseWindow, FlagExpires, ConfirmComplete, CancelByClient, HandleAccept,
              StartRequest, CompleteRequest, CancelByCraftsman, CommitOnly, Commit
<1>4. ASSUME NEW c \in Craftsmen,
             \/ ComeOnline(c) \/ CheckBlocks(c) \/ OfferLateJoiner(c) \/ \E u \in Blockers : SetBlock(c, u)
      PROVE  UNCHANGED activeAssignments
  BY <1>4 DEF ComeOnline, CheckBlocks, OfferLateJoiner, SetBlock
<1>5. ASSUME NEW u \in ResetUsers, CancelActiveMissions(u)
      PROVE  UNCHANGED activeAssignments
  BY <1>5 DEF CancelActiveMissions, Commit
<1>6. CASE RunReply
  BY <1>6 DEF RunReply, AfterClientCancel, AfterJob, ClearAssignment
<1>7. CASE Crash
  BY <1>7 DEF Crash
<1>8. CASE Restart \/ UNCHANGED vars
  BY <1>8 DEF Restart, vars
<1>. QED
  BY <1>1, <1>2, <1>3, <1>4, <1>5, <1>6, <1>7, <1>8, Constants DEF Next

LEMMA RelayStep ==
  ASSUME LoopInv, RelayInv, [Next]_vars
  PROVE  RelayInv'
<1>0. Table!TypeOK /\ AcceptInHand /\ pc \in [Requests -> Points]
  BY DEF LoopInv, TypeOK
<1>1. Untaken' /\ TakenStays
  BY <1>0, TableStep, TableTaken DEF RelayInv
<1>2. ASSUME NEW r \in Requests, pc[r] = "announce"
      PROVE  craftsman[r] = acceptedBy[r] /\ acceptedBy[r] \in Craftsmen
             /\ craftsman'[r] = craftsman[r]
  BY <1>0, <1>1, <1>2, Constants DEF RelayInv, AcceptInHand, TakenStays
<1>3. ASSUME NEW r \in Requests, pc'[r] = "announce" PROVE craftsman'[r] = acceptedBy'[r]
  <2>1. CASE Crash
    BY <1>0, <1>3, <2>1 DEF Crash, Searching, SearchPoints
  <2>2. CASE ~Crash /\ pc[r] = "announce"
    BY <1>0, <1>2, <2>2, SettledStays DEF AcceptInHand
  <2>3. CASE ~Crash /\ pc[r] # "announce"
    <3>1. ASSUME NEW q \in Requests, AssignWon(q) PROVE craftsman'[r] = acceptedBy'[r]
      BY <1>0, <1>3, <2>3, <3>1 DEF AssignWon, MoveTo, Table!TryAssign, Table!TypeOK,
                                    searchVars
    <3>2. ASSUME NEW q \in Requests, CreateRequest(q) \/ (LoopStep(q) /\ ~AssignWon(q))
          PROVE  FALSE
      <4>1. \A p : MoveTo(q, p) /\ p # "announce" => pc'[r] # "announce"
        BY <1>0, <2>3 DEF MoveTo
      <4>. QED
        BY <1>3, <3>2, <4>1
        DEF CreateRequest, LoopStep, StartLoop, ReadBlocks, OpenAcceptWindow, OfferLive,
            OfferSleeping, FinishStep, StepDue, SettledEarly, StopCancelled, TakeUpAccept,
            GiveUp, AssignLost, Announce, Expire, DispatchUnlessCancelled
    <3>. QED
      BY <1>3, <2>3, <3>1, <3>2, NextCases DEF Quiet, Restart
  <2>. QED
    BY <2>1, <2>2, <2>3
<1>4. RelayedToOwnClient'
  <2>. SUFFICES ASSUME NEW k \in Craftsmen, activeAssignments'[k] # NoClient
                PROVE  \E r \in Requests :
                         craftsman'[r] = k /\ ClientOf[r] = activeAssignments'[k]
    BY DEF RelayedToOwnClient
  <2>1. CASE activeAssignments'[k] = activeAssignments[k]
    BY <1>1, <2>1, Constants DEF RelayInv, RelayedToOwnClient, TakenStays
  <2>2. ASSUME NEW r \in Requests, pc[r] = "announce", k = acceptedBy[r],
               activeAssignments'[k] = ClientOf[r]
        PROVE  craftsman'[r] = k /\ ClientOf[r] = activeAssignments'[k]
    BY <1>2, <2>2
  <2>. QED
    BY <2>1, <2>2, RelayStarts
<1>. QED
  BY <1>1, <1>3, <1>4 DEF RelayInv

\* A craftsman's position goes to no client but one whose request they were
\* given, with any number of crashes and resets (matching.gateway.ts:147-149,
\* 300-317).
THEOREM PositionsStayPrivate == SafeSpec => []RelayedToOwnClient
<1>1. Init => RelayInv
  BY DEF Init, Table!Init, RelayInv, Untaken, RelayedToOwnClient
<1>2. LoopInv /\ RelayInv /\ [Next]_vars => RelayInv'
  BY RelayStep
<1>3. RelayInv => RelayedToOwnClient
  BY DEF RelayInv
<1>. QED
  BY <1>1, <1>2, <1>3, LoopInvariant, PTL DEF SafeSpec

-----------------------------------------------------------------------------
\* A cancelled job whose notice is out, or held by a handler under way.
Owed(r, m) ==
  /\ m.request = r
  /\ m.op = "jobCancel" \/ (m.op = "clientCancel" /\ m.craftsman # NoCraftsman)

NoticeInv ==
  \A r \in Requests :
    status[r] = "cancelled" /\ craftsman[r] # NoCraftsman =>
      r \in cancelNotice \/ \E m \in replies : Owed(r, m)

LEMMA NoticeStep ==
  ASSUME ResetUsers = {}, MaxCrashes = 0, LoopInv, NoticeInv, [Next]_vars
  PROVE  NoticeInv'
<1>0. Table!TypeOK /\ AcceptInHand /\ crashes \in Nat
  BY DEF LoopInv, TypeOK
<1>1. ASSUME UNCHANGED <<replies, cancelNotice>>,
             \A r \in Requests : status'[r] = "cancelled" =>
               status[r] = "cancelled" /\ craftsman'[r] = craftsman[r]
      PROVE  NoticeInv'
  BY <1>1 DEF NoticeInv
<1>2. ASSUME UNCHANGED <<tableVars, replies, cancelNotice>> PROVE NoticeInv'
  BY <1>2 DEF NoticeInv, tableVars
<1>. USE DEF appVars, outsideVars
<1>3. ASSUME NEW r \in Requests, CreateRequest(r) PROVE NoticeInv'
  BY <1>0, <1>1, <1>3 DEF CreateRequest, Table!CreateServiceRequest, Table!TypeOK
<1>4. ASSUME NEW r \in Requests, AssignWon(r) PROVE NoticeInv'
  BY <1>0, <1>1, <1>4 DEF AssignWon, Table!TryAssign, Table!TypeOK
<1>5. ASSUME NEW r \in Requests, Expire(r) PROVE NoticeInv'
  BY <1>0, <1>1, <1>2, <1>5 DEF Expire, Table!ExpireRequest, Table!TypeOK
<1>6. ASSUME NEW r \in Requests, LoopStep(r), ~AssignWon(r), ~Expire(r)
      PROVE  UNCHANGED <<tableVars, replies, cancelNotice>>
  BY <1>6 DEF LoopStep, StartLoop, ReadBlocks, OpenAcceptWindow, OfferLive, OfferSleeping, StepDue,
              SettledEarly, StopCancelled, TakeUpAccept, GiveUp, AssignLost, Announce
<1>7. ASSUME NEW r \in Requests, CloseWindow(r) \/ FlagExpires(r)
      PROVE  UNCHANGED <<tableVars, replies, cancelNotice>>
  BY <1>7 DEF CloseWindow, FlagExpires
<1>8. ASSUME NEW r \in Requests, ConfirmComplete(r) PROVE NoticeInv'
  BY <1>0, <1>1, <1>8 DEF ConfirmComplete, CommitOnly, Table!ConfirmCompletion, Table!TypeOK
<1>9. ASSUME NEW r \in Requests, CancelByClient(r) PROVE NoticeInv'
  <2>. DEFINE m == Reply("clientCancel", r, craftsman[r])
  <2>1. /\ UNCHANGED <<craftsman, cancelNotice>> /\ replies' = replies \cup {m}
        /\ status' = [status EXCEPT ![r] = "cancelled"]
    BY <1>9 DEF CancelByClient, Commit, Table!CancelByClient
  <2>2. craftsman[r] # NoCraftsman => Owed(r, m)
    BY DEF Owed, Reply
  <2>. QED
    BY <1>0, <2>1, <2>2 DEF NoticeInv, Table!TypeOK
<1>10. ASSUME NEW r \in Requests, NEW k \in Craftsmen, HandleAccept(k, r)
       PROVE  UNCHANGED <<tableVars, replies, cancelNotice>>
  BY <1>10 DEF HandleAccept
<1>11. ASSUME NEW r \in Requests, NEW k \in Craftsmen, StartRequest(r, k)
       PROVE  NoticeInv'
  BY <1>0, <1>1, <1>11 DEF StartRequest, CommitOnly, Table!StartJob, Table!TransitionJob,
                           Table!TypeOK
<1>12. ASSUME NEW r \in Requests, NEW k \in Craftsmen, CompleteRequest(r, k)
       PROVE  NoticeInv'
  <2>1. /\ UNCHANGED <<craftsman, cancelNotice>> /\ replies \subseteq replies'
        /\ status' = [status EXCEPT ![r] = "awaiting_client_confirmation"]
    BY <1>12 DEF CompleteRequest, Commit, Table!CompleteJob, Table!TransitionJob
  <2>. QED
    BY <1>0, <2>1 DEF NoticeInv, Table!TypeOK
<1>13. ASSUME NEW r \in Requests, NEW k \in Craftsmen, CancelByCraftsman(r, k)
       PROVE  NoticeInv'
  <2>. DEFINE m == Reply("jobCancel", r, k)
  <2>1. /\ UNCHANGED <<craftsman, cancelNotice>> /\ replies' = replies \cup {m}
        /\ status' = [status EXCEPT ![r] = "cancelled"]
    BY <1>13 DEF CancelByCraftsman, Commit, Table!CancelJob, Table!TransitionJob
  <2>2. Owed(r, m)
    BY DEF Owed, Reply
  <2>. QED
    BY <1>0, <2>1, <2>2 DEF NoticeInv, Table!TypeOK
<1>14. ASSUME NEW k \in Craftsmen,
              \/ ComeOnline(k) \/ CheckBlocks(k) \/ OfferLateJoiner(k) \/ \E c \in Blockers : SetBlock(k, c)
       PROVE  UNCHANGED <<tableVars, replies, cancelNotice>>
  BY <1>14 DEF ComeOnline, CheckBlocks, OfferLateJoiner, SetBlock
<1>15. CASE RunReply
  <2>1. PICK m \in replies : /\ replies' = replies \ {m}
                             /\ AfterClientCancel(m) \/ AfterJob(m)
                             /\ UNCHANGED tableVars
    BY <1>15 DEF RunReply
  <2>2. cancelNotice \subseteq cancelNotice'
    BY <2>1 DEF AfterClientCancel, AfterJob
  <2>3. \A r \in Requests : Owed(r, m) => r \in cancelNotice'
    BY <2>1 DEF AfterClientCancel, AfterJob, Owed
  <2>. QED
    BY <2>1, <2>2, <2>3 DEF NoticeInv, tableVars
<1>16. ~Crash
  BY <1>0 DEF Crash
<1>17. CASE Restart
  BY <1>1, <1>17 DEF Restart, Table!ExpireOrphanedPendingRequests
<1>18. CASE UNCHANGED vars
  BY <1>2, <1>18 DEF vars
<1>. QED
  BY <1>2, <1>3, <1>4, <1>5, <1>6, <1>7, <1>8, <1>9, <1>10, <1>11, <1>12, <1>13, <1>14,
     <1>15, <1>16, <1>17, <1>18, Constants DEF Next

\* Whoever loses a job to a cancellation is told, in every order of the
\* cancellations, while the process lives and no administrator resets anyone
\* (matching.controller.ts:167-175, 186-189).  A crash between the UPDATE and
\* the reply loses the notice; a reset never sends one: see the run admin_reset.
THEOREM EveryCancelNotified ==
  ASSUME ResetUsers = {}, MaxCrashes = 0
  PROVE  SafeSpec => []CancelNotified
<1>1. Init => NoticeInv
  BY DEF Init, Table!Init, NoticeInv
<1>2. LoopInv /\ NoticeInv /\ [Next]_vars => NoticeInv'
  BY NoticeStep
<1>3. NoticeInv => CancelNotified
  BY DEF NoticeInv, CancelNotified
<1>. QED
  BY <1>1, <1>2, <1>3, LoopInvariant, PTL DEF SafeSpec

-----------------------------------------------------------------------------
(* The first accept.                                                       *)

(* How far the memory of a search and its row have come together, in a     *)
(* process that has not died.  A search whose row is neither pending nor   *)
(* cancelled is past tryAssign or past the expiry, so a lost tryAssign     *)
(* means a cancellation; a window settles once, so the accept it settled   *)
(* with is the one tryAssign writes.                                       *)
Story(r) ==
  /\ status[r] = "none" => pc[r] = "none"
  /\ pc[r] \in {"none", "created", "blocks", "answered"} <=> window[r] = "unopened"
  /\ pc[r] \in {"assign", "announce", "expire", "done"} => window[r] = "settled"
  /\ acceptedBy[r] # NoCraftsman => window[r] = "settled"
  /\ pc[r] = "expire" => acceptedBy[r] = NoCraftsman
  /\ pc[r] \in (SearchPoints \cup {"created"}) \ {"announce"} =>
       status[r] \in {"pending", "cancelled"}
  /\ craftsman[r] # NoCraftsman => craftsman[r] = acceptedBy[r]
  /\ pc[r] = "announce" => craftsman[r] = acceptedBy[r]
  /\ pc[r] = "done" /\ acceptedBy[r] # NoCraftsman =>
       craftsman[r] = acceptedBy[r] \/ status[r] = "cancelled"
  /\ r \in cancelledRequestIds => status[r] = "cancelled"

CancelsCommitted ==
  \A m \in replies : m.op = "clientCancel" => status[m.request] = "cancelled"

StoryInv ==
  crashes = 0 => up /\ CancelsCommitted /\ \A r \in Requests : Story(r)

\* A request nothing happens to, but for a flag that goes.
Undisturbed(r) ==
  /\ pc'[r] = pc[r] /\ window'[r] = window[r] /\ acceptedBy'[r] = acceptedBy[r]
  /\ status'[r] = status[r] /\ craftsman'[r] = craftsman[r]
  /\ r \in cancelledRequestIds' => r \in cancelledRequestIds

LEMMA UndisturbedStory ==
  ASSUME NEW r \in Requests, Story(r), Undisturbed(r) PROVE Story(r)'
BY DEF Story, Undisturbed

\* What the variables of a story are functions of.
LEMMA StoryTypes ==
  ASSUME LoopInv
  PROVE  /\ pc \in [Requests -> Points]
         /\ window \in [Requests -> {"unopened", "open", "settled"}]
         /\ acceptedBy \in [Requests -> Craftsmen \cup {NoCraftsman}]
         /\ status \in [Requests -> Table!Statuses]
         /\ craftsman \in [Requests -> Craftsmen \cup {NoCraftsman}]
         /\ crashes \in Nat
BY DEF LoopInv, TypeOK, Table!TypeOK

LEMMA SearchesStory ==
  ASSUME LoopInv, NEW r \in Requests, Story(r), pc[r] \in Searches,
         NEW p \in Searches, MoveTo(r, p),
         UNCHANGED <<tableVars, window, acceptedBy, cancelledRequestIds>>
  PROVE  \A q \in Requests : Story(q) => Story(q)'
<1>1. pc'[r] = p /\ \A q \in Requests \ {r} : pc'[q] = pc[q]
  BY StoryTypes DEF MoveTo
<1>2. Story(r)'
  BY <1>1 DEF Story, Searches, SearchPoints, tableVars
<1>3. \A q \in Requests \ {r} : Undisturbed(q)
  BY <1>1 DEF Undisturbed, tableVars
<1>. QED
  BY <1>2, <1>3, UndisturbedStory

LEMMA DispatchStory ==
  ASSUME LoopInv, NEW r \in Requests, Story(r),
         OfferLive(r) \/ OfferSleeping(r) \/ StepDue(r) \/ SettledEarly(r)
  PROVE  \A q \in Requests : Story(q) => Story(q)'
<1>1. /\ pc[r] \in Searches
      /\ UNCHANGED <<tableVars, window, acceptedBy, cancelledRequestIds>>
  BY DEF OfferLive, OfferSleeping, StepDue, SettledEarly, Searches, gatewayVars, searchVars
<1>2. \E p \in Searches : MoveTo(r, p)
  BY DispatchMoves DEF OfferLive, OfferSleeping, StepDue, SettledEarly, Searches
<1>. QED
  BY <1>1, <1>2, SearchesStory

\* The other steps of a loop.
LEMMA LoopStory ==
  ASSUME LoopInv, \A r \in Requests : Story(r), NEW r \in Requests,
         CreateRequest(r) \/ LoopStep(r)
  PROVE  \A q \in Requests : Story(q)'
<1>. USE StoryTypes DEF MoveTo, gatewayVars, tableVars, searchVars
<1>0. ASSUME Story(r)', \A q \in Requests \ {r} : Undisturbed(q)
      PROVE  \A q \in Requests : Story(q)'
  BY <1>0, UndisturbedStory
<1>1. CASE CreateRequest(r)
  <2>1. /\ status[r] = "none" /\ status'[r] = "pending" /\ pc'[r] = "created"
        /\ UNCHANGED <<craftsman, window, acceptedBy, cancelledRequestIds>>
    BY <1>1 DEF CreateRequest, Table!CreateServiceRequest
  <2>2. Story(r)'
    BY <2>1 DEF Story, SearchPoints
  <2>3. \A q \in Requests \ {r} : Undisturbed(q)
    BY <1>1, <2>1 DEF CreateRequest, Table!CreateServiceRequest, Undisturbed
  <2>. QED
    BY <1>0, <2>2, <2>3
<1>2. CASE StartLoop(r) \/ ReadBlocks(r)
  <2>1. Story(r)'
    BY <1>2 DEF StartLoop, ReadBlocks, Story, SearchPoints
  <2>2. \A q \in Requests \ {r} : Undisturbed(q)
    BY <1>2 DEF StartLoop, ReadBlocks, Undisturbed
  <2>. QED
    BY <1>0, <2>1, <2>2
<1>3. CASE OpenAcceptWindow(r)
  <2>1. PICK p \in Searches : pc' = [pc EXCEPT ![r] = p]
    BY <1>3, DispatchMoves DEF OpenAcceptWindow
  <2>2. /\ pc[r] = "answered" /\ pc'[r] = p /\ window'[r] = "open"
        /\ UNCHANGED <<status, craftsman, acceptedBy, cancelledRequestIds>>
    BY <1>3, <2>1 DEF OpenAcceptWindow
  <2>3. Story(r)'
    BY <2>2 DEF Story, Searches, SearchPoints
  <2>4. \A q \in Requests \ {r} : Undisturbed(q)
    BY <1>3, <2>1, <2>2 DEF OpenAcceptWindow, Undisturbed
  <2>. QED
    BY <1>0, <2>3, <2>4
<1>4. CASE OfferLive(r) \/ OfferSleeping(r) \/ StepDue(r) \/ SettledEarly(r)
  BY <1>4, DispatchStory
<1>5. ASSUME NEW p \in Points, pc' = [pc EXCEPT ![r] = p],
             UNCHANGED <<window, acceptedBy>>,
             cancelledRequestIds' \subseteq cancelledRequestIds,
             \A q \in Requests \ {r} : status'[q] = status[q] /\ craftsman'[q] = craftsman[q]
      PROVE  pc'[r] = p /\ \A q \in Requests \ {r} : Undisturbed(q)
  BY <1>5 DEF Undisturbed
<1>p. {"done", "assign", "expire", "announce"} \subseteq Points
  BY DEF Points, SearchPoints
<1>6. CASE StopCancelled(r)
  <2>1. pc'[r] = "done" /\ \A q \in Requests \ {r} : Undisturbed(q)
    BY <1>5, <1>6, <1>p DEF StopCancelled
  <2>2. Story(r)'
    BY <1>6, <2>1 DEF StopCancelled, Story, SearchPoints
  <2>. QED
    BY <1>0, <2>1, <2>2
<1>7. CASE TakeUpAccept(r)
  <2>1. pc'[r] = "assign" /\ \A q \in Requests \ {r} : Undisturbed(q)
    BY <1>5, <1>7, <1>p DEF TakeUpAccept
  <2>2. Story(r)'
    BY <1>7, <2>1 DEF TakeUpAccept, Story, SearchPoints
  <2>. QED
    BY <1>0, <2>1, <2>2
<1>8. CASE GiveUp(r)
  <2>1. pc'[r] = "expire" /\ \A q \in Requests \ {r} : Undisturbed(q)
    BY <1>5, <1>8, <1>p DEF GiveUp
  <2>2. Story(r)'
    BY <1>8, <2>1 DEF GiveUp, Story, SearchPoints
  <2>. QED
    BY <1>0, <2>1, <2>2
<1>9. CASE AssignWon(r)
  <2>1. pc'[r] = "announce" /\ \A q \in Requests \ {r} : Undisturbed(q)
    BY <1>5, <1>9, <1>p DEF AssignWon, Table!TryAssign
  <2>2. /\ pc[r] = "assign" /\ status'[r] = "assigned" /\ status[r] = "pending"
        /\ craftsman'[r] = acceptedBy[r]
        /\ UNCHANGED <<window, acceptedBy, cancelledRequestIds>>
    BY <1>9 DEF AssignWon, Table!TryAssign
  <2>3. Story(r)'
    BY <2>1, <2>2 DEF Story, SearchPoints
  <2>. QED
    BY <1>0, <2>1, <2>3
<1>10. CASE AssignLost(r)
  <2>1. pc'[r] = "done" /\ \A q \in Requests \ {r} : Undisturbed(q)
    BY <1>5, <1>10, <1>p DEF AssignLost
  <2>2. Story(r)'
    BY <1>10, <2>1 DEF AssignLost, Story, SearchPoints
  <2>. QED
    BY <1>0, <2>1, <2>2
<1>11. CASE Announce(r)
  <2>1. pc'[r] = "done" /\ \A q \in Requests \ {r} : Undisturbed(q)
    BY <1>5, <1>11, <1>p DEF Announce
  <2>2. Story(r)'
    BY <1>11, <2>1 DEF Announce, Story, SearchPoints
  <2>. QED
    BY <1>0, <2>1, <2>2
<1>12. CASE Expire(r)
  <2>1. pc'[r] = "done" /\ \A q \in Requests \ {r} : Undisturbed(q)
    BY <1>5, <1>12, <1>p DEF Expire, Table!ExpireRequest
  <2>2. /\ pc[r] = "expire"
        /\ status'[r] = status[r] \/ (status[r] = "pending" /\ status'[r] = "expired")
        /\ UNCHANGED <<craftsman, window, acceptedBy, cancelledRequestIds>>
    BY <1>12 DEF Expire, Table!ExpireRequest
  <2>3. Story(r)'
    BY <2>1, <2>2 DEF Story, SearchPoints
  <2>. QED
    BY <1>0, <2>1, <2>3
<1>. QED
  BY <1>1, <1>2, <1>3, <1>4, <1>6, <1>7, <1>8, <1>9, <1>10, <1>11, <1>12 DEF LoopStep

\* A window that settles while it is open, by an accept, by its timer or by a
\* cancellation.
LEMMA SettleStory ==
  ASSUME LoopInv, \A r \in Requests : Story(r), NEW r \in Requests, window[r] = "open",
         NEW k \in Craftsmen \cup {NoCraftsman}, SettleWith(r, k),
         UNCHANGED <<tableVars, pc>>,
         cancelledRequestIds' \subseteq cancelledRequestIds \cup {r},
         r \in cancelledRequestIds' => status[r] = "cancelled"
  PROVE  \A q \in Requests : Story(q)'
<1>. USE StoryTypes DEF SettleWith, tableVars
<1>1. window'[r] = "settled" /\ acceptedBy'[r] = k
  OBVIOUS
<1>2. /\ acceptedBy[r] = NoCraftsman /\ craftsman[r] = NoCraftsman
      /\ pc[r] \notin {"none", "created", "blocks", "answered", "assign", "announce", "expire", "done"}
  BY DEF Story
<1>3. Story(r)'
  BY <1>1, <1>2 DEF Story
<1>4. \A q \in Requests \ {r} : Undisturbed(q)
  BY DEF Undisturbed
<1>. QED
  BY <1>3, <1>4, UndisturbedStory

\* The statements of the HTTP handlers, which move rows and nothing of a search.
StatementMoves(s, t) ==
  \/ t = s
  \/ s \notin {"none"} \cup Table!Closed /\ t = "cancelled"
  \/ s \notin {"none", "pending"} \cup Table!Closed /\ t \notin {"none", "pending"}

LEMMA StatementStory ==
  ASSUME LoopInv, \A r \in Requests : Story(r),
         UNCHANGED <<craftsman, pc, window, acceptedBy, cancelledRequestIds>>,
         \A r \in Requests : StatementMoves(status[r], status'[r])
  PROVE  \A r \in Requests : Story(r)'
<1>. TAKE r \in Requests
<1>1. Story(r) /\ StatementMoves(status[r], status'[r])
  OBVIOUS
<1>2. status[r] = "cancelled" => status'[r] = "cancelled"
  BY <1>1 DEF StatementMoves, Table!Closed
<1>3. status'[r] = "none" => status[r] = "none"
  BY <1>1 DEF StatementMoves
<1>4. status[r] = "pending" => status'[r] \in {"pending", "cancelled"}
  BY <1>1 DEF StatementMoves
<1>. QED
  BY <1>1, <1>2, <1>3, <1>4 DEF Story

LEMMA HandlerStory ==
  ASSUME LoopInv, \A r \in Requests : Story(r),
         \/ \E r \in Requests : ConfirmComplete(r) \/ CancelByClient(r)
         \/ \E r \in Requests, k \in Craftsmen :
              StartRequest(r, k) \/ CompleteRequest(r, k) \/ CancelByCraftsman(r, k)
         \/ \E u \in ResetUsers : CancelActiveMissions(u)
  PROVE  \A r \in Requests : Story(r)'
<1>. USE StoryTypes DEF StatementMoves, Table!Closed, Table!Active
<1>1. ASSUME NEW r \in Requests, ConfirmComplete(r) \/ CancelByClient(r)
      PROVE  \A q \in Requests : StatementMoves(status[q], status'[q])
  BY <1>1 DEF ConfirmComplete, CancelByClient, CommitOnly, Commit,
              Table!ConfirmCompletion, Table!CancelByClient
<1>2. ASSUME NEW r \in Requests, NEW k \in Craftsmen,
             StartRequest(r, k) \/ CompleteRequest(r, k) \/ CancelByCraftsman(r, k)
      PROVE  \A q \in Requests : StatementMoves(status[q], status'[q])
  BY <1>2 DEF StartRequest, CompleteRequest, CancelByCraftsman, CommitOnly, Commit,
              Table!StartJob, Table!CompleteJob, Table!CancelJob, Table!TransitionJob
<1>3. ASSUME NEW u \in ResetUsers, CancelActiveMissions(u)
      PROVE  \A q \in Requests : StatementMoves(status[q], status'[q])
  BY <1>3 DEF CancelActiveMissions, Commit, Table!AdminCancelActiveRequests
<1>4. UNCHANGED <<craftsman, pc, window, acceptedBy, cancelledRequestIds>>
  BY DEF ConfirmComplete, CancelByClient, StartRequest, CompleteRequest,
         CancelByCraftsman, CancelActiveMissions, CommitOnly, Commit,
         Table!ConfirmCompletion, Table!CancelByClient, Table!StartJob,
         Table!CompleteJob, Table!CancelJob, Table!TransitionJob,
         Table!AdminCancelActiveRequests, searchVars, gatewayVars
<1>. QED
  BY <1>1, <1>2, <1>3, <1>4, StatementStory

LEMMA ReplyStory ==
  ASSUME LoopInv, \A r \in Requests : Story(r), CancelsCommitted, RunReply
  PROVE  \A r \in Requests : Story(r)'
<1>. USE DEF tableVars
<1>1. PICK m \in replies :
        /\ AfterClientCancel(m) \/ AfterJob(m)
        /\ UNCHANGED <<tableVars, pc>>
  BY DEF RunReply
<1>2. CASE AfterJob(m)
  <2>1. \A r \in Requests : Undisturbed(r)
    BY <1>1, <1>2 DEF AfterJob, Undisturbed
  <2>. QED
    BY <2>1, UndisturbedStory
<1>3. CASE AfterClientCancel(m)
  <2>. DEFINE q == m.request
  <2>1. q \in Requests /\ status[q] = "cancelled"
    BY <1>3 DEF AfterClientCancel, CancelsCommitted, LoopInv, TypeOK
  <2>2. cancelledRequestIds' = cancelledRequestIds \cup {q}
    BY <1>3 DEF AfterClientCancel, AbortMatchingLoop
  <2>3. CASE window[q] = "open"
    <3>1. SettleWith(q, NoCraftsman)
      BY <1>3, <2>3 DEF AfterClientCancel, AbortMatchingLoop
    <3>. QED
      BY <1>1, <2>1, <2>2, <2>3, <3>1, SettleStory
  <2>4. CASE window[q] # "open"
    <3>1. UNCHANGED <<window, acceptedBy>>
      BY <1>3, <2>4 DEF AfterClientCancel, AbortMatchingLoop
    <3>. QED
      BY <1>1, <2>1, <2>2, <3>1 DEF Story
  <2>. QED
    BY <2>3, <2>4
<1>. QED
  BY <1>1, <1>2, <1>3

\* A cancellation that is committed stays, and only a commit adds one.
LEMMA CancelsStay ==
  ASSUME LoopInv, CancelsCommitted, [Next]_vars PROVE CancelsCommitted'
<1>1. \A r \in Requests : status[r] = "cancelled" => status'[r] = "cancelled"
  <2>1. Table!TypeOK /\ (Table!Next \/ UNCHANGED tableVars)
    BY TableStep DEF LoopInv, TypeOK
  <2>2. CASE RowsMove
    BY <2>2 DEF RowsMove, Moves, Table!Active
  <2>3. ASSUME NEW r \in Requests, Table!CreateServiceRequest(r)
        PROVE  \A q \in Requests : status[q] = "cancelled" => status'[q] = "cancelled"
    BY <2>1, <2>3 DEF Table!CreateServiceRequest, Table!TypeOK
  <2>4. ASSUME NEW r \in Requests, NEW k \in Craftsmen, Table!TryAssign(r, k)
        PROVE  \A q \in Requests : status[q] = "cancelled" => status'[q] = "cancelled"
    BY <2>1, <2>4 DEF Table!TryAssign, Table!TypeOK
  <2>. QED
    BY <2>1, <2>2, <2>3, <2>4, TableShapes
<1>2. \A m \in replies : m.op = "clientCancel" => m.request \in Requests
  BY DEF LoopInv, TypeOK
<1>3. ASSUME replies' \subseteq replies PROVE CancelsCommitted'
  BY <1>1, <1>2, <1>3 DEF CancelsCommitted
<1>4. ASSUME NEW r \in Requests, CancelByClient(r) PROVE CancelsCommitted'
  <2>1. status'[r] = "cancelled" /\ replies' = replies \cup {Reply("clientCancel", r, craftsman[r])}
    BY <1>4, StoryTypes DEF CancelByClient, Commit, Table!CancelByClient
  <2>. QED
    BY <1>1, <1>2, <2>1 DEF CancelsCommitted, Reply
<1>5. ASSUME NEW m, m.op # "clientCancel", replies' = replies \cup {m}
      PROVE  CancelsCommitted'
  BY <1>1, <1>2, <1>5 DEF CancelsCommitted
<1>6. ASSUME NEW r \in Requests, NEW k \in Craftsmen,
             CompleteRequest(r, k) \/ CancelByCraftsman(r, k)
      PROVE  CancelsCommitted'
  BY <1>5, <1>6 DEF CompleteRequest, CancelByCraftsman, Commit, Reply
<1>7. ASSUME NEW u \in ResetUsers, CancelActiveMissions(u) PROVE CancelsCommitted'
  BY <1>5, <1>7 DEF CancelActiveMissions, Commit, Reply
<1>. USE DEF outsideVars
<1>8. ASSUME NEW r \in Requests, CreateRequest(r) \/ LoopStep(r) PROVE replies' \subseteq replies
  BY <1>8 DEF CreateRequest, LoopStep, StartLoop, ReadBlocks, OpenAcceptWindow, OfferLive, OfferSleeping,
              StepDue, SettledEarly, StopCancelled, TakeUpAccept, GiveUp, AssignWon,
              AssignLost, Announce, Expire
<1>9. ASSUME NEW r \in Requests,
             \/ CloseWindow(r) \/ FlagExpires(r) \/ ConfirmComplete(r)
             \/ \E k \in Craftsmen : HandleAccept(k, r) \/ StartRequest(r, k)
      PROVE  replies' \subseteq replies
  BY <1>9 DEF CloseWindow, FlagExpires, ConfirmComplete, HandleAccept, StartRequest, CommitOnly
<1>10. ASSUME NEW k \in Craftsmen,
              ComeOnline(k) \/ CheckBlocks(k) \/ OfferLateJoiner(k) \/ \E c \in Blockers : SetBlock(k, c)
       PROVE  replies' \subseteq replies
  BY <1>10 DEF ComeOnline, CheckBlocks, OfferLateJoiner, SetBlock
<1>11. CASE RunReply \/ Crash \/ Restart \/ UNCHANGED vars
  BY <1>3, <1>11 DEF RunReply, Crash, Restart, vars
<1>. QED
  BY <1>3, <1>4, <1>6, <1>7, <1>8, <1>9, <1>10, <1>11, Constants DEF Next

LEMMA NextCrashes ==
  ASSUME LoopInv, [Next]_vars, crashes' = 0
  PROVE  crashes = 0 /\ ~Crash /\ (up => up')
<1>. USE DEF outsideVars
<1>1. ASSUME NEW r \in Requests, CreateRequest(r) \/ LoopStep(r) PROVE UNCHANGED <<up, crashes>>
  BY <1>1 DEF CreateRequest, LoopStep, StartLoop, ReadBlocks, OpenAcceptWindow, OfferLive, OfferSleeping,
              StepDue, SettledEarly, StopCancelled, TakeUpAccept, GiveUp, AssignWon,
              AssignLost, Announce, Expire
<1>2. ASSUME NEW r \in Requests,
             \/ CloseWindow(r) \/ FlagExpires(r) \/ ConfirmComplete(r) \/ CancelByClient(r)
             \/ \E k \in Craftsmen :
                  \/ HandleAccept(k, r) \/ StartRequest(r, k) \/ CompleteRequest(r, k)
                  \/ CancelByCraftsman(r, k)
      PROVE  UNCHANGED <<up, crashes>>
  BY <1>2 DEF CloseWindow, FlagExpires, ConfirmComplete, CancelByClient, HandleAccept,
              StartRequest, CompleteRequest, CancelByCraftsman, CommitOnly, Commit
<1>3. ASSUME NEW k \in Craftsmen,
             ComeOnline(k) \/ CheckBlocks(k) \/ OfferLateJoiner(k) \/ \E c \in Blockers : SetBlock(k, c)
      PROVE  UNCHANGED <<up, crashes>>
  BY <1>3 DEF ComeOnline, CheckBlocks, OfferLateJoiner, SetBlock
<1>4. ASSUME RunReply \/ \E u \in ResetUsers : CancelActiveMissions(u)
      PROVE  UNCHANGED <<up, crashes>>
  BY <1>4 DEF RunReply, CancelActiveMissions, Commit
<1>5. ASSUME Restart \/ UNCHANGED vars PROVE crashes' = crashes /\ (up => up')
  BY <1>5 DEF Restart, vars
<1>6. ~Crash
  BY StoryTypes DEF Crash
<1>. QED
  BY <1>1, <1>2, <1>3, <1>4, <1>5, <1>6, Constants DEF Next

LEMMA StoryStep ==
  ASSUME LoopInv, StoryInv, [Next]_vars PROVE StoryInv'
<1>. SUFFICES ASSUME crashes' = 0 PROVE StoryInv'
  BY DEF StoryInv
<1>0. crashes = 0 /\ ~Crash
  BY StoryTypes, NextCrashes
<1>1. up /\ CancelsCommitted /\ \A r \in Requests : Story(r)
  BY <1>0 DEF StoryInv
<1>2. CancelsCommitted'
  BY <1>1, CancelsStay
<1>3. ~Restart /\ up'
  BY <1>0, <1>1, NextCrashes DEF Restart
<1>4. ASSUME NEW r \in Requests, CreateRequest(r) \/ LoopStep(r)
      PROVE  \A q \in Requests : Story(q)'
  BY <1>1, <1>4, LoopStory
<1>5. ASSUME NEW r \in Requests, CloseWindow(r) PROVE \A q \in Requests : Story(q)'
  BY <1>1, <1>5, SettleStory DEF CloseWindow, gatewayVars, Story
<1>6. ASSUME NEW r \in Requests, NEW k \in Craftsmen, HandleAccept(k, r)
      PROVE  \A q \in Requests : Story(q)'
  BY <1>1, <1>6, SettleStory DEF HandleAccept, gatewayVars, Story
<1>7. ASSUME NEW r \in Requests, FlagExpires(r) PROVE \A q \in Requests : Undisturbed(q)
  BY <1>7 DEF FlagExpires, Undisturbed, tableVars, searchVars
<1>8. ASSUME NEW k \in Craftsmen,
             ComeOnline(k) \/ CheckBlocks(k) \/ OfferLateJoiner(k) \/ \E c \in Blockers : SetBlock(k, c)
      PROVE  \A q \in Requests : Undisturbed(q)
  BY <1>8 DEF ComeOnline, CheckBlocks, OfferLateJoiner, SetBlock, Undisturbed, tableVars, searchVars,
              gatewayVars
<1>9. ASSUME UNCHANGED vars PROVE \A q \in Requests : Undisturbed(q)
  BY <1>9 DEF vars, Undisturbed, tableVars, searchVars, gatewayVars
<1>10. ASSUME \A q \in Requests : Undisturbed(q) PROVE \A q \in Requests : Story(q)'
  BY <1>1, <1>10, UndisturbedStory
<1>11. ASSUME RunReply PROVE \A r \in Requests : Story(r)'
  BY <1>1, <1>11, ReplyStory
<1>12. ASSUME \/ \E r \in Requests : ConfirmComplete(r) \/ CancelByClient(r)
              \/ \E r \in Requests, k \in Craftsmen :
                   StartRequest(r, k) \/ CompleteRequest(r, k) \/ CancelByCraftsman(r, k)
              \/ \E u \in ResetUsers : CancelActiveMissions(u)
       PROVE  \A r \in Requests : Story(r)'
  BY <1>1, <1>12, HandlerStory
<1>13. \A r \in Requests : Story(r)'
  BY <1>0, <1>3, <1>4, <1>5, <1>6, <1>7, <1>8, <1>9, <1>10, <1>11, <1>12, Constants DEF Next
<1>. QED
  BY <1>2, <1>3, <1>13 DEF StoryInv

\* The first accept wins: in a process that has not died, the craftsman on a row
\* is the one whose accept settled its window, and only a cancellation takes the
\* job from them (matching.gateway.ts:464, 499-513, 660-672).
THEOREM AcceptStands == SafeSpec => []FirstAcceptWins
<1>1. Init => StoryInv
  BY DEF Init, Table!Init, StoryInv, Story, CancelsCommitted, SearchPoints
<1>2. LoopInv /\ StoryInv /\ [Next]_vars => StoryInv'
  BY StoryStep
<1>3. StoryInv => FirstAcceptWins
  BY DEF StoryInv, Story, FirstAcceptWins
<1>. QED
  BY <1>1, <1>2, <1>3, LoopInvariant, PTL DEF SafeSpec
=============================================================================
