------------------------------ MODULE Missions ------------------------------
(***************************************************************************)
(* The mission board (backend/src/missions, with the moderation half of    *)
(* backend/src/admin/admin.service.ts): the missions and                   *)
(* mission_applications tables, the handlers that change them and the      *)
(* unseen counter behind the Missions badge.                               *)
(*                                                                         *)
(* Single statements are one action.  Two handlers run several statements: *)
(* applyToMission (mission, blocks, INSERT), outside any transaction, and  *)
(* selectApplicant, a transaction that holds the mission's row lock (FOR   *)
(* UPDATE) from its first query to its commit.  applyPc and selectPc name  *)
(* the query each of them is waiting for.  While the row is locked every   *)
(* UPDATE of it waits, and so does an INSERT that refers to it by foreign  *)
(* key.  A transaction keeps a connection of the pool until it ends; the   *)
(* block check inside it is run on another one.                            *)
(*                                                                         *)
(* No code sets an application to withdrawn, so there is one row per       *)
(* mission and applicant (mission_applications_one_active_per_user), named *)
(* by the pair.  Texts, positions, prices and photos are left out.         *)
(***************************************************************************)
EXTENDS Naturals, FiniteSets

CONSTANTS
  Missions, Users,
  PosterOf,       \* poster_id of each mission
  NoUser,         \* SQL NULL in selected_application_id
  Taps,           \* how often one user may be applying to one mission at a time
  Connections,    \* the size of the connection pool
  BlockPairs,     \* the <<blocker, blocked>> pairs that may be blocked
  Watched,        \* the users whose badge an instance follows
  MaxCrashes      \* how often the process may die

ASSUME MissionConstants ==
  /\ PosterOf \in [Missions -> Users]
  /\ NoUser \notin Users
  /\ Connections \in Nat \ {0}
  /\ BlockPairs \subseteq Users \X Users
  /\ Watched \subseteq Users
  /\ MaxCrashes \in Nat

VARIABLES
  \* the database
  status,         \* missions.status, "none" while there is no row
  application,    \* mission_applications.status of <<mission, applicant>>
  selected,       \* the applicant behind missions.selected_application_id
  blocks,         \* user_blocks
  unseen,         \* users.missions_unseen_count
  \* handlers under way
  applyPc,        \* applyToMission of <<mission, applicant, tap>>
  selectPc,       \* selectApplicant of <<mission, applicant>>
  replies,        \* handlers whose change is committed, about to notify
  bumps,          \* increments of a user's counter issued, not executed
  crashes

tables   == <<status, application, selected>>
handlers == <<applyPc, selectPc, replies>>
badge    == <<unseen, bumps>>
vars == <<tables, blocks, handlers, badge, crashes>>

Applications == Missions \X Users
Applies      == Missions \X Users \X Taps
Statuses == {"none", "pending_moderation", "approved_published", "rejected",
             "in_progress", "completed", "archived"}

Init ==
  /\ status      = [m \in Missions |-> "none"]
  /\ application = [a \in Applications |-> "none"]
  /\ selected    = [m \in Missions |-> NoUser]
  /\ blocks  = {}
  /\ unseen  = [u \in Users |-> 0]
  /\ applyPc  = [h \in Applies |-> "idle"]
  /\ selectPc = [a \in Applications |-> "idle"]
  /\ replies = {}
  /\ bumps   = [u \in Users |-> 0]
  /\ crashes = 0

-----------------------------------------------------------------------------
BlockedEitherWay(u, v) == <<u, v>> \in blocks \/ <<v, u>> \in blocks

\* The transactions that are open, each with its connection.
Transactions == {a \in Applications : selectPc[a] # "idle"}
ConnectionFree == Cardinality(Transactions) < Connections

\* Mutant: SELECT without FOR UPDATE.
NobodyLocks(m) == m \in Missions

\* Nobody holds the row lock of m.
RowFree(m) == \A u \in Users : selectPc[<<m, u>>] \notin {"block", "write"}

SetStatus(m, from, to) ==
  /\ ConnectionFree
  /\ RowFree(m)
  /\ status[m] \in from
  /\ status' = [status EXCEPT ![m] = to]

Notify(event, m, from, to) ==
  replies' = replies \cup {[event |-> event, mission |-> m, from |-> from, to |-> to]}

-----------------------------------------------------------------------------
(* The poster and the moderators.                                          *)

CreateMission(m) ==
  /\ SetStatus(m, {"none"}, "pending_moderation")
  /\ UNCHANGED <<application, selected, blocks, handlers, badge, crashes>>

\* Mutant: an edit that is not confined to rejected missions.
EditAnyMission(m) ==
  /\ SetStatus(m, {"approved_published", "rejected"}, "pending_moderation")
  /\ UNCHANGED <<application, selected, blocks, handlers, badge, crashes>>

\* Edit and resubmit after a rejection.
UpdateMission(m) ==
  /\ SetStatus(m, {"rejected"}, "pending_moderation")
  /\ UNCHANGED <<application, selected, blocks, handlers, badge, crashes>>

WithdrawMission(m) ==
  /\ SetStatus(m, {"pending_moderation", "approved_published", "rejected"}, "archived")
  /\ UNCHANGED <<application, selected, blocks, handlers, badge, crashes>>

\* Mutant: the approval does not compare the status.
ApproveAnyMission(m) ==
  /\ SetStatus(m, Statuses \ {"none"}, "approved_published")
  /\ Notify("approved", m, NoUser, PosterOf[m])
  /\ UNCHANGED <<application, selected, blocks, applyPc, selectPc, badge, crashes>>

ApproveMission(m) ==
  /\ SetStatus(m, {"pending_moderation"}, "approved_published")
  /\ Notify("approved", m, NoUser, PosterOf[m])
  /\ UNCHANGED <<application, selected, blocks, applyPc, selectPc, badge, crashes>>

\* Mutant: a status the enum does not have.
RefuseMission(m) ==
  /\ SetStatus(m, {"pending_moderation"}, "refused")
  /\ Notify("rejected", m, NoUser, PosterOf[m])
  /\ UNCHANGED <<application, selected, blocks, applyPc, selectPc, badge, crashes>>

RejectMission(m) ==
  /\ SetStatus(m, {"pending_moderation"}, "rejected")
  /\ Notify("rejected", m, NoUser, PosterOf[m])
  /\ UNCHANGED <<application, selected, blocks, applyPc, selectPc, badge, crashes>>

\* The applicant to notify is then looked up from selected_application_id.
CompleteMission(m) ==
  /\ SetStatus(m, {"in_progress"}, "completed")
  /\ Notify("completed", m, NoUser, selected[m])
  /\ UNCHANGED <<application, selected, blocks, applyPc, selectPc, badge, crashes>>

-----------------------------------------------------------------------------
(* applyToMission.                                                         *)

ApplyTo(h, point) == applyPc' = [applyPc EXCEPT ![h] = point]

\* The mission is read; unless it is published and somebody else's the
\* handler ends.
ApplyToMission(m, u, t) ==
  /\ ConnectionFree
  /\ applyPc[<<m, u, t>>] = "idle"
  /\ status[m] = "approved_published"
  /\ u # PosterOf[m]
  /\ ApplyTo(<<m, u, t>>, "block")
  /\ UNCHANGED <<tables, blocks, selectPc, replies, badge, crashes>>

\* The blocks between the two users are back.
CheckApplicant(m, u, t) ==
  /\ ConnectionFree
  /\ applyPc[<<m, u, t>>] = "block"
  /\ ApplyTo(<<m, u, t>>,
             IF BlockedEitherWay(u, PosterOf[m]) THEN "idle" ELSE "insert")
  /\ UNCHANGED <<tables, blocks, selectPc, replies, badge, crashes>>

\* Mutant: an INSERT ... ON CONFLICT DO UPDATE.
UpsertApplication(m, u, t) ==
  /\ ConnectionFree
  /\ RowFree(m)
  /\ applyPc[<<m, u, t>>] = "insert"
  /\ ApplyTo(<<m, u, t>>, "idle")
  /\ application' = [application EXCEPT ![<<m, u>>] = "pending"]
  /\ Notify("application:new", m, u, PosterOf[m])
  /\ UNCHANGED <<status, selected, blocks, selectPc, badge, crashes>>

\* The INSERT, or the unique index refusing it (23505).  The status of the
\* mission is not looked at again.
InsertApplication(m, u, t) ==
  /\ ConnectionFree
  /\ RowFree(m)
  /\ applyPc[<<m, u, t>>] = "insert"
  /\ ApplyTo(<<m, u, t>>, "idle")
  /\ \/ /\ application[<<m, u>>] = "none"
        /\ application' = [application EXCEPT ![<<m, u>>] = "pending"]
        /\ Notify("application:new", m, u, PosterOf[m])
     \/ /\ application[<<m, u>>] # "none"
        /\ UNCHANGED <<application, replies>>
  /\ UNCHANGED <<status, selected, blocks, selectPc, badge, crashes>>

-----------------------------------------------------------------------------
(* selectApplicant.                                                        *)

SelectTo(a, point) == selectPc' = [selectPc EXCEPT ![a] = point]

\* The poster picks somebody from the list of applicants: a connection, BEGIN
\* and SELECT ... FOR UPDATE, which waits for its turn.
SelectApplicant(m, u) ==
  /\ ConnectionFree
  /\ selectPc[<<m, u>>] = "idle"
  /\ application[<<m, u>>] # "none"
  /\ SelectTo(<<m, u>>, "lock")
  /\ UNCHANGED <<tables, blocks, applyPc, replies, badge, crashes>>

\* Mutant: the mission's status is not checked under the lock.
LockWithoutStatus(m, u) ==
  /\ selectPc[<<m, u>>] = "lock"
  /\ RowFree(m)
  /\ SelectTo(<<m, u>>, IF application[<<m, u>>] = "pending" THEN "block" ELSE "idle")
  /\ UNCHANGED <<tables, blocks, applyPc, replies, badge, crashes>>

\* The lock is granted: the mission must be published and the application
\* pending, or the transaction is rolled back.
LockMission(m, u) ==
  /\ selectPc[<<m, u>>] = "lock"
  /\ RowFree(m)
  /\ SelectTo(<<m, u>>,
              IF status[m] = "approved_published" /\ application[<<m, u>>] = "pending"
              THEN "block" ELSE "idle")
  /\ UNCHANGED <<tables, blocks, applyPc, replies, badge, crashes>>

\* Mutant: the refusal that forgets to roll back.
CheckSelectionForgetful(m, u) ==
  /\ ConnectionFree
  /\ selectPc[<<m, u>>] = "block"
  /\ ~BlockedEitherWay(PosterOf[m], u)
  /\ SelectTo(<<m, u>>, "write")
  /\ UNCHANGED <<tables, blocks, applyPc, replies, badge, crashes>>

\* The block check, which needs a second connection while the transaction
\* keeps the first.
CheckSelection(m, u) ==
  /\ ConnectionFree
  /\ selectPc[<<m, u>>] = "block"
  /\ SelectTo(<<m, u>>, IF BlockedEitherWay(PosterOf[m], u) THEN "idle" ELSE "write")
  /\ UNCHANGED <<tables, blocks, applyPc, replies, badge, crashes>>

\* The three UPDATEs and the commit.
CommitSelection(m, u) ==
  /\ selectPc[<<m, u>>] = "write"
  /\ application' = [a \in Applications |->
                       IF a = <<m, u>> THEN "selected"
                       ELSE IF a[1] = m /\ application[a] = "pending"
                            THEN "not_selected" ELSE application[a]]
  /\ status'   = [status EXCEPT ![m] = "in_progress"]
  /\ selected' = [selected EXCEPT ![m] = u]
  /\ SelectTo(<<m, u>>, "idle")
  /\ Notify("selected", m, NoUser, u)
  /\ UNCHANGED <<blocks, applyPc, badge, crashes>>

-----------------------------------------------------------------------------
(* Notifications, the badge, blocks and the process.                       *)

\* The events the missions controller also counts; AdminService pushes the
\* moderators' and counts none of them.
Counted == {"application:new", "selected", "completed"}

\* notifyUser and incrementUnseenCount, neither awaited.
Reply(r) ==
  /\ r \in replies
  /\ replies' = replies \ {r}
  /\ bumps' = [bumps EXCEPT ![r.to] =
                 IF r.to \in Watched /\ r.event \in Counted THEN @ + 1 ELSE @]
  /\ UNCHANGED <<tables, blocks, applyPc, selectPc, unseen, crashes>>

IncrementUnseenCount(u) ==
  /\ ConnectionFree
  /\ bumps[u] > 0
  /\ bumps'  = [bumps EXCEPT ![u] = @ - 1]
  /\ unseen' = [unseen EXCEPT ![u] = @ + 1]
  /\ UNCHANGED <<tables, blocks, handlers, crashes>>

\* The user opens the Missions tab.
MarkMissionsSeen(u) ==
  /\ ConnectionFree
  /\ unseen' = [unseen EXCEPT ![u] = 0]
  /\ UNCHANGED <<tables, blocks, handlers, bumps, crashes>>

SetBlock(pair) ==
  /\ ConnectionFree
  /\ blocks' \in {blocks \cup {pair}, blocks \ {pair}}
  /\ UNCHANGED <<tables, handlers, badge, crashes>>

\* The process dies and is started again: open transactions are rolled back,
\* handlers and increments under way are lost.
Crash ==
  /\ crashes < MaxCrashes
  /\ crashes' = crashes + 1
  /\ applyPc'  = [h \in Applies |-> "idle"]
  /\ selectPc' = [a \in Applications |-> "idle"]
  /\ replies'  = {}
  /\ bumps'    = [u \in Users |-> 0]
  /\ UNCHANGED <<tables, blocks, unseen>>

-----------------------------------------------------------------------------
ApplyStep(m, u, t)  == CheckApplicant(m, u, t) \/ InsertApplication(m, u, t)
SelectStep(m, u) == LockMission(m, u) \/ CheckSelection(m, u) \/ CommitSelection(m, u)

Next ==
  \/ \E m \in Missions :
       \/ CreateMission(m) \/ UpdateMission(m) \/ WithdrawMission(m)
       \/ ApproveMission(m) \/ RejectMission(m) \/ CompleteMission(m)
  \/ \E m \in Missions, u \in Users, t \in Taps :
       ApplyToMission(m, u, t) \/ ApplyStep(m, u, t)
  \/ \E m \in Missions, u \in Users : SelectApplicant(m, u) \/ SelectStep(m, u)
  \/ \E r \in replies : Reply(r)
  \/ \E u \in Watched : IncrementUnseenCount(u) \/ MarkMissionsSeen(u)
  \/ \E pair \in BlockPairs : SetBlock(pair)
  \/ Crash

\* Row locks are granted in the order they are waited for and the pool serves
\* its waiters in order: a handler that can run again and again does run.
Fairness == \A m \in Missions : \A u \in Users \ {PosterOf[m]} : SF_vars(SelectStep(m, u))

SafeSpec == Init /\ [][Next]_vars
Spec == SafeSpec /\ Fairness

-----------------------------------------------------------------------------
TypeOK ==
  /\ status \in [Missions -> Statuses]
  /\ application \in
       [Applications -> {"none", "pending", "selected", "not_selected"}]
  /\ selected \in [Missions -> Users \cup {NoUser}]
  /\ blocks \subseteq Users \X Users
  /\ unseen \in [Users -> Nat]
  /\ applyPc  \in [Applies -> {"idle", "block", "insert"}]
  /\ selectPc \in [Applications -> {"idle", "lock", "block", "write"}]
  /\ replies \subseteq
       [event : Counted \cup {"approved", "rejected"}, mission : Missions,
        from : Users \cup {NoUser}, to : Users]
  /\ bumps \in [Users -> Nat]
  /\ crashes \in Nat

(***************************************************************************)
(* The two tables agree on who has the mission, whatever was tapped twice, *)
(* withdrawn or rolled back: a mission is under way or done exactly when   *)
(* it points at an application, that application is the only selected one, *)
(* and nobody is turned down before somebody is picked                     *)
(* (missions.service.ts:560-563, 614-634).                                 *)
(***************************************************************************)
SelectionConsistent ==
  \A m \in Missions :
    /\ selected[m] # NoUser <=> status[m] \in {"in_progress", "completed"}
    /\ \A u \in Users :
         /\ application[<<m, u>>] = "selected" <=> u = selected[m]
         /\ application[<<m, u>>] = "not_selected" => selected[m] # NoUser

(***************************************************************************)
(* What selectApplicant checked under the row lock still holds when it     *)
(* writes, several queries later, and it is alone                          *)
(* (missions.service.ts:576-601).                                          *)
(***************************************************************************)
ChecksHoldUnderLock ==
  \A m \in Missions, u \in Users : selectPc[<<m, u>>] \in {"block", "write"} =>
    /\ status[m] = "approved_published"
    /\ application[<<m, u>>] = "pending"
    /\ \A v \in Users : selectPc[<<m, v>>] \in {"block", "write"} => v = u

(***************************************************************************)
(* Nobody has applied, or is applying, to a mission that has not been      *)
(* approved: moderation always comes first, and an edit can never send a   *)
(* mission with applicants back to it (missions.service.ts:365, 480-484).  *)
(***************************************************************************)
ModeratedFirst ==
  \A m \in Missions, u \in Users :
    \/ application[<<m, u>>] # "none"
    \/ \E t \in Taps : applyPc[<<m, u, t>>] # "idle"
    => /\ status[m] \notin {"none", "pending_moderation", "rejected"}
       /\ u # PosterOf[m]

-----------------------------------------------------------------------------
(* The pages.  Each answers from what it finds; distance, district, paging   *)
(* and the texts are left out.                                               *)

\* browseMissions: the public board of u.
BrowseMissions(u) ==
  {m \in Missions : status[m] = "approved_published" /\ ~BlockedEitherWay(u, PosterOf[m])}

\* getMissionDetail: whom the poster's name and phone are shown to.
ShownPoster(m) ==
  {u \in Users : u = PosterOf[m] \/ application[<<m, u>>] = "selected"}

\* getMissionPhoto: who can load the mission's photos.
PhotoVisible(m, u) ==
  status[m] \in {"approved_published", "in_progress", "completed"} \/ u = PosterOf[m]

\* getApplicants, the poster's list.
GetApplicants(m) == {u \in Users : application[<<m, u>>] # "none"}

\* getMyMissions: what u posted, and what u applied to until it is over.
GetMyMissions(u) ==
  {m \in Missions : status[m] # "none" /\ PosterOf[m] = u}
  \cup {m \in Missions : u \in GetApplicants(m) /\ status[m] \notin {"completed", "archived"}}

\* getMissionHistory of the administrators: each mission that ended, and the
\* performer behind its selected application.
MissionHistory ==
  {[mission |-> m, performer |-> selected[m]] :
     m \in {n \in Missions : status[n] \in {"completed", "archived", "rejected"}}}

(***************************************************************************)
(* The pages agree with each other.  Who could apply keeps seeing the      *)
(* mission until it is archived; a mission on somebody's board has turned  *)
(* nobody down; the poster's phone is shown to nobody but the one          *)
(* applicant picked; a mission under way is on both parties' lists; the    *)
(* history names a performer, one of the applicants, for exactly the       *)
(* missions that were completed (missions.service.ts:246-249, 322-327;     *)
(* ops.service.ts:315-316).                                                *)
(***************************************************************************)
PagesAgree ==
  /\ ModeratedFirst
  /\ \A m \in Missions :
       /\ \A u \in GetApplicants(m) : PhotoVisible(m, u) \/ status[m] = "archived"
       /\ \A u \in Users : m \in BrowseMissions(u) =>
            \A v \in GetApplicants(m) : application[<<m, v>>] = "pending"
       /\ ShownPoster(m) \subseteq {PosterOf[m], selected[m]}
       /\ status[m] = "in_progress" =>
            m \in GetMyMissions(PosterOf[m]) \cap GetMyMissions(selected[m])
  /\ \A row \in MissionHistory :
       IF status[row.mission] = "completed"
       THEN row.performer \in GetApplicants(row.mission) \ {PosterOf[row.mission]}
       ELSE row.performer = NoUser

(***************************************************************************)
(* A decision is never taken back: not by a second selection, a second     *)
(* application or a withdrawal (mission-application-status.enum.ts:1-6).   *)
(***************************************************************************)
DecisionIsFinal ==
  [][/\ \A a \in Applications :
          application[a] \in {"selected", "not_selected"} =>
            application'[a] = application[a]
     /\ \A m \in Missions :
          /\ selected[m] # NoUser => selected'[m] = selected[m]
          /\ status[m] \in {"completed", "archived"} => status'[m] = status[m]]_vars

Phase == [m \in Missions |->
            CASE status[m] = "none" -> "none"
              [] status[m] \in {"pending_moderation", "rejected"} -> "hidden"
              [] status[m] = "approved_published" -> "open"
              [] status[m] = "in_progress" -> "given"
              [] OTHER -> "closed"]

Lifecycle == INSTANCE MissionLifecycle WITH phase <- Phase, worker <- selected

(***************************************************************************)
(* The board keeps the promise of MissionLifecycle: approved before seen,  *)
(* given once, to somebody else than the poster, and closed for good.      *)
(***************************************************************************)
ImplementsLifecycle == Lifecycle!SafeSpec

(***************************************************************************)
(* A selection always comes to an end, with an applicant or a refusal, and *)
(* gives back the row lock and its connection (missions.service.ts:576).   *)
(***************************************************************************)
SelectionSettles ==
  \A m \in Missions : \A u \in Users \ {PosterOf[m]} :
    selectPc[<<m, u>>] # "idle" ~> selectPc[<<m, u>>] = "idle"
=============================================================================
