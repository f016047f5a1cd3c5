--------------------------- MODULE Missions_proofs ---------------------------
(***************************************************************************)
(* The mission board, for any sets of missions, users and taps and any     *)
(* pool size: its invariants, the finality of decisions, and that it       *)
(* implements MissionLifecycle.                                            *)
(***************************************************************************)
EXTENDS Missions, TLAPS, FiniteSetTheorems

(* The invariants need one another: a commit keeps the tables consistent   *)
(* because what was checked under the lock still holds, the checks survive *)
(* the other handlers because these wait for the lock, and the selected    *)
(* applicant is not the poster because nobody applies to their own         *)
(* mission.                                                                *)
BoardInv == TypeOK /\ SelectionConsistent /\ ChecksHoldUnderLock /\ ModeratedFirst

\* An application or a handler is named by its mission and its user.
LEMMA Pairs ==
  /\ \A m \in Missions, u \in Users : <<m, u>> \in Applications
  /\ \A a \in Applications : \E m \in Missions, u \in Users : a = <<m, u>>
  /\ \A m \in Missions, u \in Users, t \in Taps : <<m, u, t>> \in Applies
BY DEF Applications, Applies

LEMMA InitBoard == Init => BoardInv
<1>. SUFFICES ASSUME Init PROVE BoardInv
  OBVIOUS
<1>. USE MissionConstants, Pairs DEF Init
<1>1. TypeOK
  BY DEF TypeOK, Statuses
<1>2. SelectionConsistent /\ ChecksHoldUnderLock /\ ModeratedFirst
  BY DEF SelectionConsistent, ChecksHoldUnderLock, ModeratedFirst
<1>. QED
  BY <1>1, <1>2 DEF BoardInv

-----------------------------------------------------------------------------
(* The single-statement actions.                                           *)

\* The steps a mission's status takes outside a selection.
Edges == {<<"none", "pending_moderation">>, <<"rejected", "pending_moderation">>,
          <<"pending_moderation", "approved_published">>,
          <<"pending_moderation", "rejected">>,
          <<"pending_moderation", "archived">>,
          <<"approved_published", "archived">>, <<"rejected", "archived">>,
          <<"in_progress", "completed">>}

Statement(m) ==
  \/ CreateMission(m) \/ UpdateMission(m) \/ WithdrawMission(m)
  \/ ApproveMission(m) \/ RejectMission(m) \/ CompleteMission(m)

\* What they have in common: the row is not locked, and its status alone moves.
StatusMove(m) ==
  /\ RowFree(m)
  /\ \E s \in Statuses :
       /\ <<status[m], s>> \in Edges
       /\ status' = [status EXCEPT ![m] = s]
  /\ UNCHANGED <<application, selected, blocks, applyPc, selectPc, badge, crashes>>

LEMMA StatementMoves ==
  ASSUME NEW m \in Missions, Statement(m) PROVE StatusMove(m)
<1>. USE DEF SetStatus, StatusMove, Edges, Statuses, handlers
<1>1. CASE CreateMission(m)
  BY <1>1 DEF CreateMission
<1>2. CASE UpdateMission(m)
  BY <1>2 DEF UpdateMission
<1>3. CASE WithdrawMission(m)
  BY <1>3 DEF WithdrawMission
<1>4. CASE ApproveMission(m)
  BY <1>4 DEF ApproveMission
<1>5. CASE RejectMission(m)
  BY <1>5 DEF RejectMission
<1>6. CASE CompleteMission(m)
  BY <1>6 DEF CompleteMission
<1>. QED
  BY <1>1, <1>2, <1>3, <1>4, <1>5, <1>6 DEF Statement

\* Only an approval and a rejection notify the poster, only a completion the
\* selected applicant, who exists.
LEMMA StatementReplies ==
  ASSUME TypeOK, SelectionConsistent, NEW m \in Missions, Statement(m)
  PROVE  replies' \subseteq
           [event : Counted \cup {"approved", "rejected"}, mission : Missions,
            from : Users \cup {NoUser}, to : Users]
<1>1. CASE CreateMission(m) \/ UpdateMission(m) \/ WithdrawMission(m)
  BY <1>1 DEF CreateMission, UpdateMission, WithdrawMission, handlers, TypeOK
<1>2. CASE ApproveMission(m) \/ RejectMission(m)
  <2>1. PosterOf[m] \in Users
    BY MissionConstants
  <2>. QED
    BY <1>2, <2>1 DEF ApproveMission, RejectMission, Notify, TypeOK
<1>3. CASE CompleteMission(m)
  <2>1. status[m] = "in_progress"
    BY <1>3 DEF CompleteMission, SetStatus
  <2>2. selected[m] \in Users
    BY <2>1 DEF SelectionConsistent, TypeOK
  <2>. QED
    BY <1>3, <2>2 DEF CompleteMission, Notify, TypeOK, Counted
<1>. QED
  BY <1>1, <1>2, <1>3 DEF Statement

LEMMA StatementKeeps ==
  ASSUME BoardInv, NEW m \in Missions, Statement(m) PROVE BoardInv'
<1>. USE StatementMoves, Pairs DEF BoardInv
<1>0. PICK s \in Statuses :
        <<status[m], s>> \in Edges /\ status' = [status EXCEPT ![m] = s]
  BY DEF StatusMove
<1>1. TypeOK'
  BY <1>0, StatementReplies DEF StatusMove, TypeOK, badge
<1>2. SelectionConsistent'
  BY <1>0 DEF StatusMove, TypeOK, SelectionConsistent, Edges
<1>3. ChecksHoldUnderLock'
  BY <1>0 DEF StatusMove, TypeOK, ChecksHoldUnderLock, RowFree
<1>4. ModeratedFirst'
  BY <1>0 DEF StatusMove, TypeOK, ModeratedFirst, Edges
<1>. QED
  BY <1>1, <1>2, <1>3, <1>4

-----------------------------------------------------------------------------
(* The handlers of several statements.                                     *)

LEMMA ApplyKeeps ==
  ASSUME BoardInv, NEW m \in Missions, NEW u \in Users, NEW t \in Taps,
         ApplyToMission(m, u, t) \/ CheckApplicant(m, u, t)
  PROVE  BoardInv'
<1>. USE Pairs DEF BoardInv, ApplyToMission, CheckApplicant, ApplyTo, tables, badge
<1>1. TypeOK'
  BY DEF TypeOK
<1>2. SelectionConsistent' /\ ChecksHoldUnderLock'
  BY DEF SelectionConsistent, ChecksHoldUnderLock
<1>3. ModeratedFirst'
  <2>. SUFFICES ASSUME NEW n \in Missions, NEW v \in Users,
                       \/ application[<<n, v>>] # "none"
                       \/ \E q \in Taps : applyPc'[<<n, v, q>>] # "idle"
                PROVE  /\ status[n] \notin {"none", "pending_moderation", "rejected"}
                       /\ v # PosterOf[n]
    BY DEF ModeratedFirst
  <2>1. CASE ApplyToMission(m, u, t)
    BY <2>1 DEF ModeratedFirst, TypeOK, Applies
  <2>2. CASE CheckApplicant(m, u, t)
    BY <2>2 DEF ModeratedFirst, TypeOK, Applies
  <2>. QED
    BY <2>1, <2>2
<1>. QED
  BY <1>1, <1>2, <1>3

LEMMA InsertKeeps ==
  ASSUME BoardInv, NEW m \in Missions, NEW u \in Users, NEW t \in Taps,
         InsertApplication(m, u, t)
  PROVE  BoardInv'
<1>. USE Pairs DEF BoardInv
<1>1. /\ RowFree(m)
      /\ applyPc[<<m, u, t>>] = "insert"
      /\ applyPc' = [applyPc EXCEPT ![<<m, u, t>>] = "idle"]
      /\ UNCHANGED <<status, selected, blocks, selectPc, unseen, bumps, crashes>>
  BY DEF InsertApplication, ApplyTo, badge
<1>2. \/ UNCHANGED <<application, replies>>
      \/ /\ application[<<m, u>>] = "none"
         /\ application' = [application EXCEPT ![<<m, u>>] = "pending"]
         /\ Notify("application:new", m, u, PosterOf[m])
  BY DEF InsertApplication
<1>3. TypeOK'
  <2>1. PosterOf[m] \in Users
    BY MissionConstants
  <2>2. replies' \subseteq
          [event : Counted \cup {"approved", "rejected"}, mission : Missions,
           from : Users \cup {NoUser}, to : Users]
    BY <1>2, <2>1 DEF Notify, TypeOK, Counted
  <2>3. application' \in
          [Applications -> {"none", "pending", "selected", "not_selected"}]
    BY <1>2 DEF TypeOK
  <2>. QED
    BY <1>1, <2>2, <2>3 DEF TypeOK
<1>. \A n \in Missions, v \in Users, q \in Taps :
       applyPc'[<<n, v, q>>] # "idle" => applyPc[<<n, v, q>>] # "idle"
  BY <1>1 DEF TypeOK, Applies
<1>4. CASE UNCHANGED <<application, replies>>
  <2>1. SelectionConsistent' /\ ChecksHoldUnderLock'
    BY <1>1, <1>4 DEF SelectionConsistent, ChecksHoldUnderLock
  <2>2. ModeratedFirst'
    BY <1>1, <1>4 DEF ModeratedFirst
  <2>. QED
    BY <1>3, <2>1, <2>2
<1>5. CASE /\ application[<<m, u>>] = "none"
           /\ application' = [application EXCEPT ![<<m, u>>] = "pending"]
  <2>1. \A n \in Missions, v \in Users :
          application'[<<n, v>>] =
            IF n = m /\ v = u THEN "pending" ELSE application[<<n, v>>]
    BY <1>5 DEF TypeOK
  <2>2. SelectionConsistent'
    BY <1>1, <1>5, <2>1 DEF SelectionConsistent
  <2>3. ChecksHoldUnderLock'
    BY <1>1, <2>1 DEF ChecksHoldUnderLock, RowFree
  <2>4. /\ status[m] \notin {"none", "pending_moderation", "rejected"}
        /\ u # PosterOf[m]
    BY <1>1 DEF ModeratedFirst
  <2>5. ModeratedFirst'
    BY <1>1, <2>1, <2>4 DEF ModeratedFirst
  <2>. QED
    BY <1>3, <2>2, <2>3, <2>5
<1>. QED
  BY <1>2, <1>4, <1>5

LEMMA SelectKeeps ==
  ASSUME BoardInv, NEW m \in Missions, NEW u \in Users,
         SelectApplicant(m, u) \/ LockMission(m, u) \/ CheckSelection(m, u)
  PROVE  BoardInv'
<1>. USE Pairs DEF BoardInv
<1>1. UNCHANGED <<tables, blocks, applyPc, replies, badge, crashes>>
  BY DEF SelectApplicant, LockMission, CheckSelection
<1>2. PICK point \in {"idle", "lock", "block", "write"} :
        /\ selectPc' = [selectPc EXCEPT ![<<m, u>>] = point]
        /\ point = "block" => /\ RowFree(m)
                              /\ status[m] = "approved_published"
                              /\ application[<<m, u>>] = "pending"
        /\ point = "write" => selectPc[<<m, u>>] = "block"
  BY DEF SelectApplicant, LockMission, CheckSelection, SelectTo
<1>3. \A n \in Missions, v \in Users :
        selectPc'[<<n, v>>] = IF n = m /\ v = u THEN point ELSE selectPc[<<n, v>>]
  BY <1>2 DEF TypeOK
<1>4. TypeOK'
  BY <1>1, <1>2 DEF TypeOK, tables, badge
<1>5. SelectionConsistent' /\ ModeratedFirst'
  BY <1>1 DEF SelectionConsistent, ModeratedFirst, tables
<1>6. ChecksHoldUnderLock'
  BY <1>1, <1>2, <1>3 DEF ChecksHoldUnderLock, RowFree, tables
<1>. QED
  BY <1>4, <1>5, <1>6

\* After the commit each application of m is decided, those of the other
\* missions are as they were.
LEMMA CommitKeeps ==
  ASSUME BoardInv, NEW m \in Missions, NEW u \in Users, CommitSelection(m, u)
  PROVE  BoardInv'
<1>. USE Pairs DEF BoardInv, CommitSelection, SelectTo, badge
<1>1. /\ status[m] = "approved_published"
      /\ application[<<m, u>>] = "pending"
      /\ \A v \in Users : selectPc[<<m, v>>] \in {"block", "write"} => v = u
  BY DEF ChecksHoldUnderLock
<1>2. \A n \in Missions, v \in Users :
        application'[<<n, v>>] =
          IF n = m /\ v = u THEN "selected"
          ELSE IF n = m /\ application[<<n, v>>] = "pending" THEN "not_selected"
          ELSE application[<<n, v>>]
  OBVIOUS
<1>3. TypeOK'
  <2>1. application' \in
          [Applications -> {"none", "pending", "selected", "not_selected"}]
    BY DEF TypeOK
  <2>2. replies' \subseteq
          [event : Counted \cup {"approved", "rejected"}, mission : Missions,
           from : Users \cup {NoUser}, to : Users]
    BY DEF Notify, TypeOK, Counted
  <2>. QED
    BY <2>1, <2>2 DEF TypeOK, Statuses
<1>4. SelectionConsistent'
  BY <1>1, <1>2, MissionConstants DEF SelectionConsistent, TypeOK
<1>5. ChecksHoldUnderLock'
  BY <1>1, <1>2 DEF ChecksHoldUnderLock, TypeOK
<1>6. ModeratedFirst'
  BY <1>1, <1>2 DEF ModeratedFirst, TypeOK
<1>. QED
  BY <1>3, <1>4, <1>5, <1>6

\* Notifications, counters, blocks, the loss of the process.
LEMMA RestKeeps ==
  ASSUME BoardInv,
         \/ \E r \in replies : Reply(r)
         \/ \E u \in Watched : IncrementUnseenCount(u) \/ MarkMissionsSeen(u)
         \/ \E pair \in BlockPairs : SetBlock(pair)
         \/ Crash
         \/ UNCHANGED vars
  PROVE  BoardInv'
<1>. USE Pairs, MissionConstants DEF BoardInv, tables, handlers, badge
<1>1. TypeOK'
  <2>1. CASE \E r \in replies : Reply(r)
    BY <2>1 DEF Reply, TypeOK
  <2>2. CASE \E u \in Watched : IncrementUnseenCount(u)
    <3>1. PICK u \in Users : IncrementUnseenCount(u)
      BY <2>2
    <3>2. bumps' \in [Users -> Nat] /\ unseen' \in [Users -> Nat]
      BY <3>1 DEF IncrementUnseenCount, TypeOK
    <3>. QED
      BY <3>1, <3>2 DEF IncrementUnseenCount, TypeOK
  <2>3. CASE \E u \in Watched : MarkMissionsSeen(u)
    BY <2>3 DEF MarkMissionsSeen, TypeOK
  <2>4. CASE \E pair \in BlockPairs : SetBlock(pair)
    BY <2>4 DEF SetBlock, TypeOK
  <2>5. CASE Crash
    BY <2>5 DEF Crash, TypeOK
  <2>6. CASE UNCHANGED vars
    BY <2>6 DEF vars, TypeOK
  <2>. QED
    BY <2>1, <2>2, <2>3, <2>4, <2>5, <2>6
<1>2. UNCHANGED <<status, application, selected>>
  BY DEF Reply, IncrementUnseenCount, MarkMissionsSeen, SetBlock, Crash, vars
<1>3. \/ UNCHANGED <<applyPc, selectPc>>
      \/ /\ applyPc' = [h \in Applies |-> "idle"]
         /\ selectPc' = [a \in Applications |-> "idle"]
  BY DEF Reply, IncrementUnseenCount, MarkMissionsSeen, SetBlock, Crash, vars
<1>4. SelectionConsistent'
  BY <1>2 DEF SelectionConsistent
<1>5. ChecksHoldUnderLock'
  BY <1>2, <1>3 DEF ChecksHoldUnderLock
<1>6. ModeratedFirst'
  BY <1>2, <1>3 DEF ModeratedFirst
<1>. QED
  BY <1>1, <1>4, <1>5, <1>6

-----------------------------------------------------------------------------
\* The cases of [Next]_vars as the lemmas above have them.
LEMMA NextCases ==
  [Next]_vars =>
    \/ \E m \in Missions : Statement(m)
    \/ \E m \in Missions, u \in Users, t \in Taps :
         \/ ApplyToMission(m, u, t) \/ CheckApplicant(m, u, t)
         \/ InsertApplication(m, u, t)
    \/ \E m \in Missions, u \in Users :
         \/ SelectApplicant(m, u) \/ LockMission(m, u) \/ CheckSelection(m, u)
         \/ CommitSelection(m, u)
    \/ \E r \in replies : Reply(r)
    \/ \E u \in Watched : IncrementUnseenCount(u) \/ MarkMissionsSeen(u)
    \/ \E pair \in BlockPairs : SetBlock(pair)
    \/ Crash
    \/ UNCHANGED vars
BY DEF Next, Statement, ApplyStep, SelectStep

LEMMA BoardStep == BoardInv /\ [Next]_vars => BoardInv'
BY NextCases, StatementKeeps, ApplyKeeps, InsertKeeps, SelectKeeps, CommitKeeps, RestKeeps

LEMMA BoardInvariant == SafeSpec => []BoardInv
BY InitBoard, BoardStep, PTL DEF SafeSpec

\* The board's tables, handlers and counters keep their types.
THEOREM BoardTypes == SafeSpec => []TypeOK
BY BoardInvariant, PTL DEF BoardInv

\* The two tables always agree on who has the mission (selectApplicant,
\* missions.service.ts:560-638).
THEOREM OneApplicantSelected == SafeSpec => []SelectionConsistent
BY BoardInvariant, PTL DEF BoardInv

\* What a selection checked under the row lock holds until it commits.
THEOREM SelectionChecksHold == SafeSpec => []ChecksHoldUnderLock
BY BoardInvariant, PTL DEF BoardInv

\* Nobody applies to a mission that has not been approved, or to their own.
THEOREM ModerationComesFirst == SafeSpec => []ModeratedFirst
BY BoardInvariant, PTL DEF BoardInv

\* The pages agree with each other and with the two tables: what the board,
\* the details, the lists and the administrators' history show
\* (missions.service.ts:162-363, 515-558).
THEOREM PagesTellOneStory == SafeSpec => []PagesAgree
<1>1. BoardInv => PagesAgree
  <2>. SUFFICES ASSUME BoardInv PROVE PagesAgree
    OBVIOUS
  <2>. USE DEF BoardInv
  <2>1. \A m \in Missions : \A u \in GetApplicants(m) :
          PhotoVisible(m, u) \/ status[m] = "archived"
    BY DEF ModeratedFirst, GetApplicants, PhotoVisible, TypeOK, Statuses
  <2>2. ASSUME NEW m \in Missions, NEW u \in Users, m \in BrowseMissions(u),
               NEW v \in GetApplicants(m)
        PROVE  application[<<m, v>>] = "pending"
    <3>1. selected[m] = NoUser
      BY <2>2 DEF BrowseMissions, SelectionConsistent
    <3>2. application[<<m, v>>] \in {"none", "pending", "selected", "not_selected"}
      BY Pairs DEF TypeOK, GetApplicants
    <3>. QED
      BY <3>1, <3>2, MissionConstants DEF SelectionConsistent, GetApplicants
  <2>3. \A m \in Missions : ShownPoster(m) \subseteq {PosterOf[m], selected[m]}
    BY DEF ShownPoster, SelectionConsistent
  <2>4. \A m \in Missions :
          selected[m] # NoUser => selected[m] \in GetApplicants(m)
    BY DEF GetApplicants, SelectionConsistent, TypeOK
  <2>5. \A m \in Missions : status[m] = "in_progress" =>
          m \in GetMyMissions(PosterOf[m]) \cap GetMyMissions(selected[m])
    BY <2>4 DEF GetMyMissions, SelectionConsistent
  <2>6. ASSUME NEW row \in MissionHistory
        PROVE  IF status[row.mission] = "completed"
               THEN row.performer \in GetApplicants(row.mission) \ {PosterOf[row.mission]}
               ELSE row.performer = NoUser
    <3>1. PICK m \in Missions : /\ row = [mission |-> m, performer |-> selected[m]]
                                /\ status[m] \in {"completed", "archived", "rejected"}
      BY DEF MissionHistory
    <3>2. \A u \in GetApplicants(m) : u # PosterOf[m]
      BY DEF ModeratedFirst, GetApplicants
    <3>. QED
      BY <2>4, <3>1, <3>2 DEF SelectionConsistent
  <2>. QED
    BY <2>1, <2>2, <2>3, <2>5, <2>6 DEF PagesAgree
<1>. QED
  BY <1>1, BoardInvariant, PTL

-----------------------------------------------------------------------------
(* Decisions and the lifecycle.                                            *)

\* A step that is no commit and leaves every application that exists alone.
LEMMA ApplicationsGrow ==
  ASSUME BoardInv, [Next]_vars,
         ~ \E m \in Missions, u \in Users : CommitSelection(m, u)
  PROVE  /\ UNCHANGED selected
         /\ \A a \in Applications : application[a] # "none" => application'[a] = application[a]
<1>1. CASE \E m \in Missions : Statement(m)
  BY <1>1, StatementMoves DEF StatusMove
<1>2. CASE \E m \in Missions, u \in Users, t \in Taps : InsertApplication(m, u, t)
  BY <1>2 DEF InsertApplication, BoardInv, TypeOK
<1>3. CASE UNCHANGED tables
  BY <1>3 DEF tables
<1>4. \/ \E m \in Missions : Statement(m)
      \/ \E m \in Missions, u \in Users, t \in Taps : InsertApplication(m, u, t)
      \/ UNCHANGED tables
  BY NextCases DEF ApplyToMission, CheckApplicant, SelectApplicant, LockMission,
       CheckSelection, Reply, IncrementUnseenCount, MarkMissionsSeen, SetBlock,
       Crash, vars
<1>. QED
  BY <1>1, <1>2, <1>3, <1>4

\* A commit finds its mission published, without a decision.
LEMMA CommitFinds ==
  ASSUME BoardInv, NEW m \in Missions, NEW u \in Users, CommitSelection(m, u)
  PROVE  /\ status[m] = "approved_published"
         /\ selected[m] = NoUser
         /\ u # PosterOf[m]
         /\ \A v \in Users : application[<<m, v>>] \notin {"selected", "not_selected"}
<1>1. status[m] = "approved_published" /\ application[<<m, u>>] = "pending"
  BY DEF BoardInv, ChecksHoldUnderLock, CommitSelection
<1>2. selected[m] = NoUser
  BY <1>1 DEF BoardInv, SelectionConsistent
<1>3. u # PosterOf[m]
  BY <1>1 DEF BoardInv, ModeratedFirst
<1>. QED
  BY <1>1, <1>2, <1>3, MissionConstants DEF BoardInv, SelectionConsistent

\* How the status of one mission may change in a step.
LEMMA StatusSteps ==
  ASSUME BoardInv, [Next]_vars, NEW n \in Missions
  PROVE  \/ status'[n] = status[n]
         \/ <<status[n], status'[n]>> \in Edges
         \/ status[n] = "approved_published" /\ status'[n] = "in_progress"
<1>1. CASE \E m \in Missions : Statement(m)
  BY <1>1, StatementMoves DEF StatusMove, BoardInv, TypeOK
<1>2. CASE \E m \in Missions, u \in Users : CommitSelection(m, u)
  <2>1. PICK m \in Missions, u \in Users : CommitSelection(m, u)
    BY <1>2
  <2>2. status' = [status EXCEPT ![m] = "in_progress"]
    BY <2>1 DEF CommitSelection
  <2>3. status[m] = "approved_published"
    BY <2>1, CommitFinds
  <2>. QED
    BY <2>2, <2>3 DEF BoardInv, TypeOK
<1>3. CASE UNCHANGED status
  BY <1>3
<1>. QED
  BY <1>1, <1>2, <1>3, NextCases DEF ApplyToMission, CheckApplicant,
     InsertApplication, SelectApplicant, LockMission, CheckSelection, Reply,
     IncrementUnseenCount, MarkMissionsSeen, SetBlock, Crash, vars, tables

\* No step takes back a selection, a refusal, a completion or an archival.
THEOREM DecisionsStand == SafeSpec => DecisionIsFinal
<1>. DEFINE Final ==
       /\ \A a \in Applications :
            application[a] \in {"selected", "not_selected"} =>
              application'[a] = application[a]
       /\ \A m \in Missions :
            /\ selected[m] # NoUser => selected'[m] = selected[m]
            /\ status[m] \in {"completed", "archived"} => status'[m] = status[m]
<1>1. BoardInv /\ [Next]_vars => Final
  <2>. SUFFICES ASSUME BoardInv, [Next]_vars PROVE Final
    OBVIOUS
  <2>1. \A m \in Missions :
          status[m] \in {"completed", "archived"} => status'[m] = status[m]
    BY StatusSteps DEF Edges
  <2>2. CASE \E m \in Missions, u \in Users : CommitSelection(m, u)
    <3>1. PICK m \in Missions, u \in Users : CommitSelection(m, u)
      BY <2>2
    <3>2. \A n \in Missions : selected[n] # NoUser => selected'[n] = selected[n]
      BY <3>1, CommitFinds DEF CommitSelection, BoardInv, TypeOK
    <3>3. \A n \in Missions, v \in Users :
            application[<<n, v>>] \in {"selected", "not_selected"} =>
              application'[<<n, v>>] = application[<<n, v>>]
      BY <3>1, CommitFinds, Pairs DEF CommitSelection
    <3>. QED
      BY <2>1, <3>2, <3>3, Pairs
  <2>3. CASE ~ \E m \in Missions, u \in Users : CommitSelection(m, u)
    BY <2>1, <2>3, ApplicationsGrow
  <2>. QED
    BY <2>2, <2>3
<1>. QED
  BY <1>1, BoardInvariant, PTL DEF SafeSpec, DecisionIsFinal

LEMMA InitLifecycle == Init => Lifecycle!Init
BY DEF Init, Lifecycle!Init, Phase

\* A status move is a move of the phase or leaves it as it is.
LEMMA StatusLifecycle ==
  ASSUME BoardInv, NEW m \in Missions, Statement(m)
  PROVE  [Lifecycle!Next]_(Lifecycle!lifecycleVars)
<1>. PICK s \in Statuses :
       <<status[m], s>> \in Edges /\ status' = [status EXCEPT ![m] = s]
  BY StatementMoves DEF StatusMove
<1>. UNCHANGED selected
  BY StatementMoves DEF StatusMove
<1>. status \in [Missions -> Statuses]
  BY DEF BoardInv, TypeOK
<1>1. \A n \in Missions : n # m => Phase'[n] = Phase[n]
  BY DEF Phase
<1>. USE DEF Lifecycle!Move
<1>2. CASE status[m] = "none"
  <2>. Lifecycle!Post(m)
    BY <1>1, <1>2 DEF Lifecycle!Post, Phase, Edges
  <2>. QED BY DEF Lifecycle!Next
<1>3. CASE status[m] \in {"pending_moderation", "rejected"} /\ s \in {"pending_moderation", "rejected"}
  BY <1>1, <1>3 DEF Phase, Lifecycle!lifecycleVars
<1>4. CASE s = "approved_published"
  <2>. Lifecycle!Publish(m)
    BY <1>1, <1>4 DEF Lifecycle!Publish, Phase, Edges
  <2>. QED BY DEF Lifecycle!Next
<1>5. CASE s = "archived"
  <2>. Lifecycle!Withdraw(m)
    BY <1>1, <1>5 DEF Lifecycle!Withdraw, Phase, Edges
  <2>. QED BY DEF Lifecycle!Next
<1>6. CASE s = "completed"
  <2>. Lifecycle!Finish(m)
    BY <1>1, <1>6 DEF Lifecycle!Finish, Phase, Edges
  <2>. QED BY DEF Lifecycle!Next
<1>. QED
  BY <1>2, <1>3, <1>4, <1>5, <1>6 DEF Edges

LEMMA CommitLifecycle ==
  ASSUME BoardInv, NEW m \in Missions, NEW u \in Users, CommitSelection(m, u)
  PROVE  Lifecycle!Give(m, u)
BY CommitFinds DEF CommitSelection, Lifecycle!Give, Lifecycle!Move, Phase, BoardInv, TypeOK

\* The board implements the lifecycle its users are promised: every step of
\* the code is a step of MissionLifecycle or leaves it where it is.
THEOREM BoardImplementsLifecycle == SafeSpec => ImplementsLifecycle
<1>1. BoardInv /\ [Next]_vars => [Lifecycle!Next]_(Lifecycle!lifecycleVars)
  <2>. SUFFICES ASSUME BoardInv, [Next]_vars
                PROVE  [Lifecycle!Next]_(Lifecycle!lifecycleVars)
    OBVIOUS
  <2>1. CASE \E m \in Missions : Statement(m)
    BY <2>1, StatusLifecycle
  <2>2. CASE \E m \in Missions, u \in Users : CommitSelection(m, u)
    BY <2>2, CommitLifecycle DEF Lifecycle!Next
  <2>3. CASE UNCHANGED <<status, selected>>
    BY <2>3 DEF Lifecycle!lifecycleVars, Phase
  <2>. QED
    BY <2>1, <2>2, <2>3, NextCases DEF ApplyToMission, CheckApplicant,
       InsertApplication, SelectApplicant, LockMission, CheckSelection, Reply,
       IncrementUnseenCount, MarkMissionsSeen, SetBlock, Crash, vars, tables
<1>. QED
  BY <1>1, InitLifecycle, BoardInvariant, PTL
     DEF SafeSpec, ImplementsLifecycle, Lifecycle!SafeSpec

=============================================================================
