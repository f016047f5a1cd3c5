----------------------------- MODULE Accounts_proofs -----------------------------
(***************************************************************************)
(* What Accounts keeps true of every number of users, photos, reports and  *)
(* administrators, and of the verdict on a document.  The proof has three  *)
(* independent parts, each about the variables it reads: the reports, the  *)
(* documents on disk and in the profile, and the review queue.             *)
(***************************************************************************)
EXTENDS Accounts, TLAPS

-----------------------------------------------------------------------------
(* Types.  An administrator's handler names a report for as long as it     *)
(* runs, and a resubmission a card.                                        *)

ResolvingOK ==
  \A a \in Admins :
    resolving[a].step # "idle" => resolving[a].report \in Reports

ResubmittingOK ==
  \A u \in Users, t \in Taps :
    LET r == resubmission[u][t] IN
    r.step # "idle" => r.photo \in Cards /\ r.verdict \in {r.photo, NoPhoto}

TInv == TypeOK /\ ResolvingOK /\ ResubmittingOK

LEMMA InitTypes == Init => TInv
<1> USE AccountConstants
<1> SUFFICES ASSUME Init PROVE TInv
  OBVIOUS
<1>1. TypeOK
  BY DEF Init, TypeOK, Idle, PhotoOrNone
<1>2. ResolvingOK /\ ResubmittingOK
  BY DEF Init, ResolvingOK, ResubmittingOK, Idle
<1> QED BY <1>1, <1>2 DEF TInv

LEMMA NextTypes == TInv /\ [Next]_vars => TInv'
<1> USE AccountConstants DEF Photos
<1> SUFFICES ASSUME TInv, [Next]_vars PROVE TInv'
  OBVIOUS
<1> USE DEF TInv, TypeOK, ResolvingOK, ResubmittingOK, PhotoOrNone
<1>1. CASE UNCHANGED vars
  BY <1>1 DEF vars, diskVars, profileVars, reportVars
<1>2. ASSUME NEW d \in Photos,
             Upload(d) \/ RefuseUpload(d) \/ AcceptUpload(d) \/ ExpireVerdict(d)
      PROVE  TInv'
  BY <1>2 DEF Upload, RefuseUpload, AcceptUpload, ExpireVerdict, profileVars, reportVars
<1>3. ASSUME NEW u \in Users, NEW d \in Own(u, Cards) \cup {NoPhoto},
             NEW l \in Own(u, Licenses) \cup {NoPhoto}, Register(u, d, l)
      PROVE  TInv'
  BY <1>3 DEF Register, Own, TakenVerdict, reportVars
<1>4. ASSUME NEW u \in Users, NEW t \in Taps, NEW d \in Own(u, Cards), Resubmit(u, t, d)
      PROVE  TInv'
  <2>1. d \in Cards
    BY DEF Own
  <2>2. PICK s \in {"read", "taken"}, v \in {d, NoPhoto} :
           resubmission' = [resubmission EXCEPT ![u][t] =
                              [step |-> s, photo |-> d, verdict |-> v]]
    BY <1>4 DEF Resubmit, Step
  <2> QED BY <1>4, <2>1, <2>2 DEF Resubmit, diskVars, profileVars, reportVars
<1>5. ASSUME NEW u \in Users, NEW t \in Taps, TakeVerdict(u, t)
      PROVE  TInv'
  BY <1>5 DEF TakeVerdict, Step, profileVars, reportVars
<1>6. ASSUME NEW u \in Users, NEW t \in Taps, AttachCard(u, t)
      PROVE  TInv'
  BY <1>6 DEF AttachCard, Idle, diskVars, reportVars
<1>7. ASSUME NEW u \in Users, Approve(u) \/ Reject(u)
      PROVE  TInv'
  BY <1>7 DEF Approve, Reject, diskVars, reportVars
<1>8. ASSUME NEW u \in Users, DeleteAccount(u)
      PROVE  TInv'
  BY <1>8 DEF DeleteAccount, diskVars, reportVars
<1>9. ASSUME NEW u \in Users, UnlinkPhotos(u)
      PROVE  TInv'
  BY <1>9 DEF UnlinkPhotos, profileVars, reportVars
<1>10. CASE OpenQueue
  BY <1>10 DEF OpenQueue, PendingVerifications, diskVars, profileVars, reportVars
<1>11. ASSUME NEW q \in Reports, NEW s \in {"pending", "dismiss", "warn"},
              (Report(q) /\ s = "pending") \/ Resolve(q, s)
       PROVE  TInv'
  <2>1. report' = [report EXCEPT ![q] = s]
    BY <1>11 DEF Report, Resolve
  <2>2. disturbed' \subseteq Reports
    BY <1>11 DEF Report, Resolve
  <2> QED BY <1>11, <2>1, <2>2 DEF Report, Resolve, diskVars, profileVars
<1>12. ASSUME NEW q \in Reports, NEW a \in Admins, BeginSuspension(a, q)
       PROVE  TInv'
  BY <1>12 DEF BeginSuspension, diskVars, profileVars
<1>13. ASSUME NEW a \in Admins, SuspendReportedUser(a)
       PROVE  TInv'
  BY <1>13 DEF SuspendReportedUser, diskVars
<1>14. ASSUME NEW a \in Admins, MarkReportResolved(a) \/ SuspensionFails(a)
       PROVE  TInv'
  <2>1. resolving[a].report \in Reports
    BY <1>14 DEF MarkReportResolved, SuspensionFails
  <2>2. /\ report' \in [Reports -> {"none", "pending", "dismiss", "warn", "deactivate"}]
        /\ disturbed' \subseteq Reports
        /\ resolving' = [resolving EXCEPT ![a] = Done]
    BY <1>14, <2>1 DEF MarkReportResolved, SuspensionFails
  <2> QED BY <1>14, <2>2 DEF MarkReportResolved, SuspensionFails, Done, diskVars, profileVars
<1>15. CASE Crash
  BY <1>15 DEF Crash, Idle, Done, diskVars, profileVars
<1> HIDE DEF TInv
<1> QED BY <1>1, <1>2, <1>3, <1>4, <1>5, <1>6, <1>7, <1>8, <1>9, <1>10, <1>11,
           <1>12, <1>13, <1>14, <1>15 DEF Next

\* The fields of an account, a photo, a report and a handler hold what
\* uploads, users, admin and safety ever put there.
THEOREM TypeCorrect == Spec => []TypeOK
<1>1. TInv => TypeOK
  BY DEF TInv
<1> QED BY InitTypes, NextTypes, <1>1, PTL DEF Spec

-----------------------------------------------------------------------------
(* Reports.  As long as no second handler touches its report, the handler  *)
(* that suspends for it finds it pending to the end; when two hold the     *)
(* same report, BeginSuspension has said so.                               *)

\* What an administrator's handler is about.
Handling(a, q) == resolving[a].step # "idle" /\ resolving[a].report = q

MarkedAfterSuspended ==
  /\ \A a \in Admins : resolving[a].step = "mark" => resolving[a].report \in suspended
  /\ \A q \in Reports : report[q] = "deactivate" => q \in suspended

OneHandlerEach ==
  /\ \A a \in Admins, q \in Reports \ disturbed : Handling(a, q) => report[q] = "pending"
  /\ \A a, b \in Admins, q \in Reports \ disturbed :
       Handling(a, q) /\ Handling(b, q) => a = b

SuspensionOnRecord ==
  \A q \in suspended \ disturbed :
    report[q] = "deactivate" \/ \E a \in Admins : Handling(a, q)

ReportInv == MarkedAfterSuspended /\ OneHandlerEach /\ SuspensionOnRecord

LEMMA InitReports == Init => ReportInv
BY DEF Init, ReportInv, MarkedAfterSuspended, OneHandlerEach, SuspensionOnRecord, Handling

LEMMA NextReports == TInv /\ ReportInv /\ [Next]_vars => ReportInv'
<1> SUFFICES ASSUME TInv, ReportInv, [Next]_vars PROVE ReportInv'
  OBVIOUS
<1>t. /\ report \in [Reports -> {"none", "pending", "dismiss", "warn", "deactivate"}]
      /\ resolving \in [Admins -> [step : {"idle", "suspend", "mark"},
                                   report : Reports \cup {"none"}]]
      /\ suspended \subseteq Reports
      /\ disturbed \subseteq Reports
      /\ \A a \in Admins : resolving[a].step # "idle" => resolving[a].report \in Reports
  BY DEF TInv, TypeOK, ResolvingOK
<1>m. MarkedAfterSuspended
  BY DEF ReportInv
<1>o. OneHandlerEach
  BY DEF ReportInv
<1>s. SuspensionOnRecord
  BY DEF ReportInv
<1> USE DEF Handling
<1>1. CASE UNCHANGED reportVars
  BY <1>1 DEF ReportInv, MarkedAfterSuspended, OneHandlerEach, SuspensionOnRecord, reportVars
<1>2. ASSUME NEW q \in Reports, Report(q)
      PROVE  ReportInv'
  <2> USE <1>2 DEF Report
  <2>1. MarkedAfterSuspended'
    BY <1>t, <1>m DEF MarkedAfterSuspended
  <2>2. OneHandlerEach'
    BY <1>t, <1>o DEF OneHandlerEach
  <2>3. SuspensionOnRecord'
    BY <1>t, <1>s DEF SuspensionOnRecord
  <2> QED BY <2>1, <2>2, <2>3 DEF ReportInv
<1>3. ASSUME NEW q \in Reports, NEW action \in {"dismiss", "warn"}, Resolve(q, action)
      PROVE  ReportInv'
  <2>0. /\ report[q] = "pending"
        /\ report' = [report EXCEPT ![q] = action]
        /\ UNCHANGED <<resolving, suspended>>
        /\ disturbed \subseteq disturbed'
    BY <1>3 DEF Resolve
  <2>1. SuspendingFor(q) => q \in disturbed'
    BY <1>3 DEF Resolve
  <2>2. MarkedAfterSuspended'
    BY <1>t, <1>m, <2>0 DEF MarkedAfterSuspended
  <2>3. OneHandlerEach'
    BY <1>t, <1>o, <2>0, <2>1 DEF OneHandlerEach, SuspendingFor
  <2>4. SuspensionOnRecord'
    <3> SUFFICES ASSUME NEW p \in suspended' \ disturbed'
                 PROVE  (report[p] = "deactivate" \/ \E a \in Admins : Handling(a, p))'
      BY DEF SuspensionOnRecord
    <3>1. report[p] = "deactivate" \/ \E a \in Admins : Handling(a, p)
      BY <1>s, <2>0 DEF SuspensionOnRecord
    <3> QED BY <1>t, <2>0, <2>1, <3>1 DEF SuspendingFor
  <2> QED BY <2>2, <2>3, <2>4 DEF ReportInv
<1>4. ASSUME NEW q \in Reports, NEW a \in Admins, BeginSuspension(a, q)
      PROVE  ReportInv'
  <2>0. /\ resolving[a].step = "idle"
        /\ resolving' = [resolving EXCEPT ![a] = [step |-> "suspend", report |-> q]]
        /\ UNCHANGED <<report, suspended>>
        /\ disturbed \subseteq disturbed'
        /\ q \notin disturbed' => report[q] = "pending" /\ ~SuspendingFor(q)
    BY <1>4 DEF BeginSuspension
  <2>1. \A b \in Admins \ {a} : resolving'[b] = resolving[b]
    BY <1>t, <2>0
  <2>2. resolving'[a] = [step |-> "suspend", report |-> q]
    BY <1>t, <2>0
  <2>3. MarkedAfterSuspended'
    BY <1>t, <1>m, <2>0, <2>1, <2>2 DEF MarkedAfterSuspended
  <2>4. OneHandlerEach'
    BY <1>t, <1>o, <2>0, <2>1, <2>2 DEF OneHandlerEach, SuspendingFor
  <2>5. SuspensionOnRecord'
    BY <1>t, <1>s, <2>0, <2>1 DEF SuspensionOnRecord
  <2> QED BY <2>3, <2>4, <2>5 DEF ReportInv
<1>5. ASSUME NEW a \in Admins, SuspendReportedUser(a)
      PROVE  ReportInv'
  <2> DEFINE q == resolving[a].report
  <2>0. /\ resolving[a].step = "suspend"
        /\ q \in Reports
        /\ suspended' = suspended \cup {q}
        /\ resolving' = [resolving EXCEPT ![a].step = "mark"]
        /\ UNCHANGED <<report, disturbed>>
    BY <1>t, <1>5 DEF SuspendReportedUser
  <2>1. /\ \A b \in Admins \ {a} : resolving'[b] = resolving[b]
        /\ resolving'[a].step = "mark"
        /\ resolving'[a].report = q
    BY <1>t, <2>0
  <2>2. \A b \in Admins, p \in Reports : Handling(b, p)' <=> Handling(b, p)
    BY <1>t, <2>0, <2>1
  <2>3. MarkedAfterSuspended'
    BY <1>t, <1>m, <2>0, <2>1 DEF MarkedAfterSuspended
  <2>4. OneHandlerEach'
    BY <1>t, <1>o, <2>0, <2>1, <2>2 DEF OneHandlerEach
  <2>5. SuspensionOnRecord'
    BY <1>t, <1>s, <2>0, <2>1, <2>2 DEF SuspensionOnRecord
  <2> QED BY <2>3, <2>4, <2>5 DEF ReportInv
<1>6. ASSUME NEW a \in Admins, MarkReportResolved(a)
      PROVE  ReportInv'
  <2> DEFINE q == resolving[a].report
  <2>0. /\ resolving[a].step = "mark"
        /\ q \in Reports
        /\ report' = [report EXCEPT ![q] = IF @ = "pending" THEN "deactivate" ELSE @]
        /\ resolving' = [resolving EXCEPT ![a] = Done]
        /\ UNCHANGED <<suspended, disturbed>>
    BY <1>t, <1>6 DEF MarkReportResolved
  <2>1. /\ \A b \in Admins \ {a} : resolving'[b] = resolving[b]
        /\ resolving'[a].step = "idle"
    BY <1>t, <2>0 DEF Done
  <2>2. /\ \A p \in Reports \ {q} : report'[p] = report[p]
        /\ report'[q] \in {report[q], "deactivate"}
        /\ report[q] = "pending" => report'[q] = "deactivate"
    BY <1>t, <2>0
  <2>3. q \in suspended
    BY <1>m, <2>0 DEF MarkedAfterSuspended
  <2>4. q \notin disturbed => report[q] = "pending" /\ \A b \in Admins \ {a} : ~Handling(b, q)
    BY <1>o, <2>0 DEF OneHandlerEach
  <2>5. MarkedAfterSuspended'
    BY <1>t, <1>m, <2>0, <2>1, <2>2, <2>3 DEF MarkedAfterSuspended
  <2>6. OneHandlerEach'
    BY <1>t, <1>o, <2>0, <2>1, <2>2, <2>4 DEF OneHandlerEach
  <2>7. SuspensionOnRecord'
    BY <1>t, <1>s, <2>0, <2>1, <2>2, <2>4 DEF SuspensionOnRecord
  <2> QED BY <2>5, <2>6, <2>7 DEF ReportInv
<1>7. ASSUME NEW a \in Admins, SuspensionFails(a)
      PROVE  ReportInv'
  <2> DEFINE q == resolving[a].report
  <2>0. /\ resolving' = [resolving EXCEPT ![a] = Done]
        /\ disturbed' = disturbed \cup {q}
        /\ UNCHANGED <<report, suspended>>
    BY <1>7 DEF SuspensionFails
  <2>1. /\ \A b \in Admins \ {a} : resolving'[b] = resolving[b]
        /\ resolving'[a].step = "idle"
    BY <1>t, <2>0 DEF Done
  <2>2. MarkedAfterSuspended'
    BY <1>t, <1>m, <2>0, <2>1 DEF MarkedAfterSuspended
  <2>3. OneHandlerEach'
    BY <1>t, <1>o, <2>0, <2>1 DEF OneHandlerEach
  <2>4. SuspensionOnRecord'
    BY <1>t, <1>s, <2>0, <2>1 DEF SuspensionOnRecord
  <2> QED BY <2>2, <2>3, <2>4 DEF ReportInv
<1>8. CASE Crash
  <2>0. /\ \A a \in Admins : resolving'[a].step = "idle"
        /\ disturbed' = disturbed \cup {q \in Reports : SuspendingFor(q)}
        /\ UNCHANGED <<report, suspended>>
    BY <1>8 DEF Crash, Done
  <2>1. MarkedAfterSuspended'
    BY <1>m, <2>0 DEF MarkedAfterSuspended
  <2>2. OneHandlerEach'
    BY <2>0 DEF OneHandlerEach
  <2>3. SuspensionOnRecord'
    BY <1>t, <1>s, <2>0 DEF SuspensionOnRecord, SuspendingFor
  <2> QED BY <2>1, <2>2, <2>3 DEF ReportInv
<1>9. ASSUME NEW u \in Users
      PROVE  /\ \A d, l : Register(u, d, l) => UNCHANGED reportVars
             /\ \A t, d : Resubmit(u, t, d) \/ TakeVerdict(u, t) \/ AttachCard(u, t)
                            => UNCHANGED reportVars
             /\ Approve(u) \/ Reject(u) \/ DeleteAccount(u) \/ UnlinkPhotos(u)
                            => UNCHANGED reportVars
  BY DEF Register, Resubmit, TakeVerdict, AttachCard, Approve, Reject, DeleteAccount,
         UnlinkPhotos
<1>10. /\ \A d : Upload(d) \/ RefuseUpload(d) \/ AcceptUpload(d) \/ ExpireVerdict(d)
                   => UNCHANGED reportVars
       /\ OpenQueue => UNCHANGED reportVars
       /\ UNCHANGED vars => UNCHANGED reportVars
  BY DEF Upload, RefuseUpload, AcceptUpload, ExpireVerdict, OpenQueue, vars
<1> QED BY <1>1, <1>2, <1>3, <1>4, <1>5, <1>6, <1>7, <1>8, <1>9, <1>10 DEF Next

\* A report that says "deactivate" had its user suspended first, and a
\* suspension is on record unless two administrators met on one report or a
\* handler was cut short (admin.service.ts:301-312): whatever the number of
\* administrators, stale screens and restarts.
THEOREM ReportsAndSuspensions == Spec => []ReportsMatchSuspensions
<1>1. TInv /\ ReportInv => ReportsMatchSuspensions
  BY DEF TInv, TypeOK, ReportInv, MarkedAfterSuspended, SuspensionOnRecord, Handling,
         ReportsMatchSuspensions, SuspendingFor
<1> QED BY InitTypes, NextTypes, InitReports, NextReports, <1>1, PTL DEF Spec

-----------------------------------------------------------------------------
(* Documents.  A photo only ever reaches its owner's profile, so that the  *)
(* files a deletion removes are nobody else's; and a resubmission carries  *)
(* the verdict with the card it read it for.                               *)

\* A document of u that is on disk for as long as the account is live.
Presentable(u, d, acc, disk) ==
  OwnerOf[d] = u /\ (acc[u] = "live" => disk[d] = "ready")

ProfileOK ==
  \A u \in Users :
    /\ card[u] # NoPhoto => Presentable(u, card[u], account, photo)
    /\ license[u] # NoPhoto => Presentable(u, license[u], account, photo)
    /\ account[u] = "live" => autoCheck[u] \in {card[u], NoPhoto}

ResubmissionOK ==
  \A u \in Users, t \in Taps :
    resubmission[u][t].step # "idle" =>
      /\ Presentable(u, resubmission[u][t].photo, account, photo)
      /\ account[u] # "none"
      /\ account[u] = "deleted" => u \in raced

DeletionOK ==
  \A u \in Users :
    /\ \A d \in unlinking[u] : OwnerOf[d] = u /\ account[u] = "deleted"
    /\ account[u] = "deleted" /\ u \notin raced =>
         card[u] = NoPhoto /\ license[u] = NoPhoto /\ ~active[u]

DocumentInv == ProfileOK /\ ResubmissionOK /\ DeletionOK

LEMMA InitDocuments == Init => DocumentInv
BY DEF Init, DocumentInv, ProfileOK, ResubmissionOK, DeletionOK, Idle

\* A step that leaves accounts and profiles alone, and takes no document from
\* the disk that a live account may hold.
LEMMA DiskStep ==
  ASSUME TInv, DocumentInv,
         UNCHANGED <<account, card, license, autoCheck, active, resubmission, raced>>,
         photo' \in [Photos -> {"none", "analysed", "ready", "gone"}],
         \A d \in Photos : account[OwnerOf[d]] = "live" /\ photo[d] = "ready"
                             => photo'[d] = "ready",
         \A u \in Users : unlinking'[u] \subseteq unlinking[u]
  PROVE  DocumentInv'
<1> USE AccountConstants DEF Photos
<1>1. \A u \in Users, d \in Photos :
        Presentable(u, d, account, photo) => Presentable(u, d, account', photo')
  BY DEF Presentable
<1>2. ProfileOK'
  BY <1>1 DEF TInv, TypeOK, DocumentInv, ProfileOK
<1>3. ResubmissionOK'
  BY <1>1 DEF TInv, ResubmittingOK, DocumentInv, ResubmissionOK
<1>4. DeletionOK'
  BY DEF DocumentInv, DeletionOK
<1> QED BY <1>2, <1>3, <1>4 DEF DocumentInv

\* A step of one account, with the disk as it is.
LEMMA AccountStep ==
  ASSUME TInv, DocumentInv, NEW u \in Users,
         UNCHANGED photo,
         \A v \in Users \ {u} :
           /\ account'[v] = account[v] /\ card'[v] = card[v] /\ license'[v] = license[v]
           /\ autoCheck'[v] = autoCheck[v] /\ active'[v] = active[v]
           /\ resubmission'[v] = resubmission[v] /\ unlinking'[v] = unlinking[v]
           /\ v \in raced => v \in raced',
         card'[u] # NoPhoto => Presentable(u, card'[u], account', photo),
         license'[u] # NoPhoto => Presentable(u, license'[u], account', photo),
         account'[u] = "live" => autoCheck'[u] \in {card'[u], NoPhoto},
         \A t \in Taps : resubmission'[u][t].step # "idle" =>
           /\ Presentable(u, resubmission'[u][t].photo, account', photo)
           /\ account'[u] # "none"
           /\ account'[u] = "deleted" => u \in raced',
         \A d \in unlinking'[u] : OwnerOf[d] = u /\ account'[u] = "deleted",
         account'[u] = "deleted" /\ u \notin raced' =>
           card'[u] = NoPhoto /\ license'[u] = NoPhoto /\ ~active'[u]
  PROVE  DocumentInv'
<1>1. \A v \in Users \ {u} : \A d :
        Presentable(v, d, account, photo) => Presentable(v, d, account', photo)
  BY DEF Presentable
<1>2. ProfileOK'
  <2> SUFFICES ASSUME NEW v \in Users
               PROVE  /\ card'[v] # NoPhoto => Presentable(v, card'[v], account', photo)
                      /\ license'[v] # NoPhoto => Presentable(v, license'[v], account', photo)
                      /\ account'[v] = "live" => autoCheck'[v] \in {card'[v], NoPhoto}
    BY DEF ProfileOK
  <2>1. CASE v = u
    BY <2>1
  <2>2. CASE v # u
    BY <1>1, <2>2 DEF DocumentInv, ProfileOK
  <2> QED BY <2>1, <2>2
<1>3. ResubmissionOK'
  <2> SUFFICES ASSUME NEW v \in Users, NEW t \in Taps, resubmission'[v][t].step # "idle"
               PROVE  /\ Presentable(v, resubmission'[v][t].photo, account', photo)
                      /\ account'[v] # "none"
                      /\ account'[v] = "deleted" => v \in raced'
    BY DEF ResubmissionOK
  <2>1. CASE v = u
    BY <2>1
  <2>2. CASE v # u
    BY <1>1, <2>2 DEF DocumentInv, ResubmissionOK
  <2> QED BY <2>1, <2>2
<1>4. DeletionOK'
  BY DEF DocumentInv, DeletionOK
<1> QED BY <1>2, <1>3, <1>4 DEF DocumentInv

LEMMA NextDocuments == TInv /\ TInv' /\ DocumentInv /\ [Next]_vars => DocumentInv'
<1> SUFFICES ASSUME TInv, TInv', DocumentInv, [Next]_vars PROVE DocumentInv'
  OBVIOUS
<1> USE AccountConstants DEF Photos
<1>t. /\ photo \in [Photos -> {"none", "analysed", "ready", "gone"}]
      /\ account \in [Users -> {"none", "live", "deleted"}]
      /\ card \in [Users -> Cards \cup {NoPhoto}]
      /\ license \in [Users -> Licenses \cup {NoPhoto}]
      /\ autoCheck \in [Users -> Cards \cup {NoPhoto}]
      /\ active \in [Users -> BOOLEAN]
      /\ unlinking \in [Users -> SUBSET Photos]
      /\ photo' \in [Photos -> {"none", "analysed", "ready", "gone"}]
  BY DEF TInv, TypeOK
<1>s. /\ resubmission \in [Users -> [Taps -> [step : {"idle", "read", "taken"},
                                              photo : PhotoOrNone, verdict : PhotoOrNone]]]
      /\ \A u \in Users, t \in Taps : resubmission[u][t].step # "idle" =>
           /\ resubmission[u][t].photo \in Cards
           /\ resubmission[u][t].verdict \in {resubmission[u][t].photo, NoPhoto}
  BY DEF TInv, TypeOK, ResubmittingOK
<1>p. ProfileOK
  BY DEF DocumentInv
<1>r. ResubmissionOK
  BY DEF DocumentInv
<1>d. DeletionOK
  BY DEF DocumentInv
<1>1. CASE UNCHANGED <<photo, account, card, license, autoCheck, active, resubmission,
                       unlinking, raced>>
  <2>1. UNCHANGED photo /\ UNCHANGED account /\ UNCHANGED card /\ UNCHANGED license
        /\ UNCHANGED autoCheck /\ UNCHANGED active /\ UNCHANGED resubmission
        /\ UNCHANGED unlinking /\ UNCHANGED raced
    BY <1>1
  <2> QED BY <1>t, <2>1, DiskStep
<1>2. ASSUME NEW d \in Photos,
             Upload(d) \/ RefuseUpload(d) \/ AcceptUpload(d) \/ ExpireVerdict(d)
      PROVE  DocumentInv'
  <2>1. /\ UNCHANGED <<account, card, license, autoCheck, active, resubmission, raced>>
        /\ UNCHANGED unlinking
        /\ \/ UNCHANGED photo
           \/ photo[d] # "ready" /\ \E s : photo' = [photo EXCEPT ![d] = s]
    BY <1>2 DEF Upload, RefuseUpload, AcceptUpload, ExpireVerdict, profileVars
  <2>2. \A e \in Photos : photo[e] = "ready" => photo'[e] = "ready"
    BY <1>t, <2>1
  <2> QED BY <1>t, <2>1, <2>2, DiskStep
<1>3. ASSUME NEW u \in Users, NEW d \in Own(u, Cards) \cup {NoPhoto},
             NEW l \in Own(u, Licenses) \cup {NoPhoto}, Register(u, d, l)
      PROVE  DocumentInv'
  <2>1. /\ account[u] = "none"
        /\ account' = [account EXCEPT ![u] = "live"]
        /\ card' = [card EXCEPT ![u] = d]
        /\ license' = [license EXCEPT ![u] = l]
        /\ autoCheck' = [autoCheck EXCEPT ![u] = TakenVerdict(d, l)]
        /\ active' = [active EXCEPT ![u] = TRUE]
        /\ UNCHANGED <<photo, resubmission, unlinking, raced>>
    BY <1>3 DEF Register, reportVars
  <2>2. TakenVerdict(d, l) \in {d, NoPhoto}
    BY DEF TakenVerdict
  <2>3. /\ d # NoPhoto => OwnerOf[d] = u /\ photo[d] = "ready"
        /\ l # NoPhoto => OwnerOf[l] = u /\ photo[l] = "ready"
    BY DEF Own
  <2>4. \A t \in Taps : resubmission[u][t].step = "idle"
    BY <1>r, <2>1 DEF ResubmissionOK
  <2>5. unlinking[u] = {}
    BY <1>d, <1>t, <2>1 DEF DeletionOK
  <2>6. /\ account'[u] = "live" /\ card'[u] = d /\ license'[u] = l
        /\ autoCheck'[u] \in {d, NoPhoto}
        /\ \A v \in Users \ {u} :
             /\ account'[v] = account[v] /\ card'[v] = card[v] /\ license'[v] = license[v]
             /\ autoCheck'[v] = autoCheck[v] /\ active'[v] = active[v]
    BY <1>t, <2>1, <2>2
  <2> QED BY <2>1, <2>3, <2>4, <2>5, <2>6, AccountStep DEF Presentable
<1>4. ASSUME NEW u \in Users, NEW t \in Taps, NEW d \in Own(u, Cards), Resubmit(u, t, d)
      PROVE  DocumentInv'
  <2>1. /\ account[u] = "live"
        /\ UNCHANGED <<photo, account, card, license, autoCheck, active, unlinking, raced>>
    BY <1>4 DEF Resubmit, diskVars, profileVars
  <2>2. PICK s, v : resubmission' = [resubmission EXCEPT ![u][t] =
                                       [step |-> s, photo |-> d, verdict |-> v]]
    BY <1>4 DEF Resubmit, Step
  <2>3. /\ \A w \in Users \ {u} : resubmission'[w] = resubmission[w]
        /\ resubmission'[u][t].photo = d
        /\ \A i \in Taps \ {t} : resubmission'[u][i] = resubmission[u][i]
    BY <1>s, <2>2
  <2>4. OwnerOf[d] = u /\ photo[d] = "ready"
    BY DEF Own
  <2>5. \A i \in Taps : resubmission'[u][i].step # "idle" =>
           Presentable(u, resubmission'[u][i].photo, account', photo)
    BY <1>r, <2>1, <2>3, <2>4 DEF ResubmissionOK, Presentable
  <2> QED BY <1>p, <1>d, <2>1, <2>3, <2>5, AccountStep DEF ProfileOK, DeletionOK
<1>5. ASSUME NEW u \in Users, NEW t \in Taps, TakeVerdict(u, t)
      PROVE  DocumentInv'
  <2>1. /\ resubmission[u][t].step = "read"
        /\ UNCHANGED <<photo, account, card, license, autoCheck, active, unlinking, raced>>
    BY <1>5 DEF TakeVerdict, profileVars
  <2>2. PICK s, v : resubmission' = [resubmission EXCEPT ![u][t] =
                             [step |-> s, photo |-> resubmission[u][t].photo, verdict |-> v]]
    BY <1>5 DEF TakeVerdict, Step
  <2>3. /\ \A w \in Users \ {u} : resubmission'[w] = resubmission[w]
        /\ resubmission'[u][t].photo = resubmission[u][t].photo
        /\ \A i \in Taps \ {t} : resubmission'[u][i] = resubmission[u][i]
    BY <1>s, <2>2
  <2>4. \A i \in Taps : resubmission'[u][i].step # "idle" =>
           /\ Presentable(u, resubmission'[u][i].photo, account', photo)
           /\ account'[u] # "none"
           /\ account'[u] = "deleted" => u \in raced'
    BY <1>r, <2>1, <2>3 DEF ResubmissionOK
  <2> QED BY <1>p, <1>d, <2>1, <2>3, <2>4, AccountStep DEF ProfileOK, DeletionOK
<1>6. ASSUME NEW u \in Users, NEW t \in Taps, AttachCard(u, t)
      PROVE  DocumentInv'
  <2> DEFINE r == resubmission[u][t]
  <2>1. /\ r.step = "taken"
        /\ card' = [card EXCEPT ![u] = r.photo]
        /\ autoCheck' = [autoCheck EXCEPT ![u] = r.verdict]
        /\ active' = [active EXCEPT ![u] = TRUE]
        /\ resubmission' = [resubmission EXCEPT ![u][t] = Idle]
        /\ UNCHANGED <<photo, account, license, unlinking, raced>>
    BY <1>6 DEF AttachCard, diskVars
  <2>2. /\ card'[u] = r.photo
        /\ autoCheck'[u] \in {card'[u], NoPhoto}
        /\ resubmission'[u][t].step = "idle"
        /\ \A i \in Taps \ {t} : resubmission'[u][i] = resubmission[u][i]
        /\ \A v \in Users \ {u} :
             /\ card'[v] = card[v] /\ autoCheck'[v] = autoCheck[v]
             /\ active'[v] = active[v] /\ resubmission'[v] = resubmission[v]
    <3>1. r.verdict \in {r.photo, NoPhoto}
      BY <1>s, <2>1
    <3>2. resubmission'[u] = [resubmission[u] EXCEPT ![t] = Idle]
      BY <1>s, <2>1
    <3>3. /\ resubmission'[u][t].step = "idle"
          /\ \A i \in Taps \ {t} : resubmission'[u][i] = resubmission[u][i]
      BY <1>s, <3>2 DEF Idle
    <3> QED BY <1>t, <1>s, <2>1, <3>1, <3>3
  <2>3. /\ Presentable(u, r.photo, account', photo)
        /\ account[u] = "deleted" => u \in raced
    BY <1>r, <2>1 DEF ResubmissionOK
  <2>4. \A i \in Taps : resubmission'[u][i].step # "idle" =>
           /\ Presentable(u, resubmission'[u][i].photo, account', photo)
           /\ account'[u] # "none"
           /\ account'[u] = "deleted" => u \in raced'
    BY <1>r, <2>1, <2>2 DEF ResubmissionOK
  <2>5. /\ license[u] # NoPhoto => Presentable(u, license[u], account, photo)
        /\ \A d \in unlinking[u] : OwnerOf[d] = u /\ account[u] = "deleted"
    BY <1>p, <1>d DEF ProfileOK, DeletionOK
  <2> HIDE DEF r
  <2> QED BY <2>1, <2>2, <2>3, <2>4, <2>5, AccountStep
<1>7. ASSUME NEW u \in Users, Approve(u)
      PROVE  DocumentInv'
  BY <1>1, <1>7 DEF Approve, diskVars
<1>8. ASSUME NEW u \in Users,
             active' = [active EXCEPT ![u] = FALSE],
             UNCHANGED <<photo, account, card, license, autoCheck, resubmission, unlinking,
                         raced>>
      PROVE  DocumentInv'
  <2>1. ~active'[u] /\ \A v \in Users \ {u} : active'[v] = active[v]
    BY <1>t, <1>8
  <2>2. ProfileOK' /\ ResubmissionOK'
    BY <1>p, <1>r, <1>8 DEF ProfileOK, ResubmissionOK
  <2>3. DeletionOK'
    BY <1>d, <1>8, <2>1 DEF DeletionOK
  <2> QED BY <2>2, <2>3 DEF DocumentInv
<1>9. ASSUME NEW u \in Users, DeleteAccount(u)
      PROVE  DocumentInv'
  <2>1. /\ account[u] = "live"
        /\ account' = [account EXCEPT ![u] = "deleted"]
        /\ unlinking' = [unlinking EXCEPT ![u] = {card[u], license[u]} \ {NoPhoto}]
        /\ card' = [card EXCEPT ![u] = NoPhoto]
        /\ license' = [license EXCEPT ![u] = NoPhoto]
        /\ active' = [active EXCEPT ![u] = FALSE]
        /\ raced \subseteq raced'
        /\ UNCHANGED <<photo, autoCheck, resubmission>>
    BY <1>9 DEF DeleteAccount, diskVars
  <2>2. (\E t \in Taps : resubmission[u][t] # Idle) => u \in raced'
    BY <1>9 DEF DeleteAccount
  <2>3. /\ account'[u] = "deleted" /\ card'[u] = NoPhoto /\ license'[u] = NoPhoto
        /\ ~active'[u] /\ unlinking'[u] = {card[u], license[u]} \ {NoPhoto}
        /\ \A v \in Users \ {u} :
             /\ account'[v] = account[v] /\ card'[v] = card[v] /\ license'[v] = license[v]
             /\ active'[v] = active[v] /\ unlinking'[v] = unlinking[v]
    BY <1>t, <2>1
  <2>4. \A d \in unlinking'[u] : OwnerOf[d] = u
    BY <1>p, <2>3 DEF ProfileOK, Presentable
  <2>5. \A t \in Taps : resubmission'[u][t].step # "idle" =>
           /\ Presentable(u, resubmission'[u][t].photo, account', photo)
           /\ u \in raced'
    BY <1>r, <2>1, <2>2, <2>3 DEF ResubmissionOK, Presentable, Idle
  <2> QED BY <2>1, <2>3, <2>4, <2>5, AccountStep
<1>10. ASSUME NEW u \in Users, UnlinkPhotos(u)
       PROVE  DocumentInv'
  <2>1. /\ photo' = [d \in Photos |-> IF d \in unlinking[u] THEN "gone" ELSE photo[d]]
        /\ unlinking' = [unlinking EXCEPT ![u] = {}]
        /\ UNCHANGED <<account, card, license, autoCheck, active, resubmission, raced>>
    BY <1>10 DEF UnlinkPhotos, profileVars
  <2>2. \A d \in Photos : account[OwnerOf[d]] = "live" /\ photo[d] = "ready"
                            => photo'[d] = "ready"
    BY <1>d, <2>1 DEF DeletionOK
  <2>3. \A v \in Users : unlinking'[v] \subseteq unlinking[v]
    BY <1>t, <2>1
  <2> QED BY <1>t, <2>1, <2>2, <2>3, DiskStep
<1>11. CASE Crash
  <2>1. /\ \A u \in Users, t \in Taps : resubmission'[u][t].step = "idle"
        /\ \A u \in Users : unlinking'[u] = {}
        /\ UNCHANGED <<photo, account, card, license, autoCheck, active, raced>>
    BY <1>11 DEF Crash, Idle, diskVars, profileVars
  <2>2. ProfileOK' /\ ResubmissionOK' /\ DeletionOK'
    BY <1>p, <1>d, <2>1 DEF ProfileOK, ResubmissionOK, DeletionOK
  <2> QED BY <2>2 DEF DocumentInv
<1>12. ASSUME NEW a \in Admins,
              SuspendReportedUser(a) \/ MarkReportResolved(a) \/ SuspensionFails(a)
       PROVE  DocumentInv'
  <2>1. CASE SuspendReportedUser(a)
    <3>1. ReportedOf[resolving[a].report] \in Users
      BY <2>1 DEF SuspendReportedUser, TInv, ResolvingOK
    <3> QED BY <1>8, <2>1, <3>1 DEF SuspendReportedUser, diskVars
  <2>2. CASE MarkReportResolved(a) \/ SuspensionFails(a)
    BY <1>1, <2>2 DEF MarkReportResolved, SuspensionFails, diskVars, profileVars
  <2> QED BY <1>12, <2>1, <2>2
<1>13. ASSUME NEW q \in Reports,
              \/ Report(q)
              \/ \E action \in {"dismiss", "warn"} : Resolve(q, action)
              \/ \E a \in Admins : BeginSuspension(a, q)
       PROVE  DocumentInv'
  BY <1>1, <1>13 DEF Report, Resolve, BeginSuspension, diskVars, profileVars
<1>14. CASE OpenQueue \/ UNCHANGED vars
  BY <1>1, <1>14 DEF OpenQueue, vars, diskVars, profileVars
<1>15. ASSUME NEW u \in Users, Reject(u)
       PROVE  DocumentInv'
  BY <1>8, <1>15 DEF Reject, diskVars
<1> QED BY <1>2, <1>3, <1>4, <1>5, <1>6, <1>7, <1>9, <1>10, <1>11, <1>12, <1>13, <1>14,
           <1>15 DEF Next

\* The documents of a live account can be looked at and the stored verdict is
\* the shown card's, and an account deleted without a resubmission under way
\* names no document (users.service.ts:214-282): for every number of users,
\* photos and overlapping resubmissions.
THEOREM Documents == Spec => []DocumentsFollowAccount
<1>1. TInv /\ DocumentInv => DocumentsFollowAccount
  <2> SUFFICES ASSUME TInv, DocumentInv, NEW u \in Users
               PROVE  /\ account[u] = "live" =>
                           /\ card[u] # NoPhoto => GetIdCard(u) = {card[u]}
                           /\ license[u] # NoPhoto => GetLicense(u) = {license[u]}
                           /\ autoCheck[u] \in {card[u], NoPhoto}
                      /\ account[u] = "deleted" /\ u \notin raced =>
                           card[u] = NoPhoto /\ license[u] = NoPhoto /\ ~active[u]
    BY DEF DocumentsFollowAccount
  <2>1. card[u] \in Cards \cup {NoPhoto} /\ license[u] \in Licenses \cup {NoPhoto}
    BY DEF TInv, TypeOK
  <2> QED BY <2>1 DEF DocumentInv, ProfileOK, DeletionOK, Presentable, GetIdCard, GetLicense
<1> QED BY InitTypes, NextTypes, InitDocuments, NextDocuments, <1>1, PTL DEF Spec

-----------------------------------------------------------------------------
(* The review queue. *)

\* Registration and approval together: a regulated craftsman has handed in both
\* documents, or is verified for both.
ReviewOK ==
  \A u \in Regulated : account[u] = "live" =>
    \/ card[u] # NoPhoto /\ license[u] # NoPhoto
    \/ idVerified[u] /\ licenseVerified[u]

LEMMA InitReview == Init => ReviewOK
BY AccountConstants DEF Init, ReviewOK

LEMMA NextReview == TInv /\ ReviewOK /\ [Next]_vars => ReviewOK'
<1> SUFFICES ASSUME TInv, ReviewOK, [Next]_vars PROVE ReviewOK'
  OBVIOUS
<1> USE AccountConstants DEF Photos
<1>t. /\ account \in [Users -> {"none", "live", "deleted"}]
      /\ card \in [Users -> Cards \cup {NoPhoto}]
      /\ license \in [Users -> Licenses \cup {NoPhoto}]
      /\ idVerified \in [Users -> BOOLEAN]
      /\ licenseVerified \in [Users -> BOOLEAN]
      /\ \A u \in Users, t \in Taps :
           resubmission[u][t].step # "idle" => resubmission[u][t].photo \in Cards
  BY DEF TInv, TypeOK, ResubmittingOK
<1>1. CASE UNCHANGED <<account, card, license, idVerified, licenseVerified>>
  BY <1>1 DEF ReviewOK
<1>2. ASSUME NEW u \in Users, NEW d, NEW l, Register(u, d, l)
      PROVE  ReviewOK'
  <2>1. /\ account' = [account EXCEPT ![u] = "live"]
        /\ card' = [card EXCEPT ![u] = d]
        /\ license' = [license EXCEPT ![u] = l]
        /\ idVerified' = [idVerified EXCEPT ![u] = u \in TestPhones]
        /\ licenseVerified' = [licenseVerified EXCEPT ![u] = u \in TestPhones]
    BY <1>2 DEF Register
  <2>2. u \in Regulated => u \in TestPhones \/ (d # NoPhoto /\ l # NoPhoto)
    BY <1>2 DEF Register, CardGiven, LicenseGiven
  <2> QED BY <1>t, <2>1, <2>2 DEF ReviewOK
<1>3. ASSUME NEW u \in Users, NEW t \in Taps, AttachCard(u, t)
      PROVE  ReviewOK'
  <2>1. /\ card' = [card EXCEPT ![u] = resubmission[u][t].photo]
        /\ UNCHANGED <<account, license, idVerified, licenseVerified>>
        /\ resubmission[u][t].photo # NoPhoto
    BY <1>t, <1>3 DEF AttachCard
  <2> QED BY <1>t, <2>1 DEF ReviewOK
<1>4. ASSUME NEW u \in Users, Approve(u)
      PROVE  ReviewOK'
  <2>1. /\ idVerified' = [idVerified EXCEPT ![u] = TRUE]
        /\ licenseVerified' = [licenseVerified EXCEPT ![u] = @ \/ license[u] # NoPhoto]
        /\ UNCHANGED <<account, card, license>>
    BY <1>4 DEF Approve
  <2>2. \A v \in Users : /\ idVerified[v] => idVerified'[v]
                         /\ licenseVerified[v] => licenseVerified'[v]
    BY <1>t, <2>1
  <2> QED BY <2>1, <2>2 DEF ReviewOK
<1>5. ASSUME NEW u \in Users, DeleteAccount(u)
      PROVE  ReviewOK'
  BY <1>t, <1>5 DEF DeleteAccount, ReviewOK
<1>6. ASSUME NEW u \in Users, Reject(u) \/ UnlinkPhotos(u)
      PROVE  ReviewOK'
  BY <1>1, <1>6 DEF Reject, UnlinkPhotos, profileVars
<1>7. ASSUME NEW u \in Users, NEW t \in Taps,
             TakeVerdict(u, t) \/ \E d \in Own(u, Cards) : Resubmit(u, t, d)
      PROVE  ReviewOK'
  BY <1>1, <1>7 DEF Resubmit, TakeVerdict, profileVars
<1>8. ASSUME NEW d \in Photos,
             Upload(d) \/ RefuseUpload(d) \/ AcceptUpload(d) \/ ExpireVerdict(d)
      PROVE  ReviewOK'
  BY <1>1, <1>8 DEF Upload, RefuseUpload, AcceptUpload, ExpireVerdict, profileVars
<1>9. ASSUME NEW q \in Reports,
             \/ Report(q)
             \/ \E action \in {"dismiss", "warn"} : Resolve(q, action)
             \/ \E a \in Admins : BeginSuspension(a, q)
      PROVE  ReviewOK'
  BY <1>1, <1>9 DEF Report, Resolve, BeginSuspension, profileVars
<1>10. ASSUME NEW a \in Admins,
              SuspendReportedUser(a) \/ MarkReportResolved(a) \/ SuspensionFails(a)
       PROVE  ReviewOK'
  BY <1>1, <1>10 DEF SuspendReportedUser, MarkReportResolved, SuspensionFails, profileVars
<1>11. CASE OpenQueue \/ Crash \/ UNCHANGED vars
  BY <1>1, <1>11 DEF OpenQueue, Crash, vars, profileVars
<1> QED BY <1>2, <1>3, <1>4, <1>5, <1>6, <1>7, <1>8, <1>9, <1>10, <1>11 DEF Next

\* Nobody waits for a review that cannot come: a regulated craftsman who is
\* active and not verified for both documents is one the queue selects
\* (admin.service.ts:69-74, 145-149), whatever was resubmitted or approved from
\* a stale screen in between.
THEOREM QueueComplete == Spec => []NobodyStuck
<1>1. TInv /\ ReviewOK => NobodyStuck
  BY AccountConstants DEF TInv, TypeOK, ReviewOK, NobodyStuck, PendingVerifications
<1> QED BY InitTypes, NextTypes, InitReview, NextReview, <1>1, PTL DEF Spec

-----------------------------------------------------------------------------
(* The verdict.  scoreDocument computes a score that it stores and bands   *)
(* that it decides by; the comment at the bands                            *)
(* (id-document-check.ts:245-249) reads the one as the other.  For every   *)
(* document the two agree at both ends: whatever the bands refuse has no   *)
(* score, and whatever they let pass has at least the score of a strong    *)
(* label.                                                                  *)

\* The four parts of a score, and when each of them is nothing.
LEMMA Parts ==
  ASSUME NEW s \in Signals
  PROVE  \E m, h, l, f \in Nat :
           /\ Score(s) = m + 3 * h + l + f
           /\ m = 0 <=> ~s.mrz
           /\ m = 0 \/ m = 5
           /\ h = 0 <=> s.hits = 0
           /\ s.hits >= 2 => h >= 2
           /\ l = 0 <=> s.label = "none"
           /\ s.label = "strong" => l = 3
           /\ f = 0 <=> ~s.faceAndText
<1> DEFINE m == IF s.mrz THEN 5 ELSE 0
           h == Least(s.hits, 3)
           l == IF s.label = "strong" THEN 3 ELSE IF s.label = "weak" THEN 1 ELSE 0
           f == IF s.faceAndText THEN 2 ELSE 0
<1>1. s.hits \in Nat /\ s.label \in {"strong", "weak", "none"}
  BY DEF Signals
<1>2. m \in Nat /\ (m = 0 <=> ~s.mrz) /\ (m = 0 \/ m = 5)
  OBVIOUS
<1>3. h \in Nat /\ (h = 0 <=> s.hits = 0) /\ (s.hits >= 2 => h >= 2)
  BY <1>1 DEF Least
<1>4. l \in Nat /\ (l = 0 <=> s.label = "none") /\ (s.label = "strong" => l = 3)
  BY <1>1
<1>5. f \in Nat /\ (f = 0 <=> ~s.faceAndText)
  OBVIOUS
<1>6. Score(s) = m + 3 * h + l + f
  BY DEF Score
<1> HIDE DEF m, h, l, f
<1> QED BY <1>2, <1>3, <1>4, <1>5, <1>6

\* A document is refused exactly when nothing at all speaks for it
\* (scoreDocument's last band: "Reject only when NOTHING points at a document").
THEOREM RejectedHasNoScore ==
  \A s \in Signals : ScoreDocument(s) = "reject" <=> Score(s) = 0
<1> SUFFICES ASSUME NEW s \in Signals
             PROVE  ScoreDocument(s) = "reject" <=> Score(s) = 0
  OBVIOUS
<1> DEFINE nothing == ~s.mrz /\ s.hits = 0 /\ s.label = "none" /\ ~s.faceAndText
<1>1. ScoreDocument(s) = "reject" <=> nothing
  <2>1. s.hits = 0 => ~(s.hits >= KEYWORD_HITS_FOR_PASS)
    BY DEF KEYWORD_HITS_FOR_PASS
  <2>2. s.label = "none" => s.label # "strong"
    OBVIOUS
  <2> QED BY <2>1, <2>2 DEF ScoreDocument
<1>2. Score(s) = 0 <=> nothing
  <2>1. PICK m, h, l, f \in Nat :
           /\ Score(s) = m + 3 * h + l + f
           /\ m = 0 <=> ~s.mrz
           /\ m = 0 \/ m = 5
           /\ h = 0 <=> s.hits = 0
           /\ s.hits >= 2 => h >= 2
           /\ l = 0 <=> s.label = "none"
           /\ s.label = "strong" => l = 3
           /\ f = 0 <=> ~s.faceAndText
    BY Parts
  <2>2. m + 3 * h + l + f = 0 <=> m = 0 /\ h = 0 /\ l = 0 /\ f = 0
    OBVIOUS
  <2> QED BY <2>1, <2>2
<1> QED BY <1>1, <1>2

\* A document that passes by itself scores at least 3: a zone is worth 5, two
\* keywords 6, a strong label 3.  No unanswered check passes.
THEOREM PassedIsWorthAStrongLabel ==
  \A s \in Signals \cup {NoAnswer} :
     Verdict(s) = "pass" => s # NoAnswer /\ Score(s) >= 3
<1> SUFFICES ASSUME NEW s \in Signals \cup {NoAnswer}, Verdict(s) = "pass"
             PROVE  s # NoAnswer /\ Score(s) >= 3
  OBVIOUS
<1>1. s # NoAnswer /\ s \in Signals /\ ScoreDocument(s) = "pass"
  BY DEF Verdict
<1>2. s.mrz \/ s.hits >= KEYWORD_HITS_FOR_PASS \/ s.label = "strong"
  BY <1>1 DEF ScoreDocument
<1>3. PICK m, h, l, f \in Nat :
           /\ Score(s) = m + 3 * h + l + f
           /\ m = 0 <=> ~s.mrz
           /\ m = 0 \/ m = 5
           /\ h = 0 <=> s.hits = 0
           /\ s.hits >= 2 => h >= 2
           /\ l = 0 <=> s.label = "none"
           /\ s.label = "strong" => l = 3
           /\ f = 0 <=> ~s.faceAndText
  BY <1>1, Parts
<1>4. m = 5 \/ h >= 2 \/ l = 3
  BY <1>2, <1>3 DEF KEYWORD_HITS_FOR_PASS
<1>5. m + 3 * h + l + f >= 3
  BY <1>4
<1> QED BY <1>1, <1>3, <1>5
=============================================================================
