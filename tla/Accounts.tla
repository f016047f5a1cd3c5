------------------------------- MODULE Accounts -------------------------------
(***************************************************************************)
(* An account and its identity documents: uploads before registration,     *)
(* registration, the administrator's review queue, resubmission, reports   *)
(* and suspension, deletion.  State is spread over the disk (photos),      *)
(* Redis (the stashed verdicts) and Postgres (the profile), and the        *)
(* handlers change one after the other (backend/src/uploads, users,        *)
(* craftsmen, clients, admin and safety).                                  *)
(*                                                                         *)
(* A photo belongs to the user whose app uploads it.  Throttling and the   *)
(* reasons an image is not one are left out.                               *)
(***************************************************************************)
EXTENDS IdDocumentCheck, FiniteSets

CONSTANTS
  Users,
  Craftsmen,
  Regulated,     \* taxi and camion craftsmen: a license as well
  TestPhones,    \* users registering with an OTP_TEST_PHONES number
  Cards,         \* photos of an identity card
  Licenses,      \* photos of a driver's license
  OwnerOf,       \* the user each photo is of
  Answers,       \* bound: the answers Vision gives
  Taps,          \* bound: resubmissions of one user under way at once
  Reports,
  ReportedOf,    \* the user each report is about
  Admins,
  NoPhoto,
  MaxCrashes     \* bound on process restarts

Photos == Cards \cup Licenses

ASSUME AccountConstants ==
  /\ Regulated \subseteq Craftsmen
  /\ Craftsmen \subseteq Users
  /\ Cards \cap Licenses = {}
  /\ NoPhoto \notin Photos
  /\ OwnerOf \in [Photos -> Users]
  /\ ReportedOf \in [Reports -> Users]
  /\ Answers \subseteq Signals \cup {NoAnswer}
  /\ MaxCrashes \in Nat

VARIABLES
  photo,         \* photo[d]: "none", "analysed" (no key handed out), "ready", "gone"
  stash,         \* photos with a verdict in Redis
  account,       \* account[u]: "none", "live" or "deleted"
  card, license, \* id_card_storage_key, license_storage_key
  autoCheck,     \* the photo id_auto_check is about
  idVerified, licenseVerified, active,
  resubmission,  \* resubmission[u][t]: the handler's step, photo and verdict
  unlinking,     \* unlinking[u]: photos a deletion has yet to remove from disk
  queue,         \* accounts on the administrators' screens
  report,        \* report[q]: "none", "pending", or how it was resolved
  resolving,     \* resolving[a]: the report an administrator suspends for
  suspended,     \* reports their user was suspended for (history)
  disturbed,     \* reports several handlers acted on, or cut short (history)
  raced,         \* users deleted during a resubmission (history)
  crashes

profileVars == <<card, license, autoCheck, idVerified, licenseVerified, active>>
diskVars    == <<photo, stash>>
reportVars  == <<report, resolving, suspended, disturbed>>
vars == <<diskVars, account, profileVars, resubmission, unlinking, queue,
          reportVars, raced, crashes>>

Idle == [step |-> "idle", photo |-> NoPhoto, verdict |-> NoPhoto]

Init ==
  /\ photo           = [d \in Photos |-> "none"]
  /\ stash           = {}
  /\ account         = [u \in Users |-> "none"]
  /\ card            = [u \in Users |-> NoPhoto]
  /\ license         = [u \in Users |-> NoPhoto]
  /\ autoCheck       = [u \in Users |-> NoPhoto]
  /\ idVerified      = [u \in Users |-> FALSE]
  /\ licenseVerified = [u \in Users |-> FALSE]
  /\ active          = [u \in Users |-> FALSE]
  /\ resubmission    = [u \in Users |-> [t \in Taps |-> Idle]]
  /\ unlinking       = [u \in Users |-> {}]
  /\ queue           = {}
  /\ report          = [q \in Reports |-> "none"]
  /\ resolving       = [a \in Admins |-> [step |-> "idle", report |-> "none"]]
  /\ suspended       = {}
  /\ disturbed       = {}
  /\ raced           = {}
  /\ crashes         = 0

-----------------------------------------------------------------------------
(* Uploads, before and after registration. *)

\* The file is written, decoded and sent to Vision.
Upload(d) ==
  /\ photo[d] = "none"
  /\ photo' = [photo EXCEPT ![d] = "analysed"]
  /\ UNCHANGED <<stash, account, profileVars, resubmission, unlinking, queue,
                 reportVars, raced, crashes>>

\* Not an image, or nothing points at a document: the file is removed and no
\* key is handed out.
RefuseUpload(d) ==
  /\ photo[d] = "analysed"
  /\ \E s \in Answers : Verdict(s) = "reject"
  /\ photo' = [photo EXCEPT ![d] = "gone"]
  /\ UNCHANGED <<stash, account, profileVars, resubmission, unlinking, queue,
                 reportVars, raced, crashes>>

\* The verdict is stashed, unless Redis fails, and the key handed out.
AcceptUpload(d) ==
  /\ photo[d] = "analysed"
  /\ \E s \in Answers : Verdict(s) # "reject"
  /\ photo' = [photo EXCEPT ![d] = "ready"]
  /\ stash' \in {stash, stash \cup {d}}
  /\ UNCHANGED <<account, profileVars, resubmission, unlinking, queue,
                 reportVars, raced, crashes>>

\* The verdict expires two hours later.
ExpireVerdict(d) ==
  /\ d \in stash
  /\ stash' = stash \ {d}
  /\ UNCHANGED <<photo, account, profileVars, resubmission, unlinking, queue,
                 reportVars, raced, crashes>>

-----------------------------------------------------------------------------
(* Registration and resubmission. *)

Own(u, kind) == {d \in kind : OwnerOf[d] = u /\ photo[d] = "ready"}

\* The documents RegisterUserDto demands.
CardGiven(u, d) ==
  d # NoPhoto \/ u \notin Craftsmen \/ u \in TestPhones

\* Mutant: a license that may be left out.
LicenseOptional(u, l) == TRUE

LicenseGiven(u, l) == l # NoPhoto \/ u \notin Regulated \/ u \in TestPhones

\* Mutant: the license's verdict stored for the card's.
SwappedVerdict(d, l) == IF l \in stash THEN l ELSE NoPhoto

\* The verdict register stores in id_auto_check.
TakenVerdict(d, l) == IF d \in stash THEN d ELSE NoPhoto

\* register: the stashed verdicts are taken, the rows inserted together.  A
\* test number starts verified.  Only craftsmen have a license column.
Register(u, d, l) ==
  /\ account[u] = "none"
  /\ CardGiven(u, d) /\ LicenseGiven(u, l)
  /\ u \notin Craftsmen => l = NoPhoto
  /\ account'         = [account EXCEPT ![u] = "live"]
  /\ card'            = [card EXCEPT ![u] = d]
  /\ license'         = [license EXCEPT ![u] = l]
  /\ autoCheck'       = [autoCheck EXCEPT ![u] = TakenVerdict(d, l)]
  /\ idVerified'      = [idVerified EXCEPT ![u] = u \in TestPhones]
  /\ licenseVerified' = [licenseVerified EXCEPT ![u] = u \in TestPhones]
  /\ active'          = [active EXCEPT ![u] = TRUE]
  /\ stash'           = stash \ {d, l}
  /\ UNCHANGED <<photo, resubmission, unlinking, queue, reportVars, raced, crashes>>

Step(u, t, step, d, verdict) ==
  resubmission' = [resubmission EXCEPT ![u][t] =
                     [step |-> step, photo |-> d, verdict |-> verdict]]

\* resubmitIdCard finds the account, and reads the verdict of the new card.
Resubmit(u, t, d) ==
  /\ account[u] = "live"
  /\ resubmission[u][t].step = "idle"
  /\ IF d \in stash THEN Step(u, t, "read", d, d) ELSE Step(u, t, "taken", d, NoPhoto)
  /\ UNCHANGED <<diskVars, account, profileVars, unlinking, queue, reportVars,
                 raced, crashes>>

\* The verdict is deleted: it is consumed once.
TakeVerdict(u, t) ==
  LET r == resubmission[u][t] IN
  /\ r.step = "read"
  /\ stash' = stash \ {r.photo}
  /\ Step(u, t, "taken", r.photo, r.verdict)
  /\ UNCHANGED <<photo, account, profileVars, unlinking, queue, reportVars, raced, crashes>>

\* Mutant: the card is attached, the verdict of the former one stays.
AttachCardOnly(u, t) ==
  LET r == resubmission[u][t] IN
  /\ r.step = "taken"
  /\ card'   = [card EXCEPT ![u] = r.photo]
  /\ active' = [active EXCEPT ![u] = TRUE]
  /\ resubmission' = [resubmission EXCEPT ![u][t] = Idle]
  /\ UNCHANGED <<diskVars, account, license, autoCheck, idVerified, licenseVerified,
                 unlinking, queue, reportVars, raced, crashes>>

\* The UPDATE: the card, its verdict, and the account active again, whatever
\* it was deactivated for and whether or not it is verified.
AttachCard(u, t) ==
  LET r == resubmission[u][t] IN
  /\ r.step = "taken"
  /\ card'      = [card EXCEPT ![u] = r.photo]
  /\ autoCheck' = [autoCheck EXCEPT ![u] = r.verdict]
  /\ active'    = [active EXCEPT ![u] = TRUE]
  /\ resubmission' = [resubmission EXCEPT ![u][t] = Idle]
  /\ UNCHANGED <<diskVars, account, license, idVerified, licenseVerified,
                 unlinking, queue, reportVars, raced, crashes>>

-----------------------------------------------------------------------------
(* The administrator's review. *)

\* getPendingVerifications: an unverified card, or a regulated craftsman with
\* an unverified license, on an active profile.
PendingVerifications ==
  {u \in Users :
     /\ account[u] # "none" /\ active[u] /\ card[u] # NoPhoto
     /\ \/ ~idVerified[u]
        \/ u \in Regulated /\ ~licenseVerified[u] /\ license[u] # NoPhoto}

OpenQueue ==
  /\ queue' = PendingVerifications
  /\ UNCHANGED <<diskVars, account, profileVars, resubmission, unlinking,
                 reportVars, raced, crashes>>

\* verifyCraftsman, verifyClient: both documents at once, whatever has changed
\* since the screen was loaded.
Approve(u) ==
  /\ u \in queue
  /\ idVerified' = [idVerified EXCEPT ![u] = TRUE]
  /\ licenseVerified' = [licenseVerified EXCEPT ![u] = @ \/ license[u] # NoPhoto]
  /\ UNCHANGED <<diskVars, account, card, license, autoCheck, active, resubmission,
                 unlinking, queue, reportVars, raced, crashes>>

\* deactivateCraftsman, deactivateClient: the rejection.
Reject(u) ==
  /\ u \in queue
  /\ active' = [active EXCEPT ![u] = FALSE]
  /\ UNCHANGED <<diskVars, account, card, license, autoCheck, idVerified,
                 licenseVerified, resubmission, unlinking, queue, reportVars,
                 raced, crashes>>

-----------------------------------------------------------------------------
(* Reports. *)

\* reportUser.
Report(q) ==
  /\ report[q] = "none"
  /\ account[ReportedOf[q]] # "none"
  /\ report' = [report EXCEPT ![q] = "pending"]
  /\ UNCHANGED <<diskVars, account, profileVars, resubmission, unlinking, queue,
                 resolving, suspended, disturbed, raced, crashes>>

SuspendingFor(q) == \E a \in Admins : resolving[a].report = q

\* resolveReport without a suspension: markReportResolved alone.
Resolve(q, action) ==
  /\ report[q] = "pending"
  /\ action \in {"dismiss", "warn"}
  /\ report'    = [report EXCEPT ![q] = action]
  /\ disturbed' = IF SuspendingFor(q) THEN disturbed \cup {q} ELSE disturbed
  /\ UNCHANGED <<diskVars, account, profileVars, resubmission, unlinking, queue,
                 resolving, suspended, raced, crashes>>

\* resolveReport with deactivate_reported, from a screen that may be stale:
\* the report is looked up whatever its status.
BeginSuspension(a, q) ==
  /\ resolving[a].step = "idle"
  /\ report[q] # "none"
  /\ resolving' = [resolving EXCEPT ![a] = [step |-> "suspend", report |-> q]]
  /\ disturbed' = IF SuspendingFor(q) \/ report[q] # "pending"
                  THEN disturbed \cup {q} ELSE disturbed
  /\ UNCHANGED <<diskVars, account, profileVars, resubmission, unlinking, queue,
                 report, suspended, raced, crashes>>

Done == [step |-> "idle", report |-> "none"]

\* Mutant: the report marked, its user never suspended.
MarkOnly(a) ==
  LET q == resolving[a].report IN
  /\ resolving[a].step = "suspend"
  /\ report' = [report EXCEPT ![q] = IF @ = "pending" THEN "deactivate" ELSE @]
  /\ resolving' = [resolving EXCEPT ![a].step = "mark"]
  /\ UNCHANGED <<diskVars, account, profileVars, resubmission, unlinking, queue,
                 suspended, disturbed, raced, crashes>>

\* suspendReportedUser: the profile, then presence for a craftsman.
SuspendReportedUser(a) ==
  LET q == resolving[a].report IN
  /\ resolving[a].step = "suspend"
  /\ active'    = [active EXCEPT ![ReportedOf[q]] = FALSE]
  /\ suspended' = suspended \cup {q}
  /\ resolving' = [resolving EXCEPT ![a].step = "mark"]
  /\ UNCHANGED <<diskVars, account, card, license, autoCheck, idVerified,
                 licenseVerified, resubmission, unlinking, queue, report,
                 disturbed, raced, crashes>>

\* markReportResolved: only a pending report.
MarkReportResolved(a) ==
  LET q == resolving[a].report IN
  /\ resolving[a].step = "mark"
  /\ report'    = [report EXCEPT ![q] = IF @ = "pending" THEN "deactivate" ELSE @]
  /\ resolving' = [resolving EXCEPT ![a] = Done]
  /\ UNCHANGED <<diskVars, account, profileVars, resubmission, unlinking, queue,
                 suspended, disturbed, raced, crashes>>

\* Redis fails under setOffline: the handler ends before the report is marked.
SuspensionFails(a) ==
  LET q == resolving[a].report IN
  /\ resolving[a].step = "mark"
  /\ ReportedOf[q] \in Craftsmen
  /\ resolving' = [resolving EXCEPT ![a] = Done]
  /\ disturbed' = disturbed \cup {q}
  /\ UNCHANGED <<diskVars, account, profileVars, resubmission, unlinking, queue,
                 report, suspended, raced, crashes>>

-----------------------------------------------------------------------------
(* Deletion. *)

\* deleteAccount's transaction: the keys are read and cleared together.
DeleteAccount(u) ==
  /\ account[u] = "live"
  /\ account'   = [account EXCEPT ![u] = "deleted"]
  /\ unlinking' = [unlinking EXCEPT ![u] = {card[u], license[u]} \ {NoPhoto}]
  /\ card'      = [card EXCEPT ![u] = NoPhoto]
  /\ license'   = [license EXCEPT ![u] = NoPhoto]
  /\ active'    = [active EXCEPT ![u] = FALSE]
  /\ raced'     = IF \E t \in Taps : resubmission[u][t] # Idle
                  THEN raced \cup {u} ELSE raced
  /\ UNCHANGED <<diskVars, autoCheck, idVerified, licenseVerified, resubmission,
                 queue, reportVars, crashes>>

\* Then the files, best effort.
UnlinkPhotos(u) ==
  /\ unlinking[u] # {}
  /\ photo'     = [d \in Photos |-> IF d \in unlinking[u] THEN "gone" ELSE photo[d]]
  /\ unlinking' = [unlinking EXCEPT ![u] = {}]
  /\ UNCHANGED <<stash, account, profileVars, resubmission, queue, reportVars,
                 raced, crashes>>

\* The process stops: handlers are cut short; disk, Redis and tables stay.
Crash ==
  /\ crashes < MaxCrashes
  /\ crashes'      = crashes + 1
  /\ resubmission' = [u \in Users |-> [t \in Taps |-> Idle]]
  /\ unlinking'    = [u \in Users |-> {}]
  /\ disturbed'    = disturbed \cup {q \in Reports : SuspendingFor(q)}
  /\ resolving'    = [a \in Admins |-> Done]
  /\ UNCHANGED <<diskVars, account, profileVars, queue, report, suspended, raced>>

Next ==
  \/ \E d \in Photos :
       Upload(d) \/ RefuseUpload(d) \/ AcceptUpload(d) \/ ExpireVerdict(d)
  \/ \E u \in Users :
       \/ \E d \in Own(u, Cards) \cup {NoPhoto}, l \in Own(u, Licenses) \cup {NoPhoto} :
            Register(u, d, l)
       \/ \E t \in Taps :
            \/ \E d \in Own(u, Cards) : Resubmit(u, t, d)
            \/ TakeVerdict(u, t)
            \/ AttachCard(u, t)
       \/ Approve(u) \/ Reject(u) \/ DeleteAccount(u) \/ UnlinkPhotos(u)
  \/ OpenQueue
  \/ \E q \in Reports :
       \/ Report(q)
       \/ \E action \in {"dismiss", "warn"} : Resolve(q, action)
       \/ \E a \in Admins : BeginSuspension(a, q)
  \/ \E a \in Admins :
       SuspendReportedUser(a) \/ MarkReportResolved(a) \/ SuspensionFails(a)
  \/ Crash

Spec == Init /\ [][Next]_vars

-----------------------------------------------------------------------------
\* getIdCard, getLicense: the photo of the account's own key, if it is on disk.
GetIdCard(u)  == {d \in Cards : card[u] = d /\ photo[d] = "ready"}
GetLicense(u) == {d \in Licenses : license[u] = d /\ photo[d] = "ready"}

PhotoOrNone == Photos \cup {NoPhoto}

TypeOK ==
  /\ photo           \in [Photos -> {"none", "analysed", "ready", "gone"}]
  /\ stash           \subseteq Photos
  /\ account         \in [Users -> {"none", "live", "deleted"}]
  /\ card            \in [Users -> Cards \cup {NoPhoto}]
  /\ license         \in [Users -> Licenses \cup {NoPhoto}]
  /\ autoCheck       \in [Users -> Cards \cup {NoPhoto}]
  /\ idVerified      \in [Users -> BOOLEAN]
  /\ licenseVerified \in [Users -> BOOLEAN]
  /\ active          \in [Users -> BOOLEAN]
  /\ resubmission    \in [Users -> [Taps -> [step : {"idle", "read", "taken"},
                                             photo : PhotoOrNone, verdict : PhotoOrNone]]]
  /\ unlinking       \in [Users -> SUBSET Photos]
  /\ queue           \subseteq Users
  /\ report          \in [Reports -> {"none", "pending", "dismiss", "warn", "deactivate"}]
  /\ resolving       \in [Admins -> [step : {"idle", "suspend", "mark"},
                                     report : Reports \cup {"none"}]]
  /\ suspended       \subseteq Reports
  /\ disturbed       \subseteq Reports
  /\ raced           \subseteq Users
  /\ crashes         \in 0 .. MaxCrashes

(***************************************************************************)
(* Disk, Redis and profile tell one story.  The documents of a live        *)
(* account can be looked at, and the verdict next to the card is that      *)
(* card's, whatever taps overlapped; a deleted account names no document   *)
(* and is not active, unless a resubmission was under way                  *)
(* (users.service.ts:214-282, id-doc-analysis.store.ts:43-59).             *)
(***************************************************************************)
DocumentsFollowAccount ==
  \A u \in Users :
    /\ account[u] = "live" =>
         /\ card[u] # NoPhoto => GetIdCard(u) = {card[u]}
         /\ license[u] # NoPhoto => GetLicense(u) = {license[u]}
         /\ autoCheck[u] \in {card[u], NoPhoto}
    /\ account[u] = "deleted" /\ u \notin raced =>
         card[u] = NoPhoto /\ license[u] = NoPhoto /\ ~active[u]

(***************************************************************************)
(* An active craftsman who still may not go online for want of a verified  *)
(* document is in the review queue: what registration demands, what an     *)
(* approval sets, what a resubmission resets and what the queue selects    *)
(* leave nobody waiting for a review that cannot come                      *)
(* (admin.service.ts:69-74, 145-149; presence.service.ts:69-82).           *)
(***************************************************************************)
NobodyStuck ==
  \A u \in Regulated :
    /\ account[u] = "live" /\ active[u]
    /\ ~(idVerified[u] /\ licenseVerified[u])
    => u \in PendingVerifications

(***************************************************************************)
(* A report resolved with a suspension has its user suspended first, and a *)
(* suspension is on record: only two administrators on one report, or a    *)
(* handler cut short, leave a user suspended for a report that says        *)
(* otherwise (admin.service.ts:301-312).                                   *)
(***************************************************************************)
ReportsMatchSuspensions ==
  \A q \in Reports :
    /\ report[q] = "deactivate" => q \in suspended
    /\ q \in suspended \ disturbed => report[q] = "deactivate" \/ SuspendingFor(q)

(***************************************************************************)
(* An account that was deactivated comes back only to be looked at again:  *)
(* resubmission puts it in the review queue, since "idVerified stays false *)
(* either way" (craftsmen.service.ts:173-178).                             *)
(***************************************************************************)
SuspensionNeedsReview ==
  [][\A u \in Users :
       account[u] = "live" /\ ~active[u] /\ active'[u] => u \in PendingVerifications']_vars
=============================================================================
