# FixCI: a verification development of the backend

FixCI matches clients who need a craftsman *now* with craftsmen nearby
(`src/backend`, NestJS + TypeORM + Redis + socket.io; `src/mobile`, a Flutter
app). This directory holds TLA+ modules translated from that code, the TLC runs
that check them on small instances, and TLAPS proofs of the properties that
matter most for instances of any size. `PROJECT.json` says which lines of the
source each definition stands for.

## 1. The system

One backend process (`deploy/fixci-backend.service`, one systemd unit, no
cluster adapter for socket.io), one PostgreSQL database, one Redis, and the apps
connected to the process by HTTP and one websocket each. The process is
single-threaded: between two `await`s a handler runs alone; at an `await`
anything else may run. That is where the difficulty of this code lies.

| component (source under `src/backend/src`) | state it keeps | operations | interacts through | what makes it correct |
|---|---|---|---|---|
| service request table (`matching/matching.service.ts`) | rows: status, craftsman_id | INSERT under a partial unique index; compare-and-swap UPDATEs; three multi-row UPDATEs | SQL | one open request per client; an assigned row keeps its craftsman; a closed row stays closed |
| matching gateway (`matching/matching.gateway.ts`) | `activeSearches`, `pendingAccepts`, `cancelledRequestIds`, `activeAssignments`; one suspended `runMatchingLoop` per request | dispatch steps, accept window, abort, late-joiner offers, position relay, bootstrap sweep | sockets, timers, table, Redis | no pending row without a loop; every search ends; every offer is withdrawn; the accept that won is honoured; a position goes to the craftsman's own client |
| matching controller (`matching/matching.controller.ts`) | - | create, start, complete, confirm, cancel (both sides), rate, fallback contacts | table, gateway | in-memory half and table half of an operation agree |
| administrator's reset (`directory/admin-directory.controller.ts`) | - | cancel all active requests of a user | table, gateway | the counterparty is told |
| ratings (`matching.service.ts` submitRating) | ratings, craftsman aggregate | rate | SQL | aggregate agrees with the rows |
| fallback contacts (`matching/fallback-contacts.service.ts`) | recorded contacts | list, record | table, push | contact only after an expired search; the craftsman hears once |
| presence (`matching/presence.service.ts`, gateway handlers, `craftsmen/craftsmen.service.ts`, `admin/admin.service.ts`) | Redis: category and online-since keys without a TTL, one geo index per category; `is_active`, `is_available` | online, location ping, offline, disconnect, availability, deactivate, verify | Redis, sockets, SQL | who is found is online, active and, where the trade asks for it, approved |
| mission board (`missions/`, `admin/admin.service.ts`) | missions, applications, unseen counters | create, edit, withdraw, moderate, apply, select, complete, the pages | SQL, push | one performer per mission; moderated before seen; every selection settles; the pages agree |
| accounts and documents (`users/`, `uploads/`, `craftsmen/`, `clients/`) | files on disk, verdicts in Redis, keys and flags of the profile | upload, register, resubmit, delete | disk, Redis, SQL, Google Vision | what a profile names is there and is its owner's; nobody waits for a review that cannot come |
| review and reports (`admin/`, `safety/`) | verified and active flags, user_reports, user_blocks | approve, reject, report, resolve, suspend, block | SQL, presence | a resolved report says what was done; a blocked pair is not matched |
| payments (`payments/`) | payments, the profile's plan | subscribe, charge, webhook, status | SQL, timers, HTTP to itself | a payment changes the plan once; the newest payment wins |
| phone verification (`auth/otp-*`, `auth/twilio-verify.service.ts`) | six Redis keys per number | send, check | Redis, Twilio | limits hold under concurrent attempts |
| tokens and guards (`auth/`) | nothing but keys and open sockets; users.phone_verified, deleted_at | issue, refresh; AuthGuard, the socket's handshake and the routes behind AccessTokenGuard alone judge each their own way | every request | a session from before the proof of the number stops with it |
| back-office pages (`ops/ops.service.ts`) | - | presence, statistics, histories | SQL, Redis | tell the same story as the users' own pages |
| mobile app (`src/mobile/lib`) | controllers' state machines | screens | HTTP, socket | late answers do not undo newer state |
| push, schema, installation, analytics, broadcasts | - | - | - | external, static or single-statement: see `PROJECT.json` |

Hard to test, in short (`PROJECT.json` lists each one at its line): continuations
after an `await` that use what they read before it; the accept, the closing
timer and a cancellation racing for the same promise and the same row; in-memory
state that a crash loses while rows survive; multi-row statements in the middle
of a search; one operation made of a committed half and an in-memory half; Redis
commands of several handlers between each other; an account's documents spread
over disk, Redis and Postgres; two statements where one would have been needed.

## 2. Modules

| module | models |
|---|---|
| `RequestLifecycle` | abstract: the promise to a client - searching, engaged with one craftsman, closed; one open request per client; every search ends |
| `ServiceRequests` | the request table, one action per SQL statement; implements `RequestLifecycle` |
| `MatchingLoop` | gateway and controllers over the table (INSTANCE), await by await; implements `ServiceRequests` |
| `Aftermath` | extends `ServiceRequests` with what surrounds a row: deletion of accounts, ratings, direct contacts, and the clients', craftsmen's and administrators' pages |
| `MissionLifecycle` | abstract: hidden until approved, given once to somebody else than the poster, closed for good |
| `Missions` | the mission board with its pages and its badge counter; implements `MissionLifecycle` |
| `Presence` | the Redis commands of the presence handlers on one connection, over one index per category |
| `PurchaseLifecycle` | abstract: a charge is bought, settled or refused, and spent once on its plan |
| `Payments` | subscriptions, stub providers, webhook; implements `PurchaseLifecycle` |
| `IdDocumentCheck` | scoreDocument and analyzeIdDocument, pure operators over the signals of Vision's answer |
| `Accounts` | extends `IdDocumentCheck`: uploads, registration, resubmission, review, reports, deletion |
| `OtpThrottle` | the ladder of limits on one number, Redis command by Redis command |
| `Sessions` | the accounts a number gets over time, the token pairs that act for them and the sockets they open |
| `MC*` | instances for TLC; `*_proofs` the theorems (section 6) |

How they compose: `MatchingLoop` and `Aftermath` share the table through
`ServiceRequests`; `Presence` decides who the loop may find (the loop takes any
set of craftsmen, so nothing it promises rests on presence); `OtpThrottle` decides
which codes are looked at and `Sessions` what an approved one opens; `Accounts`
decides `active` and the verified flags that `Presence` reads (it takes any
change of them).

Mutants are operators whose comment begins with "Mutant": plausible slips in the
definition that follows. No action uses them; replacing the definition by its
mutant makes the property named with it in `PROJECT.json` fail.

### `ServiceRequests`

A row is its status and `craftsman_id`; the request id fixes the client. Each
statement of `MatchingService` is one action: its WHERE clause is the guard, its
SET clause the effect, and a statement that matches no row is the stuttering
step. `CreateServiceRequest` has the unique index
`service_requests_one_active_per_client` as its guard. Position, category,
radius and times are left out: no WHERE clause of these statements decides on
them except to narrow the candidates.

### `MatchingLoop`

An action is one continuation, from the settling of an `await` to the next one.

| model | code |
|---|---|
| `pc[r]` | the `await` that `runMatchingLoop` of r is suspended at: `blocks` (getBlockedUserIds asked), `answered` (its rows read, the answer on its way), `live` and `sleeping` (the two queries of dispatchStep), `wait` (settlesWithin), `settle` (the accept promise), `assign` (tryAssign), `announce` (getCraftsmanSummary), `expire` (expireRequest); `created` before the loop starts, `done` after it, `lost` when the process died under it |
| `Searching(r)` | r has an entry in `activeSearches` |
| `window`, `acceptedBy` | the promise and resolver in `pendingAccepts` and what it settled with |
| `offeredTo`, `blockedIds`, `others` | the search's set, the ids read once, the copy made before tryAssign |
| `cancelledRequestIds`, `activeAssignments` | the maps of the same name |
| `joining[k]` | the `for` loop of handleCraftsmanOnline, suspended at the block check of one row; `verdict` is what the check read, `asked` until then |
| `standing[r]` | history: the craftsmen blocked since before r was created and ever since |
| `replies` | HTTP handlers whose UPDATE has committed and whose next line has not run |
| `cards`, `cancelNotice` | what the sockets told the apps: the offers they show, the cancellations they were told |
| `up`, `crashes` | the process |

- A statement takes effect when its continuation runs, except where another
  party acts on the row in between; those handlers (complete, both
  cancellations, reset) are a commit action and a `RunReply`.
- `updateSearchRadius` and the Redis query that follows it are one await
  (`live`): nothing reads the radius, so no property can tell them apart.
- The exclusion list of the sleeping query is copied before its await. In the
  model the candidates are taken from those not yet offered when it answers; a
  second offer of the same request to the same craftsman would replace the card
  they already have.
- Both readings of `user_blocks` are two steps, the query and what is done with
  its answer: a block or its end may fall in between. A search keeps its answer
  to the end, a joiner for one row.
- `handleAccept` settles an open window whoever sends it: the code does not look
  whether the craftsman was offered the request.
- A committed statement is taken as answered unless the process dies.
- One `craftsman:online` handler at a time per craftsman.
- The clock is the order of timers: step offsets are below the 75 s window
  (`CloseWindow` is disabled while the loop waits for an offset), the abort flag
  (85 s) outlives the window (`FlagExpires`). A slow database may make the loop
  skip a wait (`FinishStep`).
- `Offer` takes any set of craftsmen neither offered nor blocked: the model
  covers every position of every craftsman.

### `Aftermath`

| model | code |
|---|---|
| `creating` | POST /matching/requests past AuthGuard, before the INSERT |
| `counted`, `deleted` | deleteAccount's transaction after its `count(*)`, and after its commit |
| `overtaken` | history: users given a request since their deletion counted |
| `rating`, `rated` | ratings inserted, ratings committed |
| `profileQueue[k]`, `ratingsCount` | the aggregate UPDATEs of k's profile with the count each one's snapshot saw, in the order of the row lock; the column |
| `overlapped` | history: craftsmen whose last UPDATE began while another was under way |
| `tooOld`, `contacts`, `tap`, `headsUp`, `crossed` | FALLBACK_LIST_TTL_MS is over; rows of service_request_contacts; a recordContact handler; pushes; history: overlapping taps |

- Postgres is READ COMMITTED: a statement sees what was committed when it began
  and waits for a locked row. The UPDATE of the aggregate computes its subselect
  from its own snapshot, taken before the wait.
- AuthGuard is the only place that looks at `deleted_at`; a handler past it, or
  the socket of a deleted craftsman, is not stopped. `DeletedHasNoJob` states
  what holds besides.
- recordContact's INSERT and its push are one action: a crash in between would
  lose the push of a recorded contact and is left out.

### `Missions`

A handler that is one statement is one action, with the WHERE clause as guard
(`SetStatus`); a statement that matches no row stutters. `applyToMission` is
three actions because it is three queries outside a transaction;
`selectApplicant` is `SelectApplicant` (a connection and the wait for the row
lock), `LockMission`, `CheckSelection` (the block check) and `CommitSelection`.

| model | code |
|---|---|
| `status`, `selected` | `missions.status`, the applicant behind `selected_application_id` |
| `application` | `mission_applications`, one row per mission and applicant (unique index) |
| `applyPc`, `selectPc` | the query each handler waits for; `block` and `write` of `selectPc` mean that it holds the mission's row lock |
| `replies` | handlers whose change is committed and whose `notifyUser` has not run |
| `bumps`, `unseen` | increments issued, `users.missions_unseen_count`, for the users in `Watched` |
| `Transactions`, `ConnectionFree` | the pool: a transaction keeps its connection until it ends, any other statement needs one for a moment |
| `BrowseMissions`, `ShownPoster`, `GetApplicants`, `GetMyMissions`, `PhotoVisible`, `MissionHistory` | the WHERE clauses and visibility rules of the pages, as sets over the state |

- While the row is locked every UPDATE of the mission waits (`RowFree`), and so
  does the INSERT of an application, whose foreign key takes a share lock that
  conflicts with FOR UPDATE. The mission's checks and the query of the
  application that follows are one action (`LockMission`): under the lock nothing
  changes the application in between.
- The three UPDATEs of a selection and its commit are one action: nobody else
  sees the rows before the commit, and a crash before it rolls all three back.
- A statement that waits for a row lock also keeps a connection. The model leaves
  that out; it would only exhaust the pool sooner.
- Nothing in the code writes `withdrawn` or `draft`, and accounts are never
  deleted as rows; the model has neither.
- The applicants' and the poster's pushes are issued with their increment; the
  moderators' two (`admin.service.ts`) without one (`Counted`; see Known
  departures).

### `Presence`

The process has one Redis connection. A command takes effect when it is sent,
relative to the others, and replies come in the order of the commands: `pipeline`
is the queue of handlers waiting for theirs. A database await resumes in any
order. A handler is a pair of a craftsman and the entry point it came by (`Ops`),
`pc` the await it is suspended at.

- `geo` pairs a craftsman with a category (`presence:geo:<category>`), `key` is
  the category in `presence:category:<craftsman>`, `held` what a handler's GET
  returned and its next command uses. `AskedCategories`: the PATCH goes online
  under the profile's category, the socket event under whichever its body names;
  `MayGoOnline` looks at the profile's in both.
- `leftBehind` is history: entries of a category the craftsman went online away
  from. setOffline and the pings know the key's category only, so nothing but a
  return to that category brings an entry back into reach.
- `GEOADD` and the two `SET`s of setOnline are sent together and are one action;
  so are the two `DEL`s of setOffline. The client set and `online-since` follow
  the category key.
- `Deactivate` stands for the four ways an account is deactivated (rejected,
  suspended, deleted, deleted by an administrator): profile first, then setOffline.
- `raced` is history: craftsmen put into the index while a removal of theirs was
  under way, past the profile check when they were deactivated, or whose removal
  a crash cut off. The properties say what holds of everybody else and of every
  entry not left behind; the first conjuncts of `IndexMatchesKey` (but for the
  crash) and of `OnlyEligibleAreFound` hold of all of them.

### `Payments`

`subscribe` is `Subscribe` (the saved row) and `RequestCharge`; the stubs' timer is
`SimulateApproval`, their HTTP call an element of `webhooks`, which may be lost or
refused by the guard; the webhook is `ResolvePayment` (the compare-and-swap) and
`UpdateProfile`. `CallByHand` is a provider that calls again, or with the other
verdict. A call has the route it comes by (`via`): the guard looks up that route's
secret, and nothing ties the route to the payment the body names. `activations`,
`paid`, `overlapped`, `dropped`, `interrupted` are history. Wave's and Whish's real
contracts are not in the code; the stubs are what is modelled. A plan's thirty days
are left out: an expired plan is only read.

### `IdDocumentCheck` and `Accounts`

scoreDocument's signals are kept (machine-readable zone, keyword hits, best
label, face next to text); how text becomes a hit is not. `Accounts` takes the
verdict of every upload from `Verdict` over the answers in `Answers`.

| model | code |
|---|---|
| `photo[d]` | a file of the uploads directories: written and being analysed, handed out, removed |
| `stash` | `id-doc-analysis` keys in Redis |
| `card`, `license`, `autoCheck`, `idVerified`, `licenseVerified`, `active` | columns of the craftsman's or client's profile; `autoCheck` is the photo its verdict is about |
| `resubmission[u][t]` | resubmitIdCard of tap t: before the DEL of the verdict (`read`), before the UPDATE (`taken`) |
| `unlinking[u]` | deleteAccount between its commit and the removal of the files |
| `queue` | the accounts an administrator's screen lists: possibly stale |
| `resolving[a]` | resolveReport of administrator a: before the suspension, before the mark |
| `suspended`, `disturbed`, `raced` | history: suspensions made; reports two handlers acted on or one that was cut short; users deleted during a resubmission |

- A photo belongs to the user whose app uploads it. Removing a taken photo from
  the disk is best effort and is one action.
- An approval sets both verified flags, the license's only where there is one.

### `OtpThrottle` and `Sessions`

`OtpThrottle` has the six keys of one number: three flags and three counters, and
which counters have an expiry. A handler is at one Redis command; any key that
can expire may do so at any time (`Expire`). `wrong` counts refused codes since
the last lull and `MostWrong` is what the code allows: the limit, one for each
other request already past the check, one for each whose DEL of an earlier pause
comes late, and those a crash kept from being counted. Counters are capped one
step past where the code stops telling values apart (`Cap`).

`Sessions` has one phone number, the accounts it gets one after the other, and
token pairs stamped with the `phone_verified` their issuer read. `Owners` are the
devices that receive the number's messages: only they get a code approved.
`Accepted` is AuthGuard and refresh. `Handshake` is the socket's middleware, which
does not look at the stamp; a socket is not judged again while it is open
(`sockets`). `LookedUpBy` is GET /users/lookup, which asks by the number in the
token. Tokens do not expire in the model: in the code an access token lives 15
minutes, so a counterexample in which one is used after the proof has that much
time, and an open socket as long as its connection.

## 3. Runs

| run | instance | asks |
|---|---|---|
| `aftermath` | 2 requests of one client, 1 craftsman, 2 channels, 2 contact taps | the table's invariants and lifecycle with deletion, ratings and contacts interleaved; the pages tell one story |
| `search` | 1 request, 2 craftsmen of whom one may join late, blocks, a reset, 1 crash, 2 dispatch steps | no stranded request; a block that stands from before the request is respected; the gateway moves the table only by its statements; every search ends; who settles the window gets the job unless it is cancelled |
| `offers` | 2 clients with a request each (one a taxi with its 5 steps), 2 craftsmen, no late joiners, no reset | every card withdrawn, every cancellation announced, positions only to the craftsman's own client |
| `board` | 1 mission, a poster, 2 applicants, blocks, 3 connections, one badge followed, 1 crash | the board's invariants and pages, its refinement of `MissionLifecycle`, and that every selection settles |
| `payments` | 5 purchases: two of one craftsman in Ivory Coast, one in Lebanon whose secret is not set, a craftsman of a country without a channel, a client; 1 call by hand, 1 crash | what is paid is enjoyed, once, the newest last; purchases resolve; refinement of `PurchaseLifecycle` |
| `presence` | 1 taxi driver, 2 categories of which one is regulated, 7 entry points, 3 handlers at once, 1 crash | index and key agree; nobody of a regulated trade is found unapproved; a deactivation takes hold; all of it but for entries left behind |
| `accounts` | a taxi driver with 2 cards and 1 license, a user of a test number, 2 overlapping resubmissions, 1 report, 2 administrators, 1 crash | documents follow the account; nobody is stuck before the review; reports match suspensions |
| `throttle` | 2 requests at a time, 1 crash | counters expire; no limit is passed but by requests already past it |
| `sessions` | 1 number, its owner's device and another, 2 accounts, any number of crashes | where AuthGuard and refresh judge, a proven number has no session of another device; a socket of another device was opened with a pair from before the proof |
| `admin_reset`, `pool`, `suspension_lifted` | smallest instance | the findings of section 4 |

Bounds, and why they are enough. Searches share only the maps keyed by request, the
craftsman-keyed relay and the table's one-per-client rule: `offers` has two of each,
`search` adds everything that can happen to one. Two craftsmen are an accepter and a
loser. One crash suffices wherever crashes are counted: a restart leaves no memory,
so a second crash starts from a state the first one produces (the history variables
only grow). Missions share nothing but users, blocks and the pool: one mission with
two applicants (a winner and a loser) meets every race over a row; the pool of 3
leaves one connection over when both are being selected, the pool of 2 leaves none.
Presence is per craftsman but for the pipeline, whose order is what matters: three
handlers of one craftsman are a go-online, a removal and a third that comes between
them; two categories are the one gone to and the one left behind; the theorems take
any number of each. Two ratings, two taps and two administrators are what an overlap
takes. Five purchases are the four kinds of buyer and a second purchase of one of
them. `OtpThrottle` has its limits as in the code (3, 2, 2), its counters one step
past them.

Symmetry is declared over craftsmen, taps, channels, cards, administrators,
devices' accounts and requests that are alike, and only in runs without liveness
properties. `CHECK_DEADLOCK FALSE` stands where the system rests once everything
is closed; `throttle` and `sessions` always have a next request.

Fairness.

- `MatchingLoop`: weak fairness of every continuation of a loop, of the closing
  timer, of the late-joiner handler and of replies: node runs the continuations
  of settled promises, timers fire, and a query is answered or its error takes
  the process down (`runMatchingLoop` is called with `void` and nothing catches
  the rejection). Weak fairness of `Restart`: the unit has `Restart=on-failure`,
  `RestartSec=5`. Nothing is assumed of people: no fairness on accepts,
  cancellations, job steps, blocks or resets.
- `Missions`: strong fairness of the steps of a selection: row locks and pooled
  connections are granted in the order they are asked for, so a selection for
  which one is free again and again gets it.
- `Payments`: weak fairness of a ready continuation, an armed timer and the call
  of an own webhook per payment. Losses, calls by hand and crashes owe nothing;
  `SubscriptionResolves` excepts exactly the payments whose own call was lost.
- `Presence`: weak fairness of a handler that has started (`Continue`). Redis and
  Postgres answer; nobody has to do anything new.

## 4. Findings

- `admin_reset`: the `[rows, count]` pair of an UPDATE is mapped as rows, so the
  reset cancels rows and tells nobody (`matching.service.ts:411-420`).
- `pool`: the block check inside the selection transaction needs a second
  connection while the transaction keeps one (`missions.service.ts:610`). As many
  selections at once as the pool has connections (10 by default, 2 in the run)
  wait for each other for good.
- `suspension_lifted`: a resubmission makes an account active again whatever it
  was deactivated for (`craftsmen.service.ts:179`). A craftsman with verified
  documents who was suspended for a report comes back without a review, although
  the comment says that `idVerified` is false whenever this happens.

### Known departures

Met while modelling; no run of their own, because a property already states what
does hold, with the exception named in it, or because the code makes no promise.

- A craftsman who comes online as a search ends is offered the request after the
  offers were withdrawn (`matching.gateway.ts:270-278`). `OffersWithdrawn` is
  therefore checked without late joiners and proved under that hypothesis.
- A cancellation between the assignment and the profile query is followed by a
  relay that nothing stops (`matching.gateway.ts:673-676`), and a craftsman may win
  two requests while the relay has room for one. `RelayedToOwnClient` states what
  holds of every relay, these included.
- `matching.gateway.ts:475` says "a block can't change mid-search", which nothing
  prevents: a craftsman blocked after the read still gets the card.
  `StandingBlockHolds` states what the code does keep.
- The gate on taxi and camion (`presence.service.ts:71-77`, "before they can ever
  enter presence and become matchable") looks at the profile's category, the index
  written is that of the event's body (`presence.service.ts:91-98`,
  `matching.gateway.ts:251-256`). A plumber with nothing approved who sends `taxi`
  is found by the searches for taxis; `OnlyEligibleAreFound` speaks of craftsmen
  whose own trade is regulated.
- setOffline removes from the index of the key's category only
  (`presence.service.ts:146-158`). A craftsman who went online under two categories
  stays in the index of the first, and is found there even after a deactivation
  that "immediately pulls them out" (`admin.service.ts:167-168`), with no race at
  all. The three properties of presence except exactly these entries
  (`leftBehind`).
- The handshake of a socket "Mirrors AccessTokenGuard/AuthGuard's HTTP logic"
  (`matching.gateway.ts:194`) but drops `issuedBeforeVerification` (197-229): a pair
  from before the proof opens a socket for the proven account, against
  `tokens.service.ts:15-19`, and a socket open at the proof, or at a deletion, is
  not judged again. `VerifiedSessionIsOwners` says of sockets only that those of
  other devices carry the stamp of before the proof.
- GET /users/lookup is there to notice a deletion (`users.controller.ts:52-55`), but
  asks by the token's number: a token of a deleted account finds the next account
  of the number. `VerifiedSessionIsOwners` says what it finds while the account
  lives.
- The badge's counter is "incremented once per `mission:*` notifyUser call"
  (`user.entity.ts:54-56`); the moderators' two calls (`admin.service.ts:260, 284`)
  have no increment. The counter is in the model and no property is about it.
- An application checks the mission's status, then inserts two queries later; the
  mission may be withdrawn or given by then, and the application stays pending
  (`missions.service.ts:482-493`).
- Two ratings of one craftsman that overlap leave a count one short until the next
  one (`matching.service.ts:361-375`, against "no drift risk" at 325-328).
  `RatingsCounted` states what holds with them too: the count is never ahead.
- Two taps on one craftsman that overlap push twice
  (`fallback-contacts.service.ts:91-97`).
- A request created, or accepted, by a handler that was let in before a deletion
  committed belongs to a deleted account (`DeletedHasNoJob`).
- A resubmission under way during a deletion puts a card on the deleted profile;
  the card a resubmission replaced stays on disk for good, so does one whose
  removal a crash prevents (`users.service.ts:214-287`; the app's texts,
  `app_en.arb:296`, say that photos are removed). `id_auto_check` is not cleared.
- A double-tapped resubmission may store no verdict for a card that had one: the
  second GET finds it gone. The verdict is never another card's
  (`DocumentsFollowAccount`).
- An error in presence between a suspension and its mark leaves the report
  pending (`admin.service.ts:301-312`); two administrators may suspend for a
  report that the other dismisses.
- An insertion in the middle of a removal leaves a craftsman in the index without
  a key, out of reach of the next setOffline; a go-online past its check survives
  a deactivation; the disconnect of an old socket, handled late, takes a
  craftsman off who is back on a new one; a crash leaves whoever was online in
  Redis. `IndexMatchesKey` and `OnlyEligibleAreFound` except exactly `raced`.
- A crash between INCR and EXPIRE leaves a counter without an expiry; two
  overlapping refused codes may make two pauses, and so the day's lock at the
  first (`otp-throttle.service.ts:62-94`).
- A payment whose timer or call is lost stays pending, and one whose handler a
  crash cuts is paid without its plan; nothing resumes either
  (`payments.service.ts:129-176`).

## 5. What the main properties are about

- `PendingHasLoop`, `SearchEnds`, `AcceptHonoured`, and `FirstAcceptWins`, which is
  proved and no property of a run: memory and table of a search.
- `RowsConsistent`, `HistoryIsFinal` and the refinements: the compare-and-swaps
  are all that keeps accept, expiry, cancellation and job steps apart.
- `StandingBlockHolds`: who has been blocked since before the request never gets
  its card, from a dispatch step or as a late joiner, though both readers of the
  blocks use an answer that may be old.
- `PagesAgree`, `RatingsCounted`, `ContactsHeardOnce`: separate queries over the
  same rows - the parties' pages, listings, photos, administrators' histories and
  statistics - never contradict each other.
- `ChecksHoldUnderLock`, `SelectionSettles`: what the selection transaction read
  still holds when it writes, and it ends.
- `PaidPlanIsEnjoyed`, `SubscriptionResolves`, and `PendingIsUnderWay`, proved and
  no property of a run: two statements and a timer.
- `IndexMatchesKey`, `OnlyEligibleAreFound`, `DeactivationTakesHold`: two Redis
  structures written command by command from seven places, for a category that is
  not always the profile's.
- `DocumentsFollowAccount`, `NobodyStuck`, `ReportsMatchSuspensions`: disk, Redis
  and Postgres, and two people looking at old screens.
- `LadderHolds`, `VerifiedSessionIsOwners`: limits and sessions of one number, the
  latter by each of the ways in that judge a token.

## 6. Proofs

Every invariant and every action property a passing run checks, and each of the
refinements, is a theorem, for sets of any size and any number of crashes;
`OffersWithdrawn` and `CancelNotified` under the hypotheses of the run that checks
them (no late joiners; no reset and no crash), since the code promises no more. The
assumptions are the named `ASSUME`s of each module: types and disjointness of the
constants, and two finite sets where something is counted (the handlers of
`OtpThrottle`; the requests of `Aftermath`, a table).

`MatchingLoop_proofs`: the inductive invariant `LoopInv` is

- `TypeOK`;
- `PendingHasLoop` (the property itself: the last await of every path leaves the
  row in another status);
- `CancelsAreReal`: a flagged or replied-to cancellation belongs to a row that
  is no longer pending - without it `StopCancelled` would end a loop whose row
  is still pending;
- `AcceptInHand`: a loop at `assign` or `announce` holds a craftsman - without
  it `AssignWon` would write NULL and leave the table's type.

From it: `LoopTypes`, `NoStrandedRequest`, `GatewayImplementsTable` (each step
of the gateway is a step of the table or a stutter).
`StandingBlocksHold` proves `StandingBlockHolds` from `BlocksKnown`, which says that
no reader has an answer older than the request: a search past its read has
`standing[r]` among its `blockedIds` (`SearchKnows`), a late joiner about to emit
for r was found free after r was created (`JoinersKnow`), and `standing` only
shrinks once the row is there.
`EveryOfferWithdrawn` proves `OffersWithdrawn` under the hypothesis that there
are no late joiners. `PositionsStayPrivate` proves `RelayedToOwnClient` with no
hypothesis: the relay starts in `Announce`, whose craftsman is the row's
(`RelayInv`, which rests on `SettledStays` and on a row nobody took having no
craftsman), and who has a row keeps it. `EveryCancelNotified` proves
`CancelNotified` with no reset and no crash: a cancelled job has its notice or a
handler that owes it (`NoticeInv`); a crash loses what is owed and a reset owes
nothing (the run `admin_reset`).

`GatewayKeepsRows` and `GatewayKeepsThePromise` carry the step to the table on to
what the table promises: `TableShapes` sorts its statements into the INSERT, the
assignment and the moves that change no craftsman, and over these three shapes
`RowsConsistent` and `HistoryIsFinal` are kept and each step is one of
`RequestLifecycle`, a move being the closing of the rows it closes, if any.

`AcceptStands` proves `FirstAcceptWins`. `Story` ties the memory of one search to
its row, in a process that has not died: while the loop is before the assignment
or the expiry its row is pending or cancelled and nothing else, which is why a
lost tryAssign means a cancellation (the comment at `matching.gateway.ts:505`
says so); a window settles once, so the accept the loop finds, the one it writes
and the one on the row are the same; and a search is told to stop only once the
cancellation is committed (`CancelsCommitted`).

`Missions_proofs`: the inductive invariant `BoardInv` is

- `TypeOK`;
- `SelectionConsistent`, which needs the next one: the commit overwrites status
  and selected applicant without looking, so consistency rests on what was
  checked under the lock;
- `ChecksHoldUnderLock`, inductive because every other statement on the mission
  waits for the row (`RowFree`);
- `ModeratedFirst`: a handler past its status check cannot find the mission back
  in moderation, because only a rejected mission is edited and only one in
  moderation is rejected.

From it: the invariants, `PagesTellOneStory` (the pages are functions of the
tables, so `PagesAgree` follows from the invariant without a step of its own),
`DecisionsStand`, and `BoardImplementsLifecycle`.

`Presence_proofs`: the argument is the order of the one connection. A ping that read
the category key before a removal deleted it is answered before that removal is
(`Ahead`), so the position it writes back falls inside the removal and the craftsman
counts as raced; what it writes is otherwise an entry of the key's category or one
left behind (`Covered`); with no such race, a removal has taken out what its replies
say it has but for what is left behind (`Left`, `Out`), and a go-online past its
check was allowed (`Checked`). `Shape` and `Pipe` say which awaits an entry point
has and that the pipeline holds exactly the handlers that wait for Redis. From it:
`TypeCorrect`, `IndexAgrees`, `OnlyEligible`.

`Payments_proofs`: `PaidPlanIsEnjoyed` speaks of payments that are through;
`Handlers` adds what a handler between the flip and the profile UPDATE still
knows, `OneAtATime` that without an overlap it is the newest payment's, `PaidOnes`
that the history of each user holds their own successes. From it: `TypeCorrect`,
`PaidIsEnjoyed`, `PurchasesAreHonoured` (refinement of `PurchaseLifecycle`).
`PendingIsNotForgotten` is the safety half of `SubscriptionResolves`: a pending
payment has its charge, its timer or its own webhook call ahead of it, or lost it.

`Sessions_proofs`: `VerifiedSessionIsOwners` is not inductive, since a handler may
hold the stamp of the session it is about to issue; `Stamped` says what every
stamp, issued or held, is worth (a socket has its session's), and `OnePhone` what the
lookup finds. From it: `TypeCorrect`, `OwnerRegainsTheNumber`.

`Accounts_proofs` has three parts, each beside the types and about the variables
it reads.

- Reports (`ReportsAndSuspensions`): `OneHandlerEach`, a report no two handlers
  act on has one handler at most, and is pending as long as it does - so the
  mark that handler sets is the one its suspension called for.
- Documents (`Documents`): a photo only reaches its owner's profile and stays on
  disk while the profile names it (`ProfileOK`); a resubmission carries the verdict
  read for the card it carries, and one under way at a deletion is on record as
  raced (`ResubmissionOK`); the files a deletion still has to remove are its own
  user's, hence no live account's (`DeletionOK`).
- Review queue (`QueueComplete`): a regulated craftsman has both documents on the
  profile or both verified (`ReviewOK`), which registration demands and each
  action keeps.

The module also has the verdict itself: the bands and the score of scoreDocument,
computed separately, agree at both ends for every document
(`RejectedHasNoScore`, `PassedIsWorthAStrongLabel`).

`OtpThrottle_proofs`: `Ladder` counts requests between two commands. A request
past GetSends counts as sent until its INCR (`SendsInv`). For refused codes
(`TriesInv`): while the pause is on, only requests past assertCanCheck can have
one refused; while it is off, every refused code stands for a request between its
INCR and SET block5, or was the first on a counter that was gone, and each DEL
under way can make one more of those possible (`FirstFailures`). A crash takes
all handlers with it, which is the term `crashes * Cardinality(Handlers)`.
`CountersExpire` is inductive as it stands.

`Aftermath_proofs`: first the table by itself: `TableInvariant` (types and
`RowsConsistent`), `HistoryTheorem`, `LifecycleTheorem` (refinement of
`RequestLifecycle`, safety part). The inductive invariant is the conjunction of
types, one active per client, and craftsman follows status: "one active per
client" is inductive because no UPDATE takes a closed row back to an active
status, and the refinement needs it for `Place`.

What surrounds the table takes its statements and no others (`AftermathStepsTable`),
so these theorems carry over (`TableUndisturbed`) and each of the three parts has an
invariant of its own beside `TableInv`. `TableStep` is all they need of a statement:
a closed row stays, a craftsman is set on a pending row only, an active row was
active or new.

- `DeletionInv`: from the count on a user is party to no active request, unless
  overtaken - the interval from count to commit included, which
  `DeletedHasNoJob` does not speak of.
- `RatingInv`: a queue of UPDATEs holds completed jobs of its craftsman, and with
  no overlap it is empty with the profile right, or one UPDATE long with the count
  holds right (`Tallied`). Cardinalities are compared as those of equal sets,
  so no finiteness is assumed. `CountsBehind`, overlap or not: every count, on
  the profile or queued, is that of some of the ratings earned, so it is never
  ahead of them.
- `ContactInv`: what a handler found in its SELECT is still so when it writes,
  unless another of the same request and craftsman crossed it (`TapsKnow`).

From them: `DeletedHasNoJobTheorem`, `RatingsCountedTheorem`,
`ContactsHeardOnceTheorem`. `AftermathTypes`: a count is the size of a set of
ratings of completed jobs, hence at most that of the table; that a count about to
be written is not zero rests on `RatingInv`.

Only model-checked: liveness (`SearchEnds`, `AcceptHonoured`, `SelectionSettles`,
`SubscriptionResolves`, `DeactivationTakesHold`), which rests on fairness and
ENABLED and is out of the prover's reach; the safety halves of `AcceptHonoured` and
of `SubscriptionResolves` are `AcceptStands` and `PendingIsNotForgotten`. Of the
scoring functions of `IdDocumentCheck` only what holds at both ends of the score is
proved.

## 7. Not modelled

- Push delivery (`firebase/`): external and best effort; a failed push is a log
  line. Where a property is about a push, the module that sends it counts it.
- The mobile app: its controllers against late answers and socket events would be
  a module of their own; what it may send, the server's modules take in full
  generality.
- Tokens' signatures and expiry (see `Sessions`), administrators' logins, the
  version file, analytics, broadcasts: stateless, or one statement that nothing else
  reads.
- Distances, positions, radius, texts, prices, scores, dates: data no
  property tells apart; categories outside `Presence`, but for how many dispatch
  steps a request has. Where a date decides (the contact list's two hours, a
  stashed verdict, the counters' hours) it is an event that may happen at any time.
- Migrations that only add or rename columns.

## 8. Plan

1. The safety halves of the other liveness properties, as invariants of their own:
   what a selection and a deactivation leave behind if they never end.
2. `ClientApp`: the client's controller against late HTTP answers and socket
   events, composed with the promise of `RequestLifecycle`.
3. Broadcasts: the fan-out against a deletion and a change of token.
