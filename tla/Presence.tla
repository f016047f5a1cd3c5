------------------------------- MODULE Presence -------------------------------
(***************************************************************************)
(* Craftsman presence (backend/src/matching/presence.service.ts): the GEO  *)
(* index of each category, which the matching loop searches, and the       *)
(* category key that says "online now" and under which category, all in    *)
(* Redis, written by the REST availability switch, the socket events, the  *)
(* disconnect hook and every way an account is deactivated.                *)
(*                                                                         *)
(* The socket event names the category in its body; the server does not    *)
(* compare it with the profile's.  A craftsman put online under a second   *)
(* category stays in the index of the first (leftBehind): setOffline and   *)
(* the pings know only the category of the key.                            *)
(*                                                                         *)
(* The process has one Redis connection: a command takes effect when it is *)
(* sent, relative to the others, and the awaits behind the commands resume *)
(* in the order they were sent (pipeline).  Database awaits resume in any  *)
(* order.  A handler is the craftsman it is for and the entry point it     *)
(* came by; its program counter is the await it is suspended on.           *)
(*                                                                         *)
(* Positions, the client set and the last known location in Postgres are   *)
(* left out.                                                               *)
(***************************************************************************)
EXTENDS Integers, Sequences, FiniteSets

CONSTANTS
  Craftsmen,
  Categories,
  Regulated,      \* taxi and camion: two documents before going online
  CategoryOf,     \* the service category of each profile, set at registration
  NoCategory,     \* no such key
  MaxHandlers,    \* bound: handlers under way at once
  MaxCrashes      \* bound on process restarts

ASSUME PresenceConstants ==
  /\ Regulated \subseteq Categories
  /\ CategoryOf \in [Craftsmen -> Categories]
  /\ NoCategory \notin Categories
  /\ MaxHandlers \in Nat \ {0}
  /\ MaxCrashes \in Nat

OnlineOps  == {"craftsman:online", "available"}
OfflineOps == {"craftsman:offline", "disconnect", "unavailable", "deactivate"}
Ops == OnlineOps \cup OfflineOps \cup {"craftsman:location"}
RestOps == {"available", "unavailable"}

VARIABLES
  active,         \* is_active of each profile
  verified,       \* id_verified and license_verified
  available,      \* is_available of each profile
  geo,            \* <<k, c>>: k is a member of presence:geo:<c>
  key,            \* presence:category:<k>, or NoCategory
  pc,             \* pc[k][op]: the await the handler is suspended on, or "idle"
  held,           \* held[k][op]: the category its GET returned
  pipeline,       \* handlers awaiting a Redis reply, in order
  raced,          \* craftsmen indexed while a removal was under way (history)
  leftBehind,     \* <<k, c>>: k went online elsewhere while online as c (history)
  crashes

accountVars  == <<active, verified, available>>
redisVars    == <<geo, key>>
historyVars  == <<raced, leftBehind>>
presenceVars == <<accountVars, redisVars, pc, held, pipeline, historyVars, crashes>>

Awaits == {"idle", "lookup", "profile", "district", "indexed",
           "found", "missing", "removed", "deleted", "flag"}

Init ==
  /\ active    = [k \in Craftsmen |-> TRUE]
  /\ verified  = [k \in Craftsmen |-> FALSE]
  /\ available = [k \in Craftsmen |-> FALSE]
  /\ geo       = {}
  /\ key       = [k \in Craftsmen |-> NoCategory]
  /\ pc        = [k \in Craftsmen |-> [op \in Ops |-> "idle"]]
  /\ held      = [k \in Craftsmen |-> [op \in Ops |-> NoCategory]]
  /\ pipeline  = <<>>
  /\ raced     = {}
  /\ leftBehind = {}
  /\ crashes   = 0

-----------------------------------------------------------------------------
Goto(k, op, await) == pc' = [pc EXCEPT ![k][op] = await]

\* A command was sent: its handler waits for the reply behind the others.
Send(k, op, await) ==
  /\ Goto(k, op, await)
  /\ pipeline' = Append(pipeline, <<k, op>>)

\* The reply this handler waits for is the next to arrive.
Replied(k, op, await) ==
  /\ pc[k][op] = await
  /\ pipeline # <<>>
  /\ Head(pipeline) = <<k, op>>

\* The handler whose reply arrived sends its next command, or ends.
SendNext(k, op, await) ==
  /\ Goto(k, op, await)
  /\ pipeline' = Append(Tail(pipeline), <<k, op>>)

Resume(k, op, await) ==
  /\ Goto(k, op, await)
  /\ pipeline' = Tail(pipeline)

\* GET of the category key: the handler acts on what it returned.
GetCategory(k, op) ==
  /\ Send(k, op, IF key[k] # NoCategory THEN "found" ELSE "missing")
  /\ held' = [held EXCEPT ![k][op] = key[k]]

\* The category is used up by the next command.
Forget(k, op) == held' = [held EXCEPT ![k][op] = NoCategory]

UnderWay == {h \in Craftsmen \X Ops : pc[h[1]][h[2]] # "idle"}
Removing(k) == \E op \in OfflineOps : pc[k][op] # "idle"
Room == Cardinality(UnderWay) < MaxHandlers
Online(k) == key[k] # NoCategory

-----------------------------------------------------------------------------
(* Going online: setOnline behind both of its entry points. *)

\* The socket event, or the PATCH whose own look-ups come first.
GoOnline(k, op) ==
  /\ op \in OnlineOps
  /\ Room
  /\ pc[k][op] = "idle"
  /\ Goto(k, op, "profile")
  /\ UNCHANGED <<accountVars, redisVars, held, pipeline, historyVars, crashes>>

\* Mutant: the regulated categories treated like the others.
MayGoOnlineUnverified(k) == active[k]

\* May this profile go online?  One of a regulated trade needs both documents;
\* the category it is to be indexed under is not looked at.
MayGoOnline(k) == active[k] /\ (CategoryOf[k] \in Regulated => verified[k])

ReadProfile(k, op) ==
  /\ pc[k][op] = "profile"
  /\ Goto(k, op, IF MayGoOnline(k) THEN "district" ELSE "idle")
  /\ UNCHANGED <<accountVars, redisVars, held, pipeline, historyVars, crashes>>

\* isArtisanRegistrationActiveForUser: the zone is closed.
DistrictClosed(k, op) ==
  /\ pc[k][op] = "district"
  /\ Goto(k, op, "idle")
  /\ UNCHANGED <<accountVars, redisVars, held, pipeline, historyVars, crashes>>

\* The category setOnline is called with: the profile's by the PATCH, whatever
\* the body says by the socket event.
AskedCategories(k, op) == IF op = "available" THEN {CategoryOf[k]} ELSE Categories

\* The zone is open: GEOADD and SET are sent together.
EnterUnder(k, op, c) ==
  /\ pc[k][op] = "district"
  /\ geo' = geo \cup {<<k, c>>}
  /\ key' = [key EXCEPT ![k] = c]
  /\ leftBehind' = (leftBehind \cup {<<k, d>> : d \in {key[k]} \ {NoCategory}}) \ {<<k, c>>}
  /\ raced' = IF Removing(k) THEN raced \cup {k} ELSE raced
  /\ Send(k, op, "indexed")
  /\ UNCHANGED <<accountVars, held, crashes>>

EnterPresence(k, op) == \E c \in AskedCategories(k, op) : EnterUnder(k, op, c)

\* The socket handler goes on to the pending requests (MatchingLoop); the REST
\* handler has the flag to write.
Indexed(k, op) ==
  /\ Replied(k, op, "indexed")
  /\ Resume(k, op, IF op \in RestOps THEN "flag" ELSE "idle")
  /\ UNCHANGED <<accountVars, redisVars, held, historyVars, crashes>>

-----------------------------------------------------------------------------
(* A location ping: updateLocation. *)

\* GET of the category.
Ping(k) ==
  LET op == "craftsman:location" IN
  /\ Room
  /\ pc[k][op] = "idle"
  /\ GetCategory(k, op)
  /\ UNCHANGED <<accountVars, redisVars, historyVars, crashes>>

\* Online a moment ago: GEOADD to the category read; otherwise the stray ping is
\* ignored.
MovePosition(k) ==
  LET op == "craftsman:location" IN
  /\ Replied(k, op, "found")
  /\ geo'   = geo \cup {<<k, held[k][op]>>}
  /\ raced' = IF Removing(k) THEN raced \cup {k} ELSE raced
  /\ SendNext(k, op, "indexed")
  /\ Forget(k, op)
  /\ UNCHANGED <<accountVars, key, leftBehind, crashes>>

StrayPing(k) ==
  LET op == "craftsman:location" IN
  /\ Replied(k, op, "missing")
  /\ Resume(k, op, "idle")
  /\ UNCHANGED <<accountVars, redisVars, held, historyVars, crashes>>

-----------------------------------------------------------------------------
(* Leaving: setOffline behind each of its entry points. *)

\* craftsman:offline and the disconnect of a socket start with the GET; the
\* PATCH looks the craftsman up first.
GoOffline(k, op) ==
  /\ op \in OfflineOps \ {"deactivate"}
  /\ Room
  /\ pc[k][op] = "idle"
  /\ IF op \in RestOps
     THEN Goto(k, op, "lookup") /\ UNCHANGED <<held, pipeline>>
     ELSE GetCategory(k, op)
  /\ UNCHANGED <<accountVars, redisVars, historyVars, crashes>>

\* Mutant: a deactivation that only flips the profile.
DeactivateProfileOnly(k) ==
  /\ Room
  /\ active'    = [active EXCEPT ![k] = FALSE]
  /\ available' = [available EXCEPT ![k] = FALSE]
  /\ raced' = IF \E op \in OnlineOps : pc[k][op] = "district"
              THEN raced \cup {k} ELSE raced
  /\ UNCHANGED <<verified, redisVars, pc, held, pipeline, leftBehind, crashes>>

\* A rejected document, a suspension or a deletion: the profile first, then
\* setOffline.  A handler past the profile check will not notice.
Deactivate(k) ==
  /\ Room
  /\ pc[k]["deactivate"] = "idle"
  /\ active'    = [active EXCEPT ![k] = FALSE]
  /\ available' = [available EXCEPT ![k] = FALSE]
  /\ raced' = IF \E op \in OnlineOps : pc[k][op] = "district"
              THEN raced \cup {k} ELSE raced
  /\ Goto(k, "deactivate", "lookup")
  /\ UNCHANGED <<verified, redisVars, held, pipeline, leftBehind, crashes>>

\* The database answered: now the GET.
LookUpCategory(k, op) ==
  /\ pc[k][op] = "lookup"
  /\ GetCategory(k, op)
  /\ UNCHANGED <<accountVars, redisVars, historyVars, crashes>>

\* A category was found: ZREM from the index of that category.
RemovePosition(k, op) ==
  /\ op \in OfflineOps
  /\ Replied(k, op, "found")
  /\ geo' = geo \ {<<k, held[k][op]>>}
  /\ SendNext(k, op, "removed")
  /\ Forget(k, op)
  /\ UNCHANGED <<accountVars, key, historyVars, crashes>>

\* Mutants: a removal that leaves the key behind, and one that never ends.
KeepKey(k, op) ==
  /\ op \in OfflineOps
  /\ Replied(k, op, "removed") \/ Replied(k, op, "missing")
  /\ SendNext(k, op, "deleted")
  /\ UNCHANGED <<accountVars, redisVars, held, historyVars, crashes>>

AwaitKey(k, op) ==
  /\ op \in OfflineOps
  /\ Replied(k, op, "removed") \/ Replied(k, op, "missing")
  /\ key' = [key EXCEPT ![k] = NoCategory]
  /\ SendNext(k, op, "waiting")
  /\ UNCHANGED <<accountVars, geo, held, historyVars, crashes>>

\* DEL of the category, whether or not there was one.
DeleteKey(k, op) ==
  /\ op \in OfflineOps
  /\ Replied(k, op, "removed") \/ Replied(k, op, "missing")
  /\ key' = [key EXCEPT ![k] = NoCategory]
  /\ SendNext(k, op, "deleted")
  /\ UNCHANGED <<accountVars, geo, held, historyVars, crashes>>

Deleted(k, op) ==
  /\ Replied(k, op, "deleted")
  /\ Resume(k, op, IF op \in RestOps THEN "flag" ELSE "idle")
  /\ UNCHANGED <<accountVars, redisVars, held, historyVars, crashes>>

\* setAvailability's UPDATE of is_available, whichever way it went.
WriteFlag(k, op) ==
  /\ pc[k][op] = "flag"
  /\ available' = [available EXCEPT ![k] = (op = "available")]
  /\ Goto(k, op, "idle")
  /\ UNCHANGED <<active, verified, redisVars, held, pipeline, historyVars, crashes>>

-----------------------------------------------------------------------------
\* verifyCraftsman where there is a license to approve, and the resubmission
\* that makes a profile active again.
Verify(k) ==
  /\ CategoryOf[k] \in Regulated
  /\ verified' = [verified EXCEPT ![k] = TRUE]
  /\ UNCHANGED <<active, available, redisVars, pc, held, pipeline, historyVars, crashes>>

Reactivate(k) ==
  /\ active' = [active EXCEPT ![k] = TRUE]
  /\ UNCHANGED <<verified, available, redisVars, pc, held, pipeline, historyVars, crashes>>

\* The process stops between two commands; what Redis and Postgres hold stays,
\* and a removal that was under way is never finished.
Crash ==
  /\ crashes < MaxCrashes
  /\ crashes'  = crashes + 1
  /\ raced'    = raced \cup {k \in Craftsmen : Removing(k)}
  /\ pc'       = [k \in Craftsmen |-> [op \in Ops |-> "idle"]]
  /\ held'     = [k \in Craftsmen |-> [op \in Ops |-> NoCategory]]
  /\ pipeline' = <<>>
  /\ UNCHANGED <<accountVars, redisVars, leftBehind>>

\* A handler that has started goes on by itself.
Continue(k, op) ==
  \/ ReadProfile(k, op)
  \/ DistrictClosed(k, op)
  \/ EnterPresence(k, op)
  \/ Indexed(k, op)
  \/ LookUpCategory(k, op)
  \/ RemovePosition(k, op)
  \/ DeleteKey(k, op)
  \/ Deleted(k, op)
  \/ WriteFlag(k, op)
  \/ op = "craftsman:location" /\ (MovePosition(k) \/ StrayPing(k))

Next ==
  \/ \E k \in Craftsmen, op \in Ops :
       GoOnline(k, op) \/ GoOffline(k, op) \/ Continue(k, op)
  \/ \E k \in Craftsmen : Ping(k) \/ Deactivate(k) \/ Verify(k) \/ Reactivate(k)
  \/ Crash

SafeSpec == Init /\ [][Next]_presenceVars

\* Replies arrive and continuations run; nobody has to do anything new.
Spec == SafeSpec /\ \A k \in Craftsmen, op \in Ops : WF_presenceVars(Continue(k, op))

-----------------------------------------------------------------------------
TypeOK ==
  /\ active    \in [Craftsmen -> BOOLEAN]
  /\ verified  \in [Craftsmen -> BOOLEAN]
  /\ available \in [Craftsmen -> BOOLEAN]
  /\ geo       \subseteq Craftsmen \X Categories
  /\ key       \in [Craftsmen -> Categories \cup {NoCategory}]
  /\ pc        \in [Craftsmen -> [Ops -> Awaits]]
  /\ held      \in [Craftsmen -> [Ops -> Categories \cup {NoCategory}]]
  /\ pipeline  \in Seq(Craftsmen \X Ops)
  /\ raced     \subseteq Craftsmen
  /\ leftBehind \subseteq Craftsmen \X Categories
  /\ crashes   \in 0 .. MaxCrashes

\* What the matching loop searches for a category, what puts "online" next to a
\* craftsman on the list of direct contacts, and the administrators' roster.
FindNearest(c) == {k \in Craftsmen : <<k, c>> \in geo}
OnlineAmong(c, C) == C \cap FindNearest(c)
GetPresence == geo

(***************************************************************************)
(* The two halves of presence agree whatever handlers overlap.  A          *)
(* craftsman with the category key is in that category's index: only a     *)
(* removal between its ZREM and its DEL, or one a crash cut there, shows   *)
(* the key alone.  An entry under another category than the key's is out   *)
(* of reach of the next setOffline; it takes an insertion in the middle of *)
(* a removal, or is the one left behind by a craftsman who went online     *)
(* under two categories (presence.service.ts:91-158).                      *)
(***************************************************************************)
IndexMatchesKey ==
  /\ \A k \in Craftsmen : Online(k) /\ <<k, key[k]>> \notin GetPresence =>
       \/ \E op \in OfflineOps : pc[k][op] = "removed"
       \/ crashes > 0 /\ k \in raced
  /\ \A k \in Craftsmen \ raced, c \in Categories :
       <<k, c>> \in GetPresence \ leftBehind => c = key[k]

(***************************************************************************)
(* Of the craftsmen of a regulated trade only those with both documents    *)
(* approved are found, in whichever index, across the awaits between the   *)
(* check and the insertion and across every ping                           *)
(* (presence.service.ts:69-82).  Nobody whose deactivation is through is   *)
(* in an index, unless a go-online had already passed its check, an        *)
(* insertion ran into the removal, or the entry is one left behind: the    *)
(* exceptions to "can never re-enter" (presence.service.ts:47-52).         *)
(***************************************************************************)
OnlyEligibleAreFound ==
  /\ \A k \in Craftsmen : CategoryOf[k] \in Regulated /\ ~verified[k] =>
       ~Online(k) /\ \A c \in Categories : k \notin FindNearest(c)
  /\ \A k \in Craftsmen \ raced : ~active[k] /\ ~Removing(k) =>
       /\ ~Online(k)
       /\ \A c \in Categories : k \in FindNearest(c) => <<k, c>> \in leftBehind

(***************************************************************************)
(* A deactivation takes hold: the searches stop finding the craftsman, but *)
(* in an index left behind, unless they are active again or one of the     *)
(* races occurred.                                                         *)
(***************************************************************************)
DeactivationTakesHold ==
  \A k \in Craftsmen :
    ~active[k] ~> \/ \A c \in Categories :
                      OnlineAmong(c, {k}) # {} => <<k, c>> \in leftBehind
                  \/ active[k] \/ k \in raced
=============================================================================
