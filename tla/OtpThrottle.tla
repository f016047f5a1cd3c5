------------------------------ MODULE OtpThrottle ------------------------------
(***************************************************************************)
(* The limits on the codes of one phone number: POST /auth/otp/start and   *)
(* /auth/otp/check around Twilio Verify, and the ladder OtpThrottleService *)
(* keeps in Redis: a minute between two codes, three codes an hour, five   *)
(* minutes' pause after two refused codes, a day's after two pauses        *)
(* (backend/src/auth).                                                     *)
(*                                                                         *)
(* A handler is a sequence of Redis commands with everything else in       *)
(* between; keys expire at any time.  What an approved code opens is       *)
(* Sessions.                                                               *)
(***************************************************************************)
EXTENDS Integers, FiniteSets, Sequences

CONSTANTS
  Handlers,      \* bound: requests under way at once for this number
  MaxCrashes     \* bound on process restarts

ASSUME ThrottleConstants == IsFiniteSet(Handlers) /\ MaxCrashes \in Nat

MAX_SENDS_PER_HOUR == 3
FAILS_BEFORE_BLOCK == 2
BLOCKS_BEFORE_LOCK == 2

VARIABLES
  flags,         \* keys set with EX: "cooldown", "block5", "lock24"
  counter,       \* counters: "sends", "fails", "blockCount"; 0 is no key
  ttl,           \* counters with an expiry
  handler,       \* handler[h]: the request's step, and the key it reads next
  orphaned,      \* counters whose EXPIRE a crash cut off (history)
  wrong,         \* codes Twilio refused since the last lull (history)
  crashes

redisVars   == <<flags, counter, ttl>>
historyVars == <<orphaned, wrong, crashes>>
vars == <<redisVars, handler, historyVars>>

Flags    == {"cooldown", "block5", "lock24"}
Counters == {"sends", "fails", "blockCount"}

Idle == [step |-> "idle", key |-> 0]
At(h, step) == handler[h].step = step
To(h, step) == handler' = [handler EXCEPT ![h] = [step |-> step, key |-> 0]]
End(h)      == handler' = [handler EXCEPT ![h] = Idle]

Init ==
  /\ flags    = {}
  /\ counter  = [c \in Counters |-> 0]
  /\ ttl      = {}
  /\ handler  = [h \in Handlers |-> Idle]
  /\ orphaned = {}
  /\ wrong    = 0
  /\ crashes  = 0

-----------------------------------------------------------------------------
(* Redis commands. *)

\* A key's time is up: a key with EX, or a counter with an expiry.  The lull
\* after a pause, or after an hour without a failure, starts the tries anew.
Expire(key) ==
  /\ \/ key \in flags /\ flags' = flags \ {key} /\ UNCHANGED <<counter, ttl>>
     \/ /\ key \in ttl
        /\ ttl'     = ttl \ {key}
        /\ counter' = [counter EXCEPT ![key] = 0]
        /\ UNCHANGED flags
  /\ wrong' = IF key \in {"block5", "fails"} THEN 0 ELSE wrong
  /\ UNCHANGED <<handler, orphaned, crashes>>

\* Bound: a counter past it makes no difference to the code.
Cap == [sends      |-> MAX_SENDS_PER_HOUR + Cardinality(Handlers),
        fails      |-> FAILS_BEFORE_BLOCK + Cardinality(Handlers),
        blockCount |-> BLOCKS_BEFORE_LOCK]

Incr(c) == counter' = [counter EXCEPT ![c] = IF @ < Cap[c] THEN @ + 1 ELSE @]

\* Mutant: the expiry left to the second caller.
SecondOnly(n) == n = 2

\* The caller that brought the counter into being sets its expiry.
FirstOnly(n) == n = 1

\* The step after the INCR that brought a counter into being.
ExpireStep == [sends      |-> "expireSends",
               fails      |-> "expireFails",
               blockCount |-> "expireBlockCount"]

\* Mutant: an expiry for a counter that is gone.
SetExpiryAnyway(h, c) ==
  /\ At(h, ExpireStep[c])
  /\ ttl' = ttl \cup {c}
  /\ End(h)
  /\ UNCHANGED <<flags, counter, historyVars>>

\* EXPIRE, the command after INCR: nothing for a key that is gone.
SetExpiry(h, c) ==
  /\ At(h, ExpireStep[c])
  /\ ttl' = IF counter[c] > 0 THEN ttl \cup {c} ELSE ttl
  /\ End(h)
  /\ UNCHANGED <<flags, counter, historyVars>>

-----------------------------------------------------------------------------
(* The EXISTS commands a request begins with. *)

SendFlags  == <<"lock24", "block5", "cooldown">>
CheckFlags == <<"lock24", "block5">>

Begin(h, step) ==
  /\ At(h, "idle")
  /\ handler' = [handler EXCEPT ![h] = [step |-> step, key |-> 1]]
  /\ UNCHANGED <<redisVars, historyVars>>

\* One EXISTS: the request is refused, or goes on to the next one.
AssertFree(h, step, keys, then) ==
  LET i == handler[h].key IN
  /\ At(h, step)
  /\ \/ keys[i] \in flags /\ End(h)
     \/ keys[i] \notin flags /\ i < Len(keys)
        /\ handler' = [handler EXCEPT ![h].key = i + 1]
     \/ keys[i] \notin flags /\ i = Len(keys) /\ To(h, then)
  /\ UNCHANGED <<redisVars, historyVars>>

-----------------------------------------------------------------------------
(* POST /auth/otp/start. *)

StartOtp(h) == Begin(h, "assertCanSend")
AssertCanSend(h) == AssertFree(h, "assertCanSend", SendFlags, "getSends")

SendsLeft == counter["sends"] < MAX_SENDS_PER_HOUR

GetSends(h) ==
  /\ At(h, "getSends")
  /\ IF SendsLeft THEN To(h, "startVerification") ELSE End(h)
  /\ UNCHANGED <<redisVars, historyVars>>

\* Twilio takes the message, or refuses it or is out of reach (400).
StartVerification(h) ==
  /\ At(h, "startVerification")
  /\ To(h, "setCooldown") \/ End(h)
  /\ UNCHANGED <<redisVars, historyVars>>

SetCooldown(h) ==
  /\ At(h, "setCooldown")
  /\ flags' = flags \cup {"cooldown"}
  /\ To(h, "incrSends")
  /\ UNCHANGED <<counter, ttl, historyVars>>

IncrSends(h) ==
  /\ At(h, "incrSends")
  /\ Incr("sends")
  /\ IF FirstOnly(counter["sends"] + 1) THEN To(h, ExpireStep["sends"]) ELSE End(h)
  /\ UNCHANGED <<flags, ttl, historyVars>>

-----------------------------------------------------------------------------
(* POST /auth/otp/check. *)

CheckOtp(h) == Begin(h, "assertCanCheck")
AssertCanCheck(h) == AssertFree(h, "assertCanCheck", CheckFlags, "checkVerification")

\* The refused codes the limits allow for: one more for each other request
\* already past assertCanCheck, one for each whose DEL of an earlier pause comes
\* late, and those a crash kept from being counted.
MostWrong == FAILS_BEFORE_BLOCK + 2 * (Cardinality(Handlers) - 1)
             + crashes * Cardinality(Handlers)

\* Twilio approves the code, refuses it (wrong, expired, or too many tries), or
\* is out of reach (400, not counted).
CheckVerification(h) ==
  /\ At(h, "checkVerification")
  /\ \/ To(h, "recordSuccess") /\ UNCHANGED wrong
     \/ To(h, "incrFails") /\ wrong' = IF wrong > MostWrong THEN wrong ELSE wrong + 1
     \/ End(h) /\ UNCHANGED wrong
  /\ UNCHANGED <<redisVars, orphaned, crashes>>

LastFailure(n) == n >= FAILS_BEFORE_BLOCK

IncrFails(h) ==
  LET n == counter["fails"] + 1 IN
  /\ At(h, "incrFails")
  /\ Incr("fails")
  /\ IF FirstOnly(n) THEN To(h, ExpireStep["fails"])
     ELSE IF LastFailure(n) THEN To(h, "setBlock5") ELSE End(h)
  /\ UNCHANGED <<flags, ttl, historyVars>>

SetBlock5(h) ==
  /\ At(h, "setBlock5")
  /\ flags' = flags \cup {"block5"}
  /\ To(h, "delFails")
  /\ UNCHANGED <<counter, ttl, historyVars>>

DelFails(h) ==
  /\ At(h, "delFails")
  /\ counter'  = [counter EXCEPT !["fails"] = 0]
  /\ ttl'      = ttl \ {"fails"}
  /\ orphaned' = orphaned \ {"fails"}
  /\ To(h, "incrBlockCount")
  /\ UNCHANGED <<flags, wrong, crashes>>

IncrBlockCount(h) ==
  LET n == counter["blockCount"] + 1 IN
  /\ At(h, "incrBlockCount")
  /\ Incr("blockCount")
  /\ IF FirstOnly(n) THEN To(h, ExpireStep["blockCount"])
     ELSE IF n >= BLOCKS_BEFORE_LOCK THEN To(h, "setLock24") ELSE End(h)
  /\ UNCHANGED <<flags, ttl, historyVars>>

SetLock24(h) ==
  /\ At(h, "setLock24")
  /\ flags' = flags \cup {"lock24"}
  /\ End(h)
  /\ UNCHANGED <<counter, ttl, historyVars>>

\* DEL of all six keys; the handler goes on to the account.
RecordSuccess(h) ==
  /\ At(h, "recordSuccess")
  /\ flags'    = {}
  /\ counter'  = [c \in Counters |-> 0]
  /\ ttl'      = {}
  /\ orphaned' = {}
  /\ wrong'    = 0
  /\ End(h)
  /\ UNCHANGED crashes

\* The process stops between two commands.
Crash ==
  /\ crashes < MaxCrashes
  /\ crashes'  = crashes + 1
  /\ handler'  = [h \in Handlers |-> Idle]
  /\ orphaned' = orphaned \cup {c \in Counters : \E h \in Handlers : At(h, ExpireStep[c])}
  /\ UNCHANGED <<redisVars, wrong>>

Next ==
  \/ \E key \in Flags \cup Counters : Expire(key)
  \/ \E h \in Handlers :
       \/ StartOtp(h) \/ AssertCanSend(h) \/ GetSends(h) \/ StartVerification(h)
       \/ SetCooldown(h) \/ IncrSends(h)
       \/ CheckOtp(h) \/ AssertCanCheck(h) \/ CheckVerification(h) \/ IncrFails(h)
       \/ SetBlock5(h) \/ DelFails(h) \/ IncrBlockCount(h) \/ SetLock24(h)
       \/ RecordSuccess(h)
       \/ \E c \in Counters : SetExpiry(h, c)
  \/ Crash

Spec == Init /\ [][Next]_vars

-----------------------------------------------------------------------------
Steps == {"idle", "assertCanSend", "getSends", "startVerification", "setCooldown",
          "incrSends", "assertCanCheck", "checkVerification", "incrFails", "setBlock5",
          "delFails", "incrBlockCount", "setLock24", "recordSuccess",
          "expireSends", "expireFails", "expireBlockCount"}

TypeOK ==
  /\ flags    \subseteq Flags
  /\ counter  \in [Counters -> Nat]
  /\ \A c \in Counters : counter[c] <= Cap[c]
  /\ ttl      \subseteq {c \in Counters : counter[c] > 0}
  /\ handler  \in [Handlers -> [step : Steps, key : 0 .. 3]]
  /\ orphaned \subseteq Counters
  /\ wrong    \in 0 .. MostWrong + 1
  /\ crashes  \in 0 .. MaxCrashes

\* Every counter has an expiry, or is about to, but for a crash in between:
\* "TTL-bound so there's no sweep to run" (otp-throttle.service.ts:24-29).
CountersExpire ==
  \A c \in Counters :
    counter[c] > 0 => \/ c \in ttl \cup orphaned
                      \/ \E h \in Handlers : At(h, ExpireStep[c])

\* Requests for a code that overlap go over the hour's limit by their number.
SendsBounded == counter["sends"] <= MAX_SENDS_PER_HOUR + Cardinality(Handlers) - 1

\* So do refused codes over the limit before the pause, whatever expires, is
\* reset or crashes between the commands that count them.
TriesBounded == wrong <= MostWrong

(***************************************************************************)
(* The ladder stands whatever commands of several requests interleave: no  *)
(* counter outlives its hour and no limit is passed but by the requests    *)
(* that were already past it (otp-throttle.service.ts:45-94).              *)
(***************************************************************************)
LadderHolds == CountersExpire /\ SendsBounded /\ TriesBounded
=============================================================================
