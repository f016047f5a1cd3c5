-------------------------------- MODULE Sessions --------------------------------
(***************************************************************************)
(* The accounts one phone number gets over time and the sessions that act  *)
(* for them: registration with or without a proof of the number, the proof *)
(* by an approved code, token pairs, their refresh, the sockets they open, *)
(* and deletion, which frees the number (backend/src/auth,                 *)
(* backend/src/users, the handshake of backend/src/matching).              *)
(*                                                                         *)
(* Whoever types a number may register it as a client; only a device that  *)
(* receives its messages gets a code approved (OtpThrottle).  A session is *)
(* a token pair; tokens are only ever judged, never revoked, and each kind *)
(* of call judges them its own way: AuthGuard and refresh, the handshake   *)
(* of a socket, the routes behind AccessTokenGuard alone.                  *)
(***************************************************************************)
EXTENDS Naturals, FiniteSets

CONSTANTS
  Devices,
  Owners,        \* devices that receive the number's messages
  Accounts,      \* bound: ids of the accounts the number may get
  NoAccount

ASSUME SessionConstants == Owners \subseteq Devices /\ NoAccount \notin Accounts

VARIABLES
  blacklisted,   \* the number is in blacklisted_phones
  account,       \* account[u]: "none", "live" or "deleted" (phone set to NULL)
  phoneVerified, \* phone_verified of each account
  proof,         \* devices with a registration token
  sessions,      \* token pairs: account (sub), verified (pv), device
  sockets,       \* open sockets, each the token pair it was opened with
  handler        \* handler[d]: a request's step, account and what it read of it

accountVars == <<account, phoneVerified>>
vars == <<blacklisted, accountVars, proof, sessions, sockets, handler>>

Session == [account : Accounts, pv : BOOLEAN, device : Devices]
Idle == [step |-> "idle", account |-> NoAccount, pv |-> FALSE]

At(d, step) == handler[d].step = step
To(d, step, u, pv) ==
  handler' = [handler EXCEPT ![d] = [step |-> step, account |-> u, pv |-> pv]]

Init ==
  /\ blacklisted   = FALSE
  /\ account       = [u \in Accounts |-> "none"]
  /\ phoneVerified = [u \in Accounts |-> FALSE]
  /\ proof         = {}
  /\ sessions      = {}
  /\ sockets       = {}
  /\ handler       = [d \in Devices |-> Idle]

\* The phone column: unique, NULL once deleted.
WithPhone == {u \in Accounts : account[u] = "live"}

-----------------------------------------------------------------------------
(* Tokens. *)

\* Mutant: a session is judged by its account alone.
AccountLives(s) == account[s.account] = "live"

\* AuthGuard and AuthController.refresh: the account by its id, not deleted, and
\* no session from before its number was proven.
Accepted(s) ==
  /\ account[s.account] = "live"
  /\ phoneVerified[s.account] => s.pv

\* issueTokens stamps the phone_verified its caller read.
IssueTokens(d) ==
  LET r == handler[d] IN
  /\ At(d, "issueTokens")
  /\ sessions' = sessions \cup {[account |-> r.account, pv |-> r.pv, device |-> d]}
  /\ handler'  = [handler EXCEPT ![d] = Idle]
  /\ UNCHANGED <<blacklisted, accountVars, proof, sockets>>

\* POST /auth/refresh, up to its tokens.
Refresh(d) ==
  /\ At(d, "idle")
  /\ \E s \in sessions :
       /\ s.device = d /\ Accepted(s)
       /\ To(d, "issueTokens", s.account, phoneVerified[s.account])
  /\ UNCHANGED <<blacklisted, accountVars, proof, sessions, sockets>>

-----------------------------------------------------------------------------
(* Calls AuthGuard does not judge. *)

\* The handshake's middleware: the account by its id, not deleted.  The stamp
\* resolveVerifiedAuth returns is not looked at.
Handshake(s) ==
  /\ s \in sessions /\ account[s.account] = "live"
  /\ sockets' = sockets \cup {s}
  /\ UNCHANGED <<blacklisted, accountVars, proof, sessions, handler>>

\* An open socket is judged no more; it ends with its connection.
Disconnect(s) ==
  /\ s \in sockets
  /\ sockets' = sockets \ {s}
  /\ UNCHANGED <<blacklisted, accountVars, proof, sessions, handler>>

\* GET /users/lookup: whichever account has the number written in the token.
LookedUpBy(s) == IF s \in sessions THEN WithPhone ELSE {}

-----------------------------------------------------------------------------
(* POST /auth/otp/check, once Twilio has approved the code. *)

\* Mutant: Twilio's answer not waited for.
AnyDevice(d) == TRUE

CheckVerification(d) == d \in Owners

\* Without an account the device gets a registration token.
FindUser(d) ==
  /\ At(d, "idle") /\ CheckVerification(d)
  /\ \/ /\ WithPhone = {}
        /\ proof' = proof \cup {d}
        /\ UNCHANGED handler
     \/ \E u \in WithPhone :
          /\ IF phoneVerified[u] THEN To(d, "issueTokens", u, TRUE)
             ELSE To(d, "verify", u, FALSE)
          /\ UNCHANGED proof
  /\ UNCHANGED <<blacklisted, accountVars, sessions, sockets>>

\* UPDATE by id, whatever became of the account.
VerifyPhone(d) ==
  LET u == handler[d].account IN
  /\ At(d, "verify")
  /\ phoneVerified' = [phoneVerified EXCEPT ![u] = TRUE]
  /\ To(d, "issueTokens", u, TRUE)
  /\ UNCHANGED <<blacklisted, account, proof, sessions, sockets>>

ExpireProof(d) ==
  /\ d \in proof
  /\ proof' = proof \ {d}
  /\ UNCHANGED <<blacklisted, accountVars, sessions, sockets, handler>>

-----------------------------------------------------------------------------
(* Registration, deletion, the blacklist. *)

\* register's checks: the number is free, allowed, and proven if claimed to be.
Register(d, proven) ==
  /\ At(d, "idle")
  /\ WithPhone = {} /\ ~blacklisted
  /\ proven => d \in proof
  /\ To(d, "insert", NoAccount, proven)
  /\ UNCHANGED <<blacklisted, accountVars, proof, sessions, sockets>>

\* The INSERT; an account that came first makes it a conflict.
InsertUser(d, u) ==
  /\ At(d, "insert") /\ account[u] = "none" /\ WithPhone = {}
  /\ account'       = [account EXCEPT ![u] = "live"]
  /\ phoneVerified' = [phoneVerified EXCEPT ![u] = handler[d].pv]
  /\ To(d, "issueTokens", u, handler[d].pv)
  /\ UNCHANGED <<blacklisted, proof, sessions, sockets>>

InsertRefused(d) ==
  /\ At(d, "insert") /\ WithPhone # {}
  /\ handler' = [handler EXCEPT ![d] = Idle]
  /\ UNCHANGED <<blacklisted, accountVars, proof, sessions, sockets>>

\* DELETE /users/me behind AuthGuard; an administrator needs no session.
Delete(u) ==
  /\ account[u] = "live"
  /\ account' = [account EXCEPT ![u] = "deleted"]
  /\ UNCHANGED <<blacklisted, phoneVerified, proof, sessions, sockets, handler>>

Blacklist ==
  /\ blacklisted' = ~blacklisted
  /\ UNCHANGED <<accountVars, proof, sessions, sockets, handler>>

\* The process stops: handlers are gone, with whatever they had yet to answer,
\* and every socket is closed.
Crash ==
  /\ handler' = [d \in Devices |-> Idle]
  /\ sockets' = {}
  /\ UNCHANGED <<blacklisted, accountVars, proof, sessions>>

Next ==
  \/ \E d \in Devices :
       \/ FindUser(d) \/ VerifyPhone(d) \/ ExpireProof(d) \/ Refresh(d) \/ IssueTokens(d)
       \/ \E proven \in BOOLEAN : Register(d, proven)
       \/ \E u \in Accounts : InsertUser(d, u)
       \/ InsertRefused(d)
  \/ \E s \in Session : Handshake(s) \/ Disconnect(s)
  \/ \E u \in Accounts : Delete(u)
  \/ Blacklist
  \/ Crash

Spec == Init /\ [][Next]_vars

-----------------------------------------------------------------------------
TypeOK ==
  /\ blacklisted   \in BOOLEAN
  /\ account       \in [Accounts -> {"none", "live", "deleted"}]
  /\ phoneVerified \in [Accounts -> BOOLEAN]
  /\ proof         \subseteq Owners
  /\ sessions      \subseteq Session
  /\ sockets       \subseteq sessions
  /\ handler       \in [Devices -> [step : {"idle", "verify", "insert", "issueTokens"},
                                    account : Accounts \cup {NoAccount}, pv : BOOLEAN]]

\* A number has one account.
OneAccount == Cardinality(WithPhone) <= 1

(***************************************************************************)
(* "A client registers without OTP, so whoever typed a number they don't   *)
(* own must lose that session once the real owner verifies it"             *)
(* (tokens.service.ts:17-19), where AuthGuard and refresh judge: no token  *)
(* pair, refreshed or late, of another device is accepted there for an     *)
(* account whose number is proven, nor for an account the number passed on *)
(* to.  What the other ways in keep of this is less: a socket of another   *)
(* device was opened with a pair stamped before the proof                  *)
(* (matching.gateway.ts:197-229), and GET /users/lookup answers a token    *)
(* with its own account as long as that lives (users.controller.ts:58-78). *)
(***************************************************************************)
VerifiedSessionIsOwners ==
  /\ OneAccount
  /\ \A s \in sessions : Accepted(s) /\ phoneVerified[s.account] => s.device \in Owners
  /\ \A s \in sockets : s.pv => s.device \in Owners
  /\ \A s \in sessions : account[s.account] = "live" => LookedUpBy(s) = {s.account}
=============================================================================
