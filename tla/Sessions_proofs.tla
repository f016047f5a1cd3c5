---------------------------- MODULE Sessions_proofs ----------------------------
(***************************************************************************)
(* Type correctness of Sessions, and that whoever registers a number       *)
(* without owning it loses the session once the owner proves it, for any   *)
(* number of devices and of accounts.                                      *)
(*                                                                         *)
(* VerifiedSessionIsOwners speaks of sessions that are accepted now; it is *)
(* not inductive, since a handler may still hold the stamp of the session  *)
(* it is about to issue.  Stamped says what every stamp, issued or held,   *)
(* is worth: whoever holds one that reads "verified" receives the number's *)
(* messages.  OnePhone is OneAccount without the counting.                 *)
(***************************************************************************)
EXTENDS Sessions, FiniteSetTheorems, TLAPS

HandlerOK ==
  \A d \in Devices : handler[d].step \in {"verify", "issueTokens"}
                       => handler[d].account \in Accounts

OnePhone == \A u, v \in WithPhone : u = v

Stamped ==
  /\ \A s \in sessions : s.pv => s.device \in Owners
  /\ \A d \in Devices : handler[d].pv \/ At(d, "verify") => d \in Owners

IInv == TypeOK /\ HandlerOK /\ OnePhone /\ Stamped

\* What a token pair is made of is a session: IssueTokens stamps the device
\* that asked.
LEMMA NewSession ==
  ASSUME IInv, NEW d \in Devices, At(d, "issueTokens")
  PROVE  [account |-> handler[d].account, pv |-> handler[d].pv, device |-> d] \in Session
BY DEF IInv, TypeOK, HandlerOK, At, Session

\* No account, no handler, no session: the initial state.
LEMMA InitIInv == ASSUME SessionConstants, Init PROVE IInv
BY DEF SessionConstants, Init, IInv, TypeOK, HandlerOK, OnePhone, Stamped, WithPhone,
       At, Idle, Session

\* Every handler's step, every crash and every deletion keeps the invariant.
LEMMA StepIInv == ASSUME SessionConstants, IInv, [Next]_vars PROVE IInv'
<1> USE DEF IInv
<1>1. ASSUME NEW d \in Devices, FindUser(d) PROVE IInv'
  <2>1. CASE WithPhone = {} /\ proof' = proof \cup {d} /\ UNCHANGED handler
    BY <1>1, <2>1 DEF FindUser, CheckVerification, accountVars, TypeOK, HandlerOK,
                      OnePhone, Stamped, WithPhone, At
  <2>2. CASE \E u \in WithPhone :
                /\ IF phoneVerified[u] THEN To(d, "issueTokens", u, TRUE)
                   ELSE To(d, "verify", u, FALSE)
                /\ UNCHANGED proof
    <3>1. PICK u \in WithPhone : /\ IF phoneVerified[u] THEN To(d, "issueTokens", u, TRUE)
                                    ELSE To(d, "verify", u, FALSE)
                                 /\ UNCHANGED proof
      BY <2>2
    <3>2. /\ u \in Accounts /\ d \in Owners
          /\ UNCHANGED <<blacklisted, account, phoneVerified, sessions, sockets, proof>>
      BY <1>1, <3>1 DEF FindUser, CheckVerification, accountVars, WithPhone
    <3>3. PICK step \in {"issueTokens", "verify"}, pv \in BOOLEAN : To(d, step, u, pv)
      BY <3>1
    <3>4. TypeOK' /\ HandlerOK'
      BY <3>2, <3>3 DEF To, TypeOK, HandlerOK
    <3>5. OnePhone'
      BY <3>2 DEF OnePhone, WithPhone
    <3>6. Stamped'
      BY <3>2, <3>3 DEF To, TypeOK, Stamped, At
    <3> QED BY <3>4, <3>5, <3>6
  <2> QED BY <1>1, <2>1, <2>2 DEF FindUser
<1>2. ASSUME NEW d \in Devices, VerifyPhone(d) PROVE IInv'
  BY <1>2 DEF VerifyPhone, To, TypeOK, HandlerOK, OnePhone, Stamped, WithPhone, At
<1>3. ASSUME NEW d \in Devices, ExpireProof(d) PROVE IInv'
  BY <1>3 DEF ExpireProof, accountVars, TypeOK, HandlerOK, OnePhone, Stamped, WithPhone, At
<1>4. ASSUME NEW d \in Devices, Refresh(d) PROVE IInv'
  <2>1. PICK s \in sessions : /\ s.device = d /\ Accepted(s)
                              /\ To(d, "issueTokens", s.account, phoneVerified[s.account])
    BY <1>4 DEF Refresh
  <2>2. s.account \in Accounts /\ phoneVerified[s.account] \in BOOLEAN
    BY DEF TypeOK, Session
  <2>3. phoneVerified[s.account] => d \in Owners
    BY <2>1 DEF Accepted, Stamped
  <2> QED BY <1>4, <2>1, <2>2, <2>3 DEF Refresh, accountVars, To, TypeOK, HandlerOK,
                                        OnePhone, Stamped, WithPhone, At
<1>5. ASSUME NEW d \in Devices, IssueTokens(d) PROVE IInv'
  <2> DEFINE new == [account |-> handler[d].account, pv |-> handler[d].pv, device |-> d]
  <2>1. new \in Session
    BY <1>5, NewSession DEF IssueTokens
  <2>2. new.pv => new.device \in Owners
    BY DEF Stamped
  <2> HIDE DEF new
  <2>3. sessions' = sessions \cup {new} /\ handler' = [handler EXCEPT ![d] = Idle]
    BY <1>5 DEF IssueTokens, new
  <2> QED BY <1>5, <2>1, <2>2, <2>3 DEF IssueTokens, accountVars, Idle, TypeOK,
                                   HandlerOK, OnePhone, Stamped, WithPhone, At
<1>6. ASSUME NEW d \in Devices, NEW proven \in BOOLEAN, Register(d, proven) PROVE IInv'
  BY <1>6 DEF Register, accountVars, To, TypeOK, HandlerOK, OnePhone, Stamped, WithPhone, At
<1>7. ASSUME NEW d \in Devices, NEW u \in Accounts, InsertUser(d, u) PROVE IInv'
  <2>1. handler[d].pv \in BOOLEAN /\ (handler[d].pv => d \in Owners)
    BY DEF TypeOK, Stamped
  <2>2. OnePhone'
    BY <1>7 DEF InsertUser, TypeOK, OnePhone, WithPhone
  <2> QED BY <1>7, <2>1, <2>2 DEF InsertUser, To, TypeOK, HandlerOK, Stamped, At
<1>8. ASSUME NEW d \in Devices, InsertRefused(d) PROVE IInv'
  BY <1>8 DEF InsertRefused, accountVars, Idle, TypeOK, HandlerOK, OnePhone, Stamped,
              WithPhone, At
<1>9. ASSUME NEW u \in Accounts, Delete(u) PROVE IInv'
  BY <1>9 DEF Delete, TypeOK, HandlerOK, OnePhone, Stamped, WithPhone, At
<1>10. CASE Blacklist
  BY <1>10 DEF Blacklist, accountVars, TypeOK, HandlerOK, OnePhone, Stamped, WithPhone, At
<1>11. CASE Crash
  BY <1>11 DEF Crash, Idle, accountVars, TypeOK, HandlerOK, OnePhone, Stamped, WithPhone, At
<1>12. ASSUME NEW s \in Session, Handshake(s) \/ Disconnect(s) PROVE IInv'
  BY <1>12 DEF Handshake, Disconnect, accountVars, TypeOK, HandlerOK, OnePhone, Stamped,
               WithPhone, At
<1>13. CASE UNCHANGED vars
  BY <1>13 DEF vars, accountVars, TypeOK, HandlerOK, OnePhone, Stamped, WithPhone, At
<1> QED BY <1>1, <1>2, <1>3, <1>4, <1>5, <1>6, <1>7, <1>8, <1>9, <1>10, <1>11, <1>12,
        <1>13
        DEF Next

LEMMA IInvHolds == Spec => []IInv
<1>1. Init => IInv
  BY InitIInv, SessionConstants
<1>2. IInv /\ [Next]_vars => IInv'
  BY StepIInv, SessionConstants
<1> QED BY <1>1, <1>2, PTL DEF Spec

(***************************************************************************)
(* Every variable keeps its type; in particular only devices that receive  *)
(* the number's messages hold a registration token                         *)
(* (TokensService.issueRegistrationToken after an approved code).          *)
(***************************************************************************)
THEOREM TypeCorrect == Spec => []TypeOK
<1>1. IInv => TypeOK
  BY DEF IInv
<1> QED BY <1>1, IInvHolds, PTL

(***************************************************************************)
(* "whoever typed a number they don't own must lose that session once the  *)
(* real owner verifies it" (tokens.service.ts:17-19): a session AuthGuard  *)
(* or refresh accepts for an account whose number is proven is on a device *)
(* that receives the number's messages, and the number has one account.    *)
(* Of sockets, which the handshake does not judge that way, it says that   *)
(* those of other devices carry the stamp of before the proof; of the      *)
(* lookup, that it finds the token's account as long as it lives.          *)
(***************************************************************************)
THEOREM OwnerRegainsTheNumber == Spec => []VerifiedSessionIsOwners
<1>1. ASSUME IInv PROVE VerifiedSessionIsOwners
  <2>1. OneAccount
    <3>1. CASE WithPhone = {}
      BY <3>1, FS_EmptySet DEF OneAccount
    <3>2. CASE WithPhone # {}
      <4>1. PICK u : WithPhone = {u}
        BY <1>1, <3>2 DEF IInv, OnePhone
      <4> QED BY <4>1, FS_Singleton DEF OneAccount
    <3> QED BY <3>1, <3>2
  <2>2. \A s \in sessions : Accepted(s) /\ phoneVerified[s.account] => s.device \in Owners
    BY <1>1 DEF IInv, Stamped, Accepted
  <2>3. \A s \in sockets : s.pv => s.device \in Owners
    BY <1>1 DEF IInv, TypeOK, Stamped
  <2>4. \A s \in sessions : account[s.account] = "live" => LookedUpBy(s) = {s.account}
    BY <1>1 DEF IInv, TypeOK, OnePhone, Session, WithPhone, LookedUpBy
  <2> QED BY <2>1, <2>2, <2>3, <2>4 DEF VerifiedSessionIsOwners
<1>2. IInv => VerifiedSessionIsOwners
  BY <1>1
<1> QED BY <1>2, IInvHolds, PTL
=============================================================================
