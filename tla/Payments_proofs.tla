---------------------------- MODULE Payments_proofs ----------------------------
(***************************************************************************)
(* Subscriptions, for any sets of payments and users, any prices on sale   *)
(* and any number of webhook calls and crashes: the types, that what is    *)
(* paid is enjoyed, that no pending payment is forgotten, and that         *)
(* Payments implements PurchaseLifecycle.                                  *)
(*                                                                         *)
(* PaidIsActivated and NewestPlanWins speak of payments that are through.  *)
(* Handlers says what a handler between the flip and the profile UPDATE    *)
(* still knows: its payment succeeded and has changed nothing yet, and it  *)
(* is the last of its user unless a second one overlapped it.              *)
(***************************************************************************)
EXTENDS Payments, SequenceTheorems, TLAPS

\* The last payment of a user that succeeded.
Newest(u) == paid[u][Len(paid[u])]

\* Nothing is under way for a row that was never inserted.
RowsExist ==
  /\ \A p \in charging \cup timers : status[p] # "none"
  /\ \A w \in webhooks : status[w.payment] # "none"

\* A row that stands for a payment under way, or cut short, succeeded and has
\* not changed the profile.
Handlers ==
  /\ \A p \in applying \cup interrupted : status[p] = "success" /\ activations[p] = 0
  /\ applying \cap interrupted = {}
  /\ \A p \in Payments : activations[p] = 1 => status[p] = "success"
  /\ \A p \in Payments : activations[p] \in {0, 1}

\* The history of each user holds their own successes.
PaidOnes ==
  \A u \in Users : \A i \in 1 .. Len(paid[u]) :
    PayerOf[paid[u][i]] = u /\ status[paid[u][i]] = "success"

\* Without an overlap the handler under way is the newest payment's.
OneAtATime ==
  \A p \in applying :
    PayerOf[p] \in overlapped \/ (paid[PayerOf[p]] # <<>> /\ p = Newest(PayerOf[p]))

IInv == TypeOK /\ RowsExist /\ Handlers /\ PaidOnes /\ OneAtATime /\ PaidPlanIsEnjoyed

USE DEF IInv

\* Every plan on sale has an amount in the currency of a country with a
\* payment channel.
LEMMA PriceType ==
  ASSUME NEW t \in SubscriptionTier, NEW c \in DOMAIN CURRENCY_BY_COUNTRY
  PROVE  GetSubscriptionPrice(t, c) \in [amount : Nat, currency : Currency]
<1>1. c \in {"CI", "LB"}
  BY DEF CURRENCY_BY_COUNTRY
<1>2. PICK cur \in Currency : CURRENCY_BY_COUNTRY[c] = cur
  BY <1>1 DEF CURRENCY_BY_COUNTRY, Currency
<1>3. SUBSCRIPTION_TIER_PRICE[cur][t] \in Nat
  BY <1>2 DEF SUBSCRIPTION_TIER_PRICE, Currency, SubscriptionTier
<1> QED BY <1>2, <1>3 DEF GetSubscriptionPrice

\* A payment added to a user's history becomes the newest and hides no other.
LEMMA Appended ==
  ASSUME TypeOK, NEW p \in Payments, PayerOf \in [Payments -> Users],
         paid' = [paid EXCEPT ![PayerOf[p]] = Append(@, p)]
  PROVE  /\ paid' \in [Users -> Seq(Payments)]
         /\ \A u \in Users \ {PayerOf[p]} : paid'[u] = paid[u]
         /\ paid'[PayerOf[p]] # <<>>
         /\ Len(paid'[PayerOf[p]]) = Len(paid[PayerOf[p]]) + 1
         /\ paid'[PayerOf[p]][Len(paid'[PayerOf[p]])] = p
         /\ \A i \in 1 .. Len(paid[PayerOf[p]]) :
               paid'[PayerOf[p]][i] = paid[PayerOf[p]][i]
<1> DEFINE u == PayerOf[p]
<1>1. u \in Users /\ paid[u] \in Seq(Payments) /\ paid'[u] = Append(paid[u], p)
  BY DEF TypeOK
<1>2. /\ Append(paid[u], p) \in Seq(Payments)
      /\ Append(paid[u], p) # <<>>
      /\ Len(Append(paid[u], p)) = Len(paid[u]) + 1
      /\ Append(paid[u], p)[Len(paid[u]) + 1] = p
      /\ \A i \in 1 .. Len(paid[u]) : Append(paid[u], p)[i] = paid[u][i]
  BY <1>1, AppendProperties
<1> QED BY <1>1, <1>2 DEF TypeOK

\* Nothing bought yet.
LEMMA InitIInv == ASSUME PaymentConstants, Init PROVE IInv
<1>1. NoPrice \in [amount : Nat, currency : Currency]
  BY DEF NoPrice, Currency
<1>2. TypeOK
  BY <1>1 DEF PaymentConstants, Init, TypeOK, SubscriptionTier
<1>3. RowsExist /\ Handlers /\ PaidOnes /\ OneAtATime
  BY DEF Init, RowsExist, Handlers, PaidOnes, OneAtATime
<1>4. PaidPlanIsEnjoyed
  BY DEF PaymentConstants, Init, PaidPlanIsEnjoyed, PaidIsActivated, NewestPlanWins
<1> QED BY <1>2, <1>3, <1>4

\* A step that leaves the table's verdicts, the profiles and the handlers
\* alone keeps everything but the types and the calls in flight.
LEMMA SameProfiles ==
  ASSUME IInv,
         UNCHANGED <<status, tier, applying, profileTier, activations, paid,
                     overlapped, interrupted>>
  PROVE  Handlers' /\ PaidOnes' /\ OneAtATime' /\ PaidPlanIsEnjoyed'
BY DEF Handlers, PaidOnes, OneAtATime, Newest, PaidPlanIsEnjoyed, PaidIsActivated,
       NewestPlanWins

\* Buying a plan.
LEMMA SubscribeIInv ==
  ASSUME PaymentConstants, IInv, NEW p \in Payments, NEW t \in TiersOnSale, Subscribe(p, t)
  PROVE  IInv'
<1>1. TypeOK'
  <2>1. t \in SubscriptionTier
    BY DEF PaymentConstants, SubscriptionTier
  <2>2. GetSubscriptionPrice(t, CountryOf[PayerOf[p]]) \in [amount : Nat, currency : Currency]
    BY <2>1, PriceType DEF Subscribe
  <2> QED BY <2>1, <2>2 DEF Subscribe, historyVars, TypeOK
<1>2. /\ \A q \in Payments \ {p} : status'[q] = status[q] /\ tier'[q] = tier[q]
      /\ status[p] = "none" /\ status'[p] = "pending"
      /\ UNCHANGED <<timers, webhooks, applying, profileTier, activations, paid,
                     overlapped, interrupted>>
      /\ charging' = charging \cup {p}
  BY DEF Subscribe, historyVars, TypeOK
<1>3. RowsExist'
  BY <1>2 DEF RowsExist, TypeOK, Calls
<1>4. Handlers'
  BY <1>2 DEF Handlers, TypeOK
<1>5. PaidOnes'
  <2> SUFFICES ASSUME NEW u \in Users, NEW i \in 1 .. Len(paid[u])
               PROVE  PayerOf[paid[u][i]] = u /\ status'[paid[u][i]] = "success"
    BY <1>2 DEF PaidOnes
  <2>1. paid[u][i] \in Payments
    BY DEF TypeOK
  <2> QED BY <1>2, <2>1 DEF PaidOnes
<1>6. OneAtATime'
  BY <1>2 DEF OneAtATime, Newest
<1>7. PaidIsActivated'
  BY <1>2 DEF PaidPlanIsEnjoyed, PaidIsActivated, Handlers
<1>8. NewestPlanWins'
  <2> SUFFICES ASSUME NEW u \in Craftsmen \ overlapped, paid[u] # <<>>,
                      {q \in Payments : PayerOf[q] = u} \cap (applying \cup interrupted) = {}
               PROVE  profileTier[u] = tier'[Newest(u)]
    BY <1>2 DEF NewestPlanWins, Newest
  <2>1. u \in Users /\ paid[u] \in Seq(Payments)
    BY DEF PaymentConstants, TypeOK
  <2>2. Len(paid[u]) \in 1 .. Len(paid[u])
    BY <2>1, EmptySeq
  <2>3. Newest(u) \in Payments /\ status[Newest(u)] = "success"
    BY <2>1, <2>2 DEF PaidOnes, Newest
  <2>4. tier'[Newest(u)] = tier[Newest(u)]
    BY <1>2, <2>3
  <2> QED BY <2>4 DEF PaidPlanIsEnjoyed, NewestPlanWins, Newest
<1> QED BY <1>1, <1>3, <1>4, <1>5, <1>6, <1>7, <1>8 DEF PaidPlanIsEnjoyed

\* The webhook's compare-and-swap.
LEMMA ResolveIInv ==
  ASSUME PaymentConstants, IInv, NEW w \in webhooks, ResolvePayment(w)
  PROVE  IInv'
<1> DEFINE p == w.payment
           u == PayerOf[p]
<1>0. /\ p \in Payments /\ u \in Users /\ PayerOf \in [Payments -> Users]
      /\ w.verdict \in {"success", "failed"}
  BY DEF PaymentConstants, TypeOK, Calls, Verdicts
<1>1. /\ UNCHANGED <<tier, price, charging, timers, byHand, profileTier,
                     activations, dropped, interrupted, crashes>>
      /\ webhooks' = webhooks \ {w}
  BY DEF ResolvePayment
<1>2. CASE status[p] # "pending"
  <2>1. UNCHANGED <<status, applying, paid, overlapped>>
    BY <1>2 DEF ResolvePayment
  <2>2. TypeOK' /\ RowsExist'
    BY <1>1, <2>1 DEF TypeOK, RowsExist
  <2> QED BY <1>1, <2>1, <2>2, SameProfiles
<1>3. CASE status[p] = "pending" /\ w.verdict = "failed"
  <2>1. status' = [status EXCEPT ![p] = "failed"] /\ UNCHANGED <<applying, paid, overlapped>>
    BY <1>3 DEF ResolvePayment
  <2>2. /\ \A q \in Payments \ {p} : status'[q] = status[q]
        /\ status[p] = "pending" /\ status'[p] = "failed"
    BY <1>0, <1>3, <2>1 DEF TypeOK
  <2>3. TypeOK'
    BY <1>0, <1>1, <2>1 DEF TypeOK
  <2>4. RowsExist'
    BY <1>1, <2>2 DEF RowsExist, TypeOK, Calls
  <2>5. Handlers'
    BY <1>1, <2>1, <2>2 DEF Handlers, TypeOK
  <2>6. PaidOnes'
    <3> SUFFICES ASSUME NEW v \in Users, NEW i \in 1 .. Len(paid[v])
                 PROVE  PayerOf[paid[v][i]] = v /\ status'[paid[v][i]] = "success"
      BY <2>1 DEF PaidOnes
    <3>1. paid[v][i] \in Payments
      BY DEF TypeOK
    <3> QED BY <2>2, <3>1 DEF PaidOnes
  <2>7. OneAtATime'
    BY <2>1 DEF OneAtATime, Newest
  <2>8. PaidPlanIsEnjoyed'
    BY <1>1, <2>1, <2>2 DEF PaidPlanIsEnjoyed, PaidIsActivated, NewestPlanWins, Handlers
  <2> QED BY <2>3, <2>4, <2>5, <2>6, <2>7, <2>8
<1>4. CASE status[p] = "pending" /\ w.verdict = "success"
  <2>1. /\ status' = [status EXCEPT ![p] = "success"]
        /\ applying' = applying \cup {p}
        /\ paid' = [paid EXCEPT ![PayerOf[p]] = Append(@, p)]
        /\ overlapped' = overlapped \cup ({u} \cap {PayerOf[q] : q \in applying})
    BY <1>4 DEF ResolvePayment
  <2>2. /\ \A q \in Payments \ {p} : status'[q] = status[q]
        /\ status[p] = "pending" /\ status'[p] = "success"
    BY <1>0, <1>4, <2>1 DEF TypeOK
  <2>3. /\ paid' \in [Users -> Seq(Payments)]
        /\ \A v \in Users \ {u} : paid'[v] = paid[v]
        /\ paid'[u] # <<>>
        /\ Len(paid'[u]) = Len(paid[u]) + 1
        /\ paid'[u][Len(paid'[u])] = p
        /\ \A i \in 1 .. Len(paid[u]) : paid'[u][i] = paid[u][i]
    BY <1>0, <2>1, Appended
  <2> HIDE DEF p, u
  <2>4. TypeOK'
    <3>1. status' \in [Payments -> {"none", "pending", "success", "failed"}]
      BY <1>0, <2>1 DEF TypeOK
    <3> QED BY <1>0, <1>1, <2>1, <2>3, <3>1 DEF TypeOK
  <2>5. RowsExist'
    BY <1>1, <2>2 DEF RowsExist, TypeOK, Calls
  <2>6. p \notin applying \cup interrupted /\ activations[p] = 0
    BY <1>0, <2>2 DEF Handlers
  <2>7. Handlers'
    BY <1>0, <1>1, <2>1, <2>2, <2>6 DEF Handlers, TypeOK
  <2>8. PaidOnes'
    <3> SUFFICES ASSUME NEW v \in Users, NEW i \in 1 .. Len(paid'[v])
                 PROVE  PayerOf[paid'[v][i]] = v /\ status'[paid'[v][i]] = "success"
      BY DEF PaidOnes
    <3>1. CASE v # u
      <4>1. paid'[v] = paid[v] /\ paid[v][i] \in Payments
        BY <2>3, <3>1 DEF TypeOK
      <4> QED BY <2>2, <4>1 DEF PaidOnes
    <3>2. CASE v = u /\ i = Len(paid'[u])
      BY <2>2, <2>3, <3>2 DEF u
    <3>3. CASE v = u /\ i # Len(paid'[u])
      <4>1. Len(paid[u]) \in Nat
        BY <1>0 DEF TypeOK
      <4>2. i \in 1 .. Len(paid[u])
        BY <2>3, <3>3, <4>1
      <4>3. paid'[u][i] = paid[u][i] /\ paid[u][i] \in Payments
        BY <1>0, <2>3, <4>2 DEF TypeOK
      <4> QED BY <1>0, <2>2, <3>3, <4>2, <4>3 DEF PaidOnes
    <3> QED BY <3>1, <3>2, <3>3
  <2>9. OneAtATime'
    <3> SUFFICES ASSUME NEW q \in applying'
                 PROVE  \/ PayerOf[q] \in overlapped'
                        \/ paid'[PayerOf[q]] # <<>> /\ q = Newest(PayerOf[q])'
      BY DEF OneAtATime
    <3>1. CASE q = p
      BY <2>3, <3>1 DEF Newest, u
    <3>2. CASE q # p /\ PayerOf[q] = u
      BY <2>1, <3>2
    <3>3. CASE q # p /\ PayerOf[q] # u
      <4>1. q \in applying /\ q \in Payments /\ PayerOf[q] \in Users
        BY <1>0, <2>1, <3>3 DEF TypeOK
      <4>2. paid'[PayerOf[q]] = paid[PayerOf[q]]
        BY <2>3, <3>3, <4>1
      <4> QED BY <2>1, <4>1, <4>2 DEF OneAtATime, Newest
    <3> QED BY <3>1, <3>2, <3>3
  <2>10. PaidIsActivated'
    BY <1>1, <2>1, <2>2, <2>6 DEF PaidPlanIsEnjoyed, PaidIsActivated
  <2>11. NewestPlanWins'
    <3> SUFFICES ASSUME NEW v \in Craftsmen \ overlapped', paid'[v] # <<>>,
                   {q \in Payments : PayerOf[q] = v} \cap (applying' \cup interrupted') = {}
                 PROVE  profileTier'[v] = tier'[Newest(v)']
      BY DEF NewestPlanWins, Newest
    <3>1. v # u
      BY <1>0, <2>1 DEF u
    <3>2. v \in Users /\ paid'[v] = paid[v]
      BY <2>3, <3>1 DEF PaymentConstants
    <3>3. /\ v \in Craftsmen \ overlapped
          /\ {q \in Payments : PayerOf[q] = v} \cap (applying \cup interrupted) = {}
      BY <1>1, <2>1
    <3> QED BY <1>1, <3>2, <3>3 DEF PaidPlanIsEnjoyed, NewestPlanWins, Newest
  <2> QED BY <2>4, <2>5, <2>7, <2>8, <2>9, <2>10, <2>11 DEF PaidPlanIsEnjoyed
<1> QED BY <1>0, <1>2, <1>3, <1>4

\* The profile UPDATE.
LEMMA UpdateIInv ==
  ASSUME PaymentConstants, IInv, NEW p \in Payments, UpdateProfile(p)
  PROVE  IInv'
<1> DEFINE u == PayerOf[p]
<1>0. u \in Users /\ PayerOf \in [Payments -> Users]
  BY DEF PaymentConstants
<1>1. /\ UNCHANGED <<status, tier, price, charging, timers, webhooks, byHand, paid,
                     overlapped, dropped, interrupted, crashes>>
      /\ p \in applying /\ applying' = applying \ {p}
      /\ profileTier' = [profileTier EXCEPT ![u] = tier[p]]
      /\ activations' = [activations EXCEPT ![p] = @ + 1]
  BY DEF UpdateProfile, rowVars
<1>2. /\ status[p] = "success" /\ activations[p] = 0 /\ activations'[p] = 1
      /\ \A q \in Payments \ {p} : activations'[q] = activations[q]
  BY <1>1 DEF Handlers, TypeOK
<1>3. TypeOK'
  BY <1>0, <1>1 DEF TypeOK
<1>4. RowsExist'
  BY <1>1 DEF RowsExist
<1>5. Handlers'
  BY <1>1, <1>2 DEF Handlers, TypeOK
<1>6. PaidOnes'
  BY <1>1 DEF PaidOnes
<1>7. OneAtATime'
  BY <1>1 DEF OneAtATime, Newest
<1>8. PaidIsActivated'
  BY <1>1, <1>2 DEF PaidPlanIsEnjoyed, PaidIsActivated
<1>9. NewestPlanWins'
  <2> SUFFICES ASSUME NEW v \in Craftsmen \ overlapped, paid[v] # <<>>,
                 {q \in Payments : PayerOf[q] = v} \cap ((applying \ {p}) \cup interrupted) = {}
               PROVE  profileTier'[v] = tier[Newest(v)]
    BY <1>1 DEF NewestPlanWins, Newest
  <2>1. v \in Users
    BY DEF PaymentConstants
  <2>2. CASE v = u
    <3>1. profileTier'[v] = tier[p]
      BY <1>0, <1>1, <2>2 DEF TypeOK
    <3>2. p = Newest(v)
      BY <1>1, <2>2 DEF OneAtATime
    <3> QED BY <3>1, <3>2
  <2>3. CASE v # u
    <3>1. profileTier'[v] = profileTier[v]
      BY <1>0, <1>1, <2>1, <2>3 DEF TypeOK
    <3>2. {q \in Payments : PayerOf[q] = v} \cap (applying \cup interrupted) = {}
      BY <2>3
    <3> QED BY <3>1, <3>2 DEF PaidPlanIsEnjoyed, NewestPlanWins, Newest
  <2> QED BY <2>2, <2>3
<1> QED BY <1>3, <1>4, <1>5, <1>6, <1>7, <1>8, <1>9 DEF PaidPlanIsEnjoyed

\* Calls in flight are calls, and OwnCall names a payment.
LEMMA OwnCallType == ASSUME TypeOK, NEW w \in webhooks PROVE OwnCall(w) \subseteq Payments
BY DEF TypeOK, Calls, OwnCall

\* Every step keeps the invariant.
LEMMA StepIInv == ASSUME PaymentConstants, IInv, [Next]_paymentVars PROVE IInv'
<1>1. ASSUME NEW p \in Payments, NEW t \in TiersOnSale, Subscribe(p, t) PROVE IInv'
  BY <1>1, SubscribeIInv
<1>2. ASSUME NEW p \in Payments, NEW verdict \in Verdicts, NEW via \in Currency,
             CallByHand(p, verdict, via)
      PROVE  IInv'
  <2>1. /\ UNCHANGED <<status, tier, applying, profileTier, activations, paid,
                       overlapped, interrupted, price, charging, timers, dropped, crashes>>
        /\ status[p] # "none"
        /\ byHand < MaxByHand /\ byHand' = byHand + 1
        /\ webhooks' = webhooks \cup
                         {[payment |-> p, verdict |-> verdict, copy |-> byHand + 1,
                           via |-> via]}
    BY <1>2 DEF CallByHand, rowVars, historyVars
  <2>2. byHand + 1 \in 0 .. MaxByHand
    BY <2>1 DEF TypeOK, PaymentConstants
  <2>3. [payment |-> p, verdict |-> verdict, copy |-> byHand + 1, via |-> via] \in Calls
    BY <2>2 DEF Calls
  <2>4. TypeOK'
    BY <2>1, <2>2, <2>3 DEF TypeOK
  <2>5. RowsExist'
    BY <2>1 DEF RowsExist
  <2> QED BY <2>1, <2>4, <2>5, SameProfiles
<1>3. ASSUME NEW p \in Payments, RequestCharge(p) \/ SimulateApproval(p) PROVE IInv'
  <2>1. /\ UNCHANGED <<status, tier, applying, profileTier, activations, paid,
                       overlapped, interrupted, price, byHand, dropped, crashes>>
        /\ charging' \subseteq charging
        /\ timers' \subseteq timers \cup charging
        /\ webhooks' \subseteq webhooks \cup
                         {[payment |-> p, verdict |-> "success", copy |-> 0,
                           via |-> price[p].currency]}
        /\ p \in charging \cup timers
    BY <1>3 DEF RequestCharge, SimulateApproval, rowVars, historyVars
  <2>2. [payment |-> p, verdict |-> "success", copy |-> 0,
         via |-> price[p].currency] \in Calls
    BY DEF TypeOK, Calls, Verdicts, PaymentConstants
  <2>3. TypeOK'
    BY <2>1, <2>2 DEF TypeOK
  <2>4. RowsExist'
    BY <2>1 DEF RowsExist
  <2> QED BY <2>1, <2>3, <2>4, SameProfiles
<1>4. ASSUME NEW p \in Payments, UpdateProfile(p) PROVE IInv'
  BY <1>4, UpdateIInv
<1>5. ASSUME NEW w \in webhooks, LoseWebhook(w) \/ RefuseWebhook(w) PROVE IInv'
  <2>1. /\ UNCHANGED <<status, tier, applying, profileTier, activations, paid,
                       overlapped, interrupted, price, charging, timers, byHand, crashes>>
        /\ webhooks' = webhooks \ {w}
        /\ dropped' = dropped \cup OwnCall(w)
    BY <1>5 DEF LoseWebhook, RefuseWebhook, rowVars
  <2>2. TypeOK'
    BY <2>1, OwnCallType DEF TypeOK
  <2>3. RowsExist'
    BY <2>1 DEF RowsExist
  <2> QED BY <2>1, <2>2, <2>3, SameProfiles
<1>6. ASSUME NEW w \in webhooks, ResolvePayment(w) PROVE IInv'
  BY <1>6, ResolveIInv
<1>7. CASE Crash
  <2>1. /\ UNCHANGED <<status, tier, price, byHand, profileTier, activations, paid, overlapped>>
        /\ charging' = {} /\ timers' = {} /\ webhooks' = {} /\ applying' = {}
        /\ interrupted' = interrupted \cup applying
        /\ dropped' = dropped \cup charging \cup timers \cup UNION {OwnCall(w) : w \in webhooks}
        /\ crashes < MaxCrashes /\ crashes' = crashes + 1
    BY <1>7 DEF Crash, rowVars
  <2>2. TypeOK'
    <3>1. UNION {OwnCall(w) : w \in webhooks} \subseteq Payments
      BY OwnCallType
    <3>2. crashes' \in 0 .. MaxCrashes
      BY <2>1 DEF TypeOK, PaymentConstants
    <3>3. dropped' \subseteq Payments
      BY <2>1, <3>1 DEF TypeOK
    <3> QED BY <2>1, <3>2, <3>3 DEF TypeOK
  <2>3. RowsExist' /\ Handlers' /\ PaidOnes' /\ OneAtATime'
    BY <2>1 DEF RowsExist, Handlers, PaidOnes, OneAtATime
  <2>4. PaidPlanIsEnjoyed'
    BY <2>1 DEF PaidPlanIsEnjoyed, PaidIsActivated, NewestPlanWins
  <2> QED BY <2>2, <2>3, <2>4
<1>8. CASE UNCHANGED paymentVars
  <2>1. UNCHANGED <<status, tier, applying, profileTier, activations, paid, overlapped,
                    interrupted, price, charging, timers, webhooks, byHand, dropped, crashes>>
    BY <1>8 DEF paymentVars, rowVars, inFlight, historyVars
  <2>2. TypeOK' /\ RowsExist'
    BY <2>1 DEF TypeOK, RowsExist
  <2> QED BY <2>1, <2>2, SameProfiles
<1> QED BY <1>1, <1>2, <1>3, <1>4, <1>5, <1>6, <1>7, <1>8 DEF Next

LEMMA IInvHolds == SafeSpec => []IInv
<1> USE PaymentConstants
<1>1. Init => IInv
  BY InitIInv
<1>2. IInv /\ [Next]_paymentVars => IInv'
  BY StepIInv
<1> QED BY <1>1, <1>2, PTL DEF SafeSpec

\* Every variable keeps its type: each status is one the column has
\* (subscription-payment.entity.ts) and each price one of the table's.
THEOREM TypeCorrect == SafeSpec => []TypeOK
<1>1. IInv => TypeOK
  OBVIOUS
<1> QED BY <1>1, IInvHolds, PTL

(***************************************************************************)
(* What was paid for is enjoyed: a payment that succeeded changes the      *)
(* profile exactly once unless a crash comes between the flip and the      *)
(* UPDATE, and the newest payment's plan stands unless two were applied at *)
(* once (payments.service.ts:129-176).                                     *)
(***************************************************************************)
THEOREM PaidIsEnjoyed == SafeSpec => []PaidPlanIsEnjoyed
<1>1. IInv => PaidPlanIsEnjoyed
  OBVIOUS
<1> QED BY <1>1, IInvHolds, PTL

\* Each step hands a pending payment on to the next stage of its charge, to its
\* verdict, or to the lost ones.
LEMMA UnderWayStep ==
  ASSUME PaymentConstants, IInv, PendingIsUnderWay, [Next]_paymentVars
  PROVE  PendingIsUnderWay'
<1> DEFINE Own(W) == UNION {OwnCall(w) : w \in W}
<1> SUFFICES ASSUME NEW p \in Payments, status'[p] = "pending"
             PROVE  p \in charging' \cup timers' \cup dropped' \cup Own(webhooks')
  BY DEF PendingIsUnderWay, OwnCall
<1>1. status[p] = "pending" => p \in charging \cup timers \cup dropped \cup Own(webhooks)
  BY DEF PendingIsUnderWay
<1>2. ASSUME NEW q \in Payments, NEW t \in TiersOnSale, Subscribe(q, t)
      PROVE  p \in charging' \cup timers' \cup dropped' \cup Own(webhooks')
  <2>1. CASE p = q
    BY <1>2, <2>1 DEF Subscribe
  <2>2. CASE p # q
    BY <1>1, <1>2, <2>2 DEF Subscribe, historyVars, TypeOK
  <2> QED BY <2>1, <2>2
<1>3. ASSUME NEW q \in Payments,
             \/ \E verdict \in Verdicts, via \in Currency : CallByHand(q, verdict, via)
             \/ RequestCharge(q) \/ UpdateProfile(q)
      PROVE  p \in charging' \cup timers' \cup dropped' \cup Own(webhooks')
  <2>1. /\ status' = status /\ dropped' = dropped /\ webhooks \subseteq webhooks'
        /\ charging \cup timers \subseteq charging' \cup timers'
    BY <1>3 DEF CallByHand, RequestCharge, UpdateProfile, rowVars, historyVars
  <2>2. Own(webhooks) \subseteq Own(webhooks')
    BY <2>1
  <2> QED BY <1>1, <2>1, <2>2
<1>4. ASSUME NEW q \in Payments, SimulateApproval(q)
      PROVE  p \in charging' \cup timers' \cup dropped' \cup Own(webhooks')
  <2> DEFINE own == [payment |-> q, verdict |-> "success", copy |-> 0,
                     via |-> price[q].currency]
  <2>1. /\ status' = status /\ dropped' = dropped /\ charging' = charging
        /\ timers' = timers \ {q} /\ webhooks' = webhooks \cup {own}
    BY <1>4 DEF SimulateApproval, rowVars, historyVars
  <2>2. q \in OwnCall(own)
    BY DEF OwnCall
  <2>3. q \in Own(webhooks') /\ Own(webhooks) \subseteq Own(webhooks')
    BY <2>1, <2>2
  <2> QED BY <1>1, <2>1, <2>3
<1>5. ASSUME NEW w \in webhooks, LoseWebhook(w) \/ RefuseWebhook(w)
      PROVE  p \in charging' \cup timers' \cup dropped' \cup Own(webhooks')
  <2>1. /\ status' = status /\ charging' = charging /\ timers' = timers
        /\ webhooks' = webhooks \ {w} /\ dropped' = dropped \cup OwnCall(w)
    BY <1>5 DEF LoseWebhook, RefuseWebhook, rowVars
  <2>2. Own(webhooks) \subseteq Own(webhooks') \cup OwnCall(w)
    BY <2>1
  <2> QED BY <1>1, <2>1, <2>2
<1>6. ASSUME NEW w \in webhooks, ResolvePayment(w)
      PROVE  p \in charging' \cup timers' \cup dropped' \cup Own(webhooks')
  <2>1. /\ UNCHANGED <<charging, timers, dropped>> /\ webhooks' = webhooks \ {w}
        /\ status' = IF status[w.payment] = "pending"
                     THEN [status EXCEPT ![w.payment] = w.verdict] ELSE status
    BY <1>6 DEF ResolvePayment
  <2>2. w.payment \in Payments /\ w.verdict # "pending"
    BY DEF TypeOK, Calls, Verdicts
  <2>3. p # w.payment /\ status[p] = "pending"
    BY <2>1, <2>2 DEF TypeOK
  <2>4. p \notin OwnCall(w)
    BY <2>3 DEF OwnCall
  <2>5. Own(webhooks) \subseteq Own(webhooks') \cup OwnCall(w)
    BY <2>1
  <2> QED BY <1>1, <2>1, <2>3, <2>4, <2>5
<1>7. CASE Crash
  BY <1>1, <1>7 DEF Crash, rowVars
<1>8. CASE UNCHANGED paymentVars
  BY <1>1, <1>8 DEF paymentVars, rowVars, inFlight, historyVars
<1> QED BY <1>2, <1>3, <1>4, <1>5, <1>6, <1>7, <1>8 DEF Next

(***************************************************************************)
(* A pending payment is never forgotten: whatever the webhooks, crashes    *)
(* and losses, its own charge, timer or webhook call is ahead of it, or    *)
(* was lost (payments.service.ts:79-104).  With fairness this is what      *)
(* makes the app's polling end.                                            *)
(***************************************************************************)
THEOREM PendingIsNotForgotten == SafeSpec => []PendingIsUnderWay
<1> USE PaymentConstants
<1>1. Init => PendingIsUnderWay
  BY DEF Init, PendingIsUnderWay
<1>2. IInv /\ PendingIsUnderWay /\ [Next]_paymentVars => PendingIsUnderWay'
  BY UnderWayStep
<1> QED BY <1>1, <1>2, IInvHolds, PTL DEF SafeSpec

-----------------------------------------------------------------------------
\* The stage of a purchase without the CASE.
LEMMA StageOf ==
  ASSUME TypeOK, Handlers, NEW p \in Payments
  PROVE  /\ status[p] \in {"none", "pending"} => Stage[p] = status[p]
         /\ status[p] = "failed" => Stage[p] = "refused"
         /\ status[p] = "success" /\ activations[p] = 0 => Stage[p] = "settled"
         /\ status[p] = "success" /\ activations[p] = 1 => Stage[p] = "spent"
BY DEF TypeOK, Handlers, Stage

\* A step that changes one payment moves that one's stage and no other.
LEMMA StageMoves ==
  ASSUME NEW p \in Payments, NEW c,
         \A q \in Payments \ {p} : status'[q] = status[q] /\ activations'[q] = activations[q],
         Stage'[p] = c
  PROVE  Stage' = [Stage EXCEPT ![p] = c]
<1>1. \A q \in Payments \ {p} : Stage'[q] = Stage[q]
  BY DEF Stage
<1>2. Stage' = [q \in Payments |-> Stage'[q]] /\ Stage = [q \in Payments |-> Stage[q]]
  <2> DEFINE F(q) == CASE status[q] = "success" /\ activations[q] > 0 -> "spent"
                       [] status[q] = "success" /\ activations[q] = 0 -> "settled"
                       [] status[q] = "failed" -> "refused"
                       [] OTHER -> status[q]
             G(q) == CASE status'[q] = "success" /\ activations'[q] > 0 -> "spent"
                       [] status'[q] = "success" /\ activations'[q] = 0 -> "settled"
                       [] status'[q] = "failed" -> "refused"
                       [] OTHER -> status'[q]
  <2>1. Stage = [q \in Payments |-> F(q)] /\ Stage' = [q \in Payments |-> G(q)]
    BY DEF Stage
  <2> HIDE DEF F, G
  <2> QED BY <2>1
<1> QED BY <1>1, <1>2

\* Every step of Payments is a purchase's step or none at all.
LEMMA StepRefines ==
  ASSUME PaymentConstants, IInv, IInv', [Next]_paymentVars
  PROVE  [Purchase!Next]_(Purchase!purchaseVars)
<1>1. ASSUME NEW p \in Payments, NEW t \in TiersOnSale, Subscribe(p, t)
      PROVE  Purchase!Buy(p, t) /\ t \in SubscriptionTier \ {"free"}
  <2>1. /\ status[p] = "none" /\ status'[p] = "pending"
        /\ \A q \in Payments \ {p} : status'[q] = status[q] /\ activations'[q] = activations[q]
    BY <1>1 DEF Subscribe, historyVars, TypeOK
  <2>2. Stage[p] = "none" /\ Stage'[p] = "pending"
    BY <2>1 DEF Stage
  <2>3. Stage' = [Stage EXCEPT ![p] = "pending"]
    BY <2>1, <2>2, StageMoves
  <2> QED BY <1>1, <2>2, <2>3 DEF Subscribe, Purchase!Buy, PaymentConstants, SubscriptionTier
<1>2. ASSUME NEW w \in webhooks, ResolvePayment(w), status[w.payment] = "pending"
      PROVE  \E verdict \in {"settled", "refused"} : Purchase!Resolve(w.payment, verdict)
  <2> DEFINE p == w.payment
  <2>0. p \in Payments /\ w.verdict \in {"success", "failed"}
    BY DEF TypeOK, Calls, Verdicts
  <2>1. /\ status' = [status EXCEPT ![p] = w.verdict]
        /\ UNCHANGED <<activations, tier, profileTier>>
    BY <1>2 DEF ResolvePayment
  <2>2. /\ status'[p] = w.verdict /\ activations'[p] = 0
        /\ \A q \in Payments \ {p} : status'[q] = status[q] /\ activations'[q] = activations[q]
    BY <1>2, <2>0, <2>1 DEF TypeOK, Handlers
  <2>3. Stage[p] = "pending" /\ Stage'[p] = (IF w.verdict = "success" THEN "settled" ELSE "refused")
    BY <1>2, <2>0, <2>2 DEF Stage
  <2>4. Stage' = [Stage EXCEPT ![p] = IF w.verdict = "success" THEN "settled" ELSE "refused"]
    BY <2>0, <2>2, <2>3, StageMoves
  <2> QED BY <2>0, <2>1, <2>3, <2>4 DEF Purchase!Resolve
<1>3. ASSUME NEW p \in Payments, UpdateProfile(p) PROVE Purchase!Spend(p)
  <2>1. /\ UNCHANGED <<status, tier>> /\ p \in applying
        /\ profileTier' = [profileTier EXCEPT ![PayerOf[p]] = tier[p]]
        /\ activations' = [activations EXCEPT ![p] = @ + 1]
    BY <1>3 DEF UpdateProfile, rowVars
  <2>2. /\ status[p] = "success" /\ activations[p] = 0 /\ activations'[p] = 1
        /\ \A q \in Payments \ {p} : status'[q] = status[q] /\ activations'[q] = activations[q]
    BY <2>1 DEF Handlers, TypeOK
  <2>3. Stage[p] = "settled" /\ Stage'[p] = "spent"
    BY <2>1, <2>2 DEF Stage
  <2>4. Stage' = [Stage EXCEPT ![p] = "spent"]
    BY <2>2, <2>3, StageMoves
  <2> QED BY <2>1, <2>3, <2>4 DEF Purchase!Spend
<1>4. ASSUME UNCHANGED <<status, tier, profileTier, activations>>
      PROVE  UNCHANGED Purchase!purchaseVars
  BY <1>4 DEF Purchase!purchaseVars, Stage
<1>5. ASSUME NEW p \in Payments, NEW verdict \in Verdicts,
             \/ \E via \in Currency : CallByHand(p, verdict, via)
             \/ RequestCharge(p) \/ SimulateApproval(p)
      PROVE  UNCHANGED <<status, tier, profileTier, activations>>
  BY <1>5 DEF CallByHand, RequestCharge, SimulateApproval, rowVars, historyVars
<1>6. ASSUME NEW w \in webhooks,
             \/ LoseWebhook(w) \/ RefuseWebhook(w)
             \/ ResolvePayment(w) /\ status[w.payment] # "pending"
      PROVE  UNCHANGED <<status, tier, profileTier, activations>>
  BY <1>6 DEF LoseWebhook, RefuseWebhook, ResolvePayment, rowVars
<1>7. CASE Crash \/ UNCHANGED paymentVars
  BY <1>4, <1>7 DEF Crash, paymentVars, rowVars, historyVars
<1>8. ASSUME NEW p \in Payments,
             \/ \E t \in TiersOnSale : Subscribe(p, t)
             \/ \E verdict \in Verdicts, via \in Currency : CallByHand(p, verdict, via)
             \/ RequestCharge(p) \/ SimulateApproval(p) \/ UpdateProfile(p)
      PROVE  [Purchase!Next]_(Purchase!purchaseVars)
  <2>1. CASE \E t \in TiersOnSale : Subscribe(p, t)
    BY <1>1, <2>1 DEF Purchase!Next
  <2>2. CASE UpdateProfile(p)
    BY <1>3, <2>2 DEF Purchase!Next
  <2>3. "success" \in Verdicts
    BY DEF Verdicts
  <2> QED BY <1>4, <1>5, <1>8, <2>1, <2>2, <2>3
<1>9. ASSUME NEW w \in webhooks, LoseWebhook(w) \/ ResolvePayment(w) \/ RefuseWebhook(w)
      PROVE  [Purchase!Next]_(Purchase!purchaseVars)
  <2>1. w.payment \in Payments
    BY DEF TypeOK, Calls
  <2>2. CASE ResolvePayment(w) /\ status[w.payment] = "pending"
    BY <1>2, <2>1, <2>2 DEF Purchase!Next
  <2> QED BY <1>4, <1>6, <1>9, <2>2
<1> QED BY <1>7, <1>8, <1>9 DEF Next

(***************************************************************************)
(* Webhooks in any order, repeated or lost, and crashes between any two    *)
(* statements never settle a charge twice, change the verdict of one or    *)
(* apply a plan twice: Payments implements PurchaseLifecycle               *)
(* (payments.service.ts:129-138).                                          *)
(***************************************************************************)
THEOREM PurchasesAreHonoured == SafeSpec => ImplementsPurchase
<1> USE PaymentConstants
<1>1. Init => Purchase!Init
  BY DEF Init, Purchase!Init, Stage
<1>2. IInv /\ IInv' /\ [Next]_paymentVars => [Purchase!Next]_(Purchase!purchaseVars)
  BY StepRefines
<1> QED BY <1>1, <1>2, IInvHolds, PTL DEF SafeSpec, ImplementsPurchase, Purchase!SafeSpec
=============================================================================
