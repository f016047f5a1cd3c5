------------------------------- MODULE Payments -------------------------------
(***************************************************************************)
(* Subscriptions (backend/src/payments): the subscribe handler, the stub   *)
(* Wave and Whish clients that stand for the providers, and the webhook    *)
(* that resolves a payment.  The subscribe handler saves the row, then     *)
(* asks for the charge; the stub answers at once and calls the webhook     *)
(* from a timer; the webhook handler flips the row in one compare-and-swap *)
(* and updates the profile in a second statement.  Between any two of      *)
(* these the process may stop, and every timer, call and handler with it.  *)
(*                                                                         *)
(* Dates are left out: a plan that is set runs thirty days from then.      *)
(***************************************************************************)
EXTENDS Integers, Sequences

CONSTANTS
  Payments,       \* subscription_payments rows there can be
  Users,
  Craftsmen,      \* the users whose role is craftsman
  PayerOf,        \* user_id of each row
  CountryOf,      \* country code of each user's district
  Configured,     \* routes (their provider's currency) whose secret is set
  Production,     \* NODE_ENV = 'production'
  TiersOnSale,    \* bound: the tiers asked for
  MaxByHand,      \* bound: webhook calls made by hand or by a provider again
  MaxCrashes      \* bound on process restarts

ASSUME PaymentConstants ==
  /\ PayerOf \in [Payments -> Users]
  /\ Craftsmen \subseteq Users
  /\ TiersOnSale \subseteq {"free", "bronze", "silver", "gold"}
  /\ Production \in BOOLEAN
  /\ MaxByHand \in Nat
  /\ MaxCrashes \in Nat

SubscriptionTier == {"free", "bronze", "silver", "gold"}
Currency == {"CFA", "USD"}
CURRENCY_BY_COUNTRY == [CI |-> "CFA", LB |-> "USD"]

SUBSCRIPTION_TIER_PRICE ==
  [CFA |-> [free |-> 0, bronze |-> 3000, silver |-> 5000, gold |-> 10000],
   USD |-> [free |-> 0, bronze |-> 5, silver |-> 8, gold |-> 16]]

\* The amount and currency of a plan in a country with a payment channel.
GetSubscriptionPrice(tier, country) ==
  LET currency == CURRENCY_BY_COUNTRY[country]
  IN [amount |-> SUBSCRIPTION_TIER_PRICE[currency][tier], currency |-> currency]

VARIABLES
  status,         \* status[p] of the row, "none" before the INSERT
  tier,           \* tier[p] the row is for
  price,          \* price[p]: amount and currency written with the row
  charging,       \* rows saved whose requestCharge has not run yet
  timers,         \* rows whose simulated approval is armed
  webhooks,       \* webhook calls in transit: [payment, verdict, copy, via]
  byHand,         \* webhook calls made by hand so far
  applying,       \* webhook handlers between the flip and the profile UPDATE
  profileTier,    \* subscription_tier of each user's profile
  activations,    \* activations[p]: profile UPDATEs made for p (history)
  paid,           \* paid[u]: u's payments in the order they succeeded (history)
  overlapped,     \* users for whom two profile UPDATEs were under way (history)
  dropped,        \* payments whose charge or own webhook call was lost (history)
  interrupted,    \* payments whose profile UPDATE a crash prevented (history)
  crashes

rowVars     == <<status, tier, price>>
inFlight    == <<charging, timers, webhooks, applying>>
historyVars == <<activations, paid, overlapped, dropped, interrupted>>
paymentVars == <<rowVars, inFlight, byHand, profileTier, historyVars, crashes>>

NoPrice == [amount |-> 0, currency |-> "CFA"]

Init ==
  /\ status      = [p \in Payments |-> "none"]
  /\ tier        = [p \in Payments |-> "free"]
  /\ price       = [p \in Payments |-> NoPrice]
  /\ charging    = {}
  /\ timers      = {}
  /\ webhooks    = {}
  /\ byHand      = 0
  /\ applying    = {}
  /\ profileTier = [u \in Users |-> "free"]
  /\ activations = [p \in Payments |-> 0]
  /\ paid        = [u \in Users |-> <<>>]
  /\ overlapped  = {}
  /\ dropped     = {}
  /\ interrupted = {}
  /\ crashes     = 0

-----------------------------------------------------------------------------
\* subscribe up to the saved row: a paid tier, a craftsman, and a country with
\* a payment channel, or an error and no row.
Subscribe(p, t) ==
  LET u == PayerOf[p] IN
  /\ status[p] = "none"
  /\ t # "free"
  /\ u \in Craftsmen
  /\ CountryOf[u] \in DOMAIN CURRENCY_BY_COUNTRY
  /\ status'   = [status EXCEPT ![p] = "pending"]
  /\ tier'     = [tier EXCEPT ![p] = t]
  /\ price'    = [price EXCEPT ![p] = GetSubscriptionPrice(t, CountryOf[u])]
  /\ charging' = charging \cup {p}
  /\ UNCHANGED <<timers, webhooks, applying, byHand, profileTier, historyVars, crashes>>

\* Mutant: a stub that answers without arming its timer.
ChargeWithoutTimer(p) ==
  /\ p \in charging
  /\ charging' = charging \ {p}
  /\ UNCHANGED <<rowVars, timers, webhooks, applying, byHand, profileTier, historyVars, crashes>>

\* The stub client of the row's currency arms its timer and answers without a
\* provider reference, so nothing more is written.
RequestCharge(p) ==
  /\ p \in charging
  /\ charging' = charging \ {p}
  /\ timers'   = timers \cup {p}
  /\ UNCHANGED <<rowVars, webhooks, applying, byHand, profileTier, historyVars, crashes>>

\* The timer fires and posts a success to this server's own webhook, on the
\* route of the provider its stub stands for.
SimulateApproval(p) ==
  /\ p \in timers
  /\ timers'   = timers \ {p}
  /\ webhooks' = webhooks \cup {[payment |-> p, verdict |-> "success", copy |-> 0,
                              via |-> price[p].currency]}
  /\ UNCHANGED <<rowVars, charging, applying, byHand, profileTier, historyVars, crashes>>

\* A provider, or a developer's curl, calls the webhook of a known reference
\* with either verdict, whatever was called before; nothing ties the route it
\* comes through, Wave's or Whish's, to the payment.
CallByHand(p, verdict, via) ==
  /\ status[p] # "none"
  /\ byHand < MaxByHand
  /\ byHand'   = byHand + 1
  /\ webhooks' = webhooks \cup {[payment |-> p, verdict |-> verdict, copy |-> byHand + 1,
                              via |-> via]}
  /\ UNCHANGED <<rowVars, charging, timers, applying, profileTier, historyVars, crashes>>

\* The payment whose only charge the call reports, if it is not a call by hand.
OwnCall(w) == IF w.copy = 0 THEN {w.payment} ELSE {}

\* The fetch of the stub fails, or the call never arrives: only a log line.
LoseWebhook(w) ==
  /\ w \in webhooks
  /\ webhooks' = webhooks \ {w}
  /\ dropped'  = dropped \cup OwnCall(w)
  /\ UNCHANGED <<rowVars, charging, timers, applying, byHand, profileTier,
                 activations, paid, overlapped, interrupted, crashes>>

\* The secret guard of the route a call came through: an unset secret lets calls
\* in outside production.
SecretAccepted(w) == w.via \in Configured \/ ~Production

\* Mutant: the flip of a row whatever its status.
ResolveWithoutSwap(w) ==
  LET p == w.payment IN
  /\ w \in webhooks
  /\ SecretAccepted(w)
  /\ webhooks' = webhooks \ {w}
  /\ status'   = [status EXCEPT ![p] = w.verdict]
  /\ IF w.verdict = "success"
     THEN /\ applying'   = applying \cup {p}
          /\ paid'       = [paid EXCEPT ![PayerOf[p]] = Append(@, p)]
          /\ overlapped' = overlapped \cup {PayerOf[q] : q \in applying}
     ELSE UNCHANGED <<applying, paid, overlapped>>
  /\ UNCHANGED <<tier, price, charging, timers, byHand, profileTier,
                 activations, dropped, interrupted, crashes>>

\* Mutant: the provider's own word stored in the status column.
ResolveVerbatim(w) ==
  /\ w \in webhooks
  /\ SecretAccepted(w)
  /\ webhooks' = webhooks \ {w}
  /\ status' = [status EXCEPT ![w.payment] = "succeeded"]
  /\ UNCHANGED <<tier, price, charging, timers, applying, byHand, profileTier,
                 historyVars, crashes>>

\* handlePaymentWebhook's compare-and-swap: the row is flipped if it is still
\* pending; a redelivery, or a verdict that lost the race, changes nothing.
ResolvePayment(w) ==
  LET p == w.payment  u == PayerOf[p] IN
  /\ w \in webhooks
  /\ SecretAccepted(w)
  /\ webhooks' = webhooks \ {w}
  /\ status' = IF status[p] = "pending"
               THEN [status EXCEPT ![p] = w.verdict] ELSE status
  /\ IF status[p] = "pending" /\ w.verdict = "success"
     THEN /\ applying'   = applying \cup {p}
          /\ paid'       = [paid EXCEPT ![u] = Append(@, p)]
          /\ overlapped' = overlapped \cup ({u} \cap {PayerOf[q] : q \in applying})
     ELSE UNCHANGED <<applying, paid, overlapped>>
  /\ UNCHANGED <<tier, price, charging, timers, byHand, profileTier,
                 activations, dropped, interrupted, crashes>>

\* The guard refuses the call with a 401 the caller ignores.
RefuseWebhook(w) ==
  /\ w \in webhooks
  /\ ~SecretAccepted(w)
  /\ webhooks' = webhooks \ {w}
  /\ dropped'  = dropped \cup OwnCall(w)
  /\ UNCHANGED <<rowVars, charging, timers, applying, byHand, profileTier,
                 activations, paid, overlapped, interrupted, crashes>>

\* Mutant: an update that never lowers the plan, so a first plan sticks.
KeepFirstPlan(p) ==
  LET u == PayerOf[p] IN
  /\ p \in applying
  /\ applying'    = applying \ {p}
  /\ profileTier' = [profileTier EXCEPT ![u] = IF @ = "free" THEN tier[p] ELSE @]
  /\ activations' = [activations EXCEPT ![p] = @ + 1]
  /\ UNCHANGED <<rowVars, charging, timers, webhooks, byHand, paid, overlapped,
                 dropped, interrupted, crashes>>

\* The profile UPDATE: the plan, and thirty days from now.
UpdateProfile(p) ==
  /\ p \in applying
  /\ applying'    = applying \ {p}
  /\ profileTier' = [profileTier EXCEPT ![PayerOf[p]] = tier[p]]
  /\ activations' = [activations EXCEPT ![p] = @ + 1]
  /\ UNCHANGED <<rowVars, charging, timers, webhooks, byHand, paid, overlapped,
                 dropped, interrupted, crashes>>

\* The process stops: what was in flight is gone, the tables stay.
Crash ==
  /\ crashes < MaxCrashes
  /\ crashes'  = crashes + 1
  /\ dropped'  = dropped \cup charging \cup timers \cup UNION {OwnCall(w) : w \in webhooks}
  /\ interrupted' = interrupted \cup applying
  /\ charging' = {}
  /\ timers'   = {}
  /\ webhooks' = {}
  /\ applying' = {}
  /\ UNCHANGED <<rowVars, byHand, profileTier, activations, paid, overlapped>>

-----------------------------------------------------------------------------
Verdicts == {"success", "failed"}
Calls == [payment : Payments, verdict : Verdicts, copy : 0 .. MaxByHand,
          via : Currency]

Next ==
  \/ \E p \in Payments :
       \/ \E t \in TiersOnSale : Subscribe(p, t)
       \/ \E verdict \in Verdicts, via \in Currency : CallByHand(p, verdict, via)
       \/ RequestCharge(p)
       \/ SimulateApproval(p)
       \/ UpdateProfile(p)
  \/ \E w \in webhooks : LoseWebhook(w) \/ ResolvePayment(w) \/ RefuseWebhook(w)
  \/ Crash

SafeSpec == Init /\ [][Next]_paymentVars

\* Node runs a ready continuation, an armed timer and an accepted HTTP call;
\* calls by hand, losses and crashes owe nothing.
Fairness ==
  \A p \in Payments :
    /\ WF_paymentVars(RequestCharge(p))
    /\ WF_paymentVars(SimulateApproval(p))
    /\ WF_paymentVars(UpdateProfile(p))
    /\ WF_paymentVars(\E w \in webhooks : /\ w.payment = p
                                          /\ ResolvePayment(w) \/ RefuseWebhook(w))

Spec == SafeSpec /\ Fairness

-----------------------------------------------------------------------------
TypeOK ==
  /\ status      \in [Payments -> {"none", "pending", "success", "failed"}]
  /\ tier        \in [Payments -> SubscriptionTier]
  /\ price       \in [Payments -> [amount : Nat, currency : Currency]]
  /\ charging    \subseteq Payments
  /\ timers      \subseteq Payments
  /\ webhooks    \subseteq Calls
  /\ byHand      \in 0 .. MaxByHand
  /\ applying    \subseteq Payments
  /\ profileTier \in [Users -> SubscriptionTier]
  /\ activations \in [Payments -> Nat]
  /\ paid        \in [Users -> Seq(Payments)]
  /\ overlapped  \subseteq Users
  /\ dropped     \subseteq Payments
  /\ interrupted \subseteq Payments
  /\ crashes     \in 0 .. MaxCrashes

(***************************************************************************)
(* A payment that succeeded has changed the profile once, or a handler is  *)
(* about to: redeliveries never do it again, and a process that stops       *)
(* between the flip and the profile UPDATE is the only way to have paid    *)
(* for nothing (payments.service.ts:129-138).                              *)
(***************************************************************************)
PaidIsActivated ==
  \A p \in Payments :
    /\ activations[p] = 1 => status[p] = "success" /\ p \notin applying
    /\ activations[p] <= 1
    /\ status[p] = "success" => activations[p] = 1 \/ p \in applying \/ p \in interrupted

(***************************************************************************)
(* With no profile UPDATE under way, a craftsman whose payments were       *)
(* handled one after the other has the plan of the last one that           *)
(* succeeded, in whatever order they were bought and delivered             *)
(* (payments.service.ts:168-176).                                          *)
(***************************************************************************)
NewestPlanWins ==
  \A u \in Craftsmen \ overlapped :
    LET mine == {p \in Payments : PayerOf[p] = u} IN
    /\ paid[u] # <<>>
    /\ mine \cap (applying \cup interrupted) = {}
    => profileTier[u] = tier[paid[u][Len(paid[u])]]

\* The craftsman gets what they paid for.
PaidPlanIsEnjoyed == PaidIsActivated /\ NewestPlanWins

\* What the app polls: the caller's own payment, or nothing.
GetStatus(u, p) ==
  IF status[p] = "none" \/ PayerOf[p] # u THEN "not_found" ELSE status[p]

(***************************************************************************)
(* What SubscriptionResolves rests on: a payment that is still pending has *)
(* its charge, its timer or its own webhook call ahead of it, and it is    *)
(* left pending for good only when one of these was lost                   *)
(* (payments.service.ts:79-104, stub-wave-client.ts:34).                      *)
(***************************************************************************)
PendingIsUnderWay ==
  \A p \in Payments : status[p] = "pending" =>
    p \in charging \cup timers \cup dropped \cup UNION {OwnCall(w) : w \in webhooks}

(***************************************************************************)
(* A purchase whose steps all run stops being pending, so the app that     *)
(* polls it (payments.service.ts:107-127) is not left waiting.             *)
(***************************************************************************)
SubscriptionResolves ==
  \A p \in Payments :
    GetStatus(PayerOf[p], p) = "pending"
      ~> GetStatus(PayerOf[p], p) # "pending" \/ p \in dropped

-----------------------------------------------------------------------------
\* The stage of a purchase, of which the abstract specification speaks.
Stage == [p \in Payments |->
            CASE status[p] = "success" /\ activations[p] > 0 -> "spent"
              [] status[p] = "success" /\ activations[p] = 0 -> "settled"
              [] status[p] = "failed" -> "refused"
              [] OTHER -> status[p]]

Purchase == INSTANCE PurchaseLifecycle
  WITH Charges <- Payments, Plans <- SubscriptionTier, NoPlan <- "free",
       charge <- Stage, bought <- tier, plan <- profileTier

ImplementsPurchase == Purchase!SafeSpec
=============================================================================
