-------------------------- MODULE PurchaseLifecycle --------------------------
(***************************************************************************)
(* What a craftsman who buys a plan is promised: a charge is settled or    *)
(* refused once, only a settled charge changes the plan, to the plan it    *)
(* was for, and it does so once.  Nothing is said of webhooks, timers or   *)
(* of the statements in between.  Payments is shown to implement it.       *)
(***************************************************************************)

CONSTANTS
  Charges,      \* charges that can be made
  Users,
  PayerOf,      \* the user each charge belongs to
  Plans,
  NoPlan        \* the plan nobody pays for

VARIABLES
  charge,       \* charge[p]: "none", "pending", "refused", "settled" or "spent"
  bought,       \* bought[p]: the plan p is for
  plan          \* plan[u]: the plan user u enjoys

purchaseVars == <<charge, bought, plan>>

Init ==
  /\ charge = [p \in Charges |-> "none"]
  /\ bought = [p \in Charges |-> NoPlan]
  /\ plan   = [u \in Users |-> NoPlan]

Buy(p, t) ==
  /\ charge[p] = "none"
  /\ charge' = [charge EXCEPT ![p] = "pending"]
  /\ bought' = [bought EXCEPT ![p] = t]
  /\ UNCHANGED plan

\* The provider's verdict, once.
Resolve(p, verdict) ==
  /\ charge[p] = "pending"
  /\ charge' = [charge EXCEPT ![p] = verdict]
  /\ UNCHANGED <<bought, plan>>

\* A settled charge buys its plan, once.
Spend(p) ==
  /\ charge[p] = "settled"
  /\ charge' = [charge EXCEPT ![p] = "spent"]
  /\ plan'   = [plan EXCEPT ![PayerOf[p]] = bought[p]]
  /\ UNCHANGED bought

Next ==
  \E p \in Charges :
    \/ \E t \in Plans \ {NoPlan} : Buy(p, t)
    \/ \E verdict \in {"settled", "refused"} : Resolve(p, verdict)
    \/ Spend(p)

SafeSpec == Init /\ [][Next]_purchaseVars
=============================================================================
