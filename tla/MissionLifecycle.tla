-------------------------- MODULE MissionLifecycle --------------------------
(***************************************************************************)
(* What the poster of a mission and its applicants are promised: nobody    *)
(* sees a mission before it has been approved, an open mission is given to *)
(* one applicant, once, and a closed mission stays closed.  Nothing is     *)
(* said of the moderation queue, of SQL or of transactions.  Missions is   *)
(* shown to implement it.                                                  *)
(***************************************************************************)

CONSTANTS
  Missions,   \* mission ids
  Users,
  PosterOf,   \* the user who posted each mission
  NoUser      \* "nobody yet"

VARIABLES
  phase,      \* phase[m]: where mission m stands
  worker      \* worker[m]: the applicant it was given to, or NoUser

lifecycleVars == <<phase, worker>>

Init ==
  /\ phase  = [m \in Missions |-> "none"]
  /\ worker = [m \in Missions |-> NoUser]

Move(m, from, to) ==
  /\ phase[m] \in from
  /\ phase' = [phase EXCEPT ![m] = to]

Post(m)    == Move(m, {"none"}, "hidden") /\ UNCHANGED worker
Publish(m) == Move(m, {"hidden"}, "open") /\ UNCHANGED worker

\* An open mission is given to somebody other than its poster.
Give(m, u) ==
  /\ u # PosterOf[m]
  /\ Move(m, {"open"}, "given")
  /\ worker' = [worker EXCEPT ![m] = u]

Finish(m)   == Move(m, {"given"}, "closed") /\ UNCHANGED worker
Withdraw(m) == Move(m, {"hidden", "open"}, "closed") /\ UNCHANGED worker

Next ==
  \E m \in Missions :
    \/ Post(m) \/ Publish(m) \/ Finish(m) \/ Withdraw(m)
    \/ \E u \in Users : Give(m, u)

SafeSpec == Init /\ [][Next]_lifecycleVars
=============================================================================
