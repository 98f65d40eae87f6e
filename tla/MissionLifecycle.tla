-------------------------- MODULE MissionLifecycle --------------------------
(***************************************************************************)
(* What the Kernel promises about a Mission, without saying how: an agent  *)
(* works on it only under a lease, from a budget of attempts that only the *)
(* user renews; candidates are handed over only under a live lease; only   *)
(* the verification of handed-over candidates forges a Find; and a         *)
(* finished Mission is reopened by the user alone.                         *)
(*                                                                         *)
(* Several Missions may move in one step (one listing reconciles them all).*)
(***************************************************************************)
EXTENDS Naturals

CONSTANTS Missions, MaxAttempts

VARIABLES life, budget

Life == {"absent", "ready", "leased", "lapsed", "pending", "forged", "empty", "failed"}

(* A Mission starts unknown, or pending from an earlier Kernel. *)
Init ==
  /\ life \in [Missions -> {"absent", "pending"}]
  /\ budget \in [Missions -> 0..MaxAttempts]

Moves(m, from, to) == life[m] \in from /\ life'[m] \in to

(* The user starts it (again): the budget is full. Never under a live lease.  *)
Open(m) ==
  /\ Moves(m, Life \ {"ready", "leased"}, {"ready"})
  /\ budget'[m] = MaxAttempts

Grant(m) ==
  /\ Moves(m, {"ready", "lapsed"}, {"leased"})
  /\ budget[m] > 0 /\ budget'[m] = budget[m] - 1

Lapse(m) == Moves(m, {"leased"}, {"lapsed"}) /\ budget'[m] = budget[m]

(* The attempt is given up: another one, if the budget allows.                *)
Release(m) ==
  /\ Moves(m, {"leased", "lapsed"}, IF budget[m] > 0 THEN {"ready"} ELSE {"failed"})
  /\ budget'[m] = budget[m]

Deliver(m) == Moves(m, {"leased"}, {"pending", "empty"}) /\ budget'[m] = budget[m]
Settle(m)  == Moves(m, {"pending"}, {"forged", "failed"}) /\ budget'[m] = budget[m]
Stay(m)    == life'[m] = life[m] /\ budget'[m] = budget[m]

Step(m) ==
  \/ Open(m) \/ Grant(m) \/ Lapse(m) \/ Release(m) \/ Deliver(m) \/ Settle(m) \/ Stay(m)

Next ==
  /\ life' \in [Missions -> Life]
  /\ budget' \in [Missions -> 0..MaxAttempts]
  /\ \A m \in Missions : Step(m)

Spec == Init /\ [][Next]_<<life, budget>>

=============================================================================
