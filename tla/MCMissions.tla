----------------------------- MODULE MCMissions -----------------------------
(* Small instances of Missions for TLC. *)
EXTENDS Missions, TLC

OneGoal == [m \in Missions |-> CHOOSE g \in Goals : TRUE]

(* What the one-click launcher can find at a start: a certified Hermes, one   *)
(* that is not certified, or none at all.                                     *)
Certified   == [ready |-> TRUE, gate |-> TRUE, ro |-> TRUE]
Uncertified == [ready |-> TRUE, gate |-> TRUE, ro |-> FALSE]
NoHermes    == [ready |-> FALSE, gate |-> FALSE, ro |-> FALSE]
(* A Kernel with only the signed ingestion route: ready, but claims ungated.  *)
Ungated     == [ready |-> TRUE, gate |-> FALSE, ro |-> FALSE]

CertifiedOnly == {Certified}
AllEnvironments == {Certified, Uncertified, NoHermes, Ungated}
NoMissions == {}
AllMissions == Missions

(* Processes of a kind are interchangeable. *)
Symmetry == Permutations(Slots)

=============================================================================
