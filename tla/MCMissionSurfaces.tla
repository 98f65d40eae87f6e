-------------------------- MODULE MCMissionSurfaces --------------------------
(* Small instances of MissionSurfaces for TLC. *)
EXTENDS MissionSurfaces, MCMissions
=============================================================================
